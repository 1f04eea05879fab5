--------------------------- MODULE CollectorProof ---------------------------
(***************************************************************************)
(* For any heap, any contexts and any epoch range: no reachable block is   *)
(* reclaimed, marking finds exactly the reachable blocks, and finalizers   *)
(* come once and before the sweep.  For a multicore build the collector's  *)
(* books are exact as well, and the early exit for an all-live heap is     *)
(* right.                                                                  *)
(*                                                                         *)
(* The argument: marking has the world for itself (WorldInv), so roots and *)
(* references stand still; no block bears the epoch that the next marking  *)
(* will use (mark <= epoch, and a wrap clears all marks); and the marked   *)
(* blocks that are off the queue refer to marked blocks only (MarkInv, the *)
(* tri-colour invariant).  An empty queue then leaves a set that is closed *)
(* and holds the roots.  Since reclaimed blocks are unreachable and lose   *)
(* their references, references always lead to allocated blocks            *)
(* (HeapClosed), for finalizers and the next collection to rely on.        *)
(***************************************************************************)
EXTENDS Collector, FiniteSetTheorems, TLAPS

-----------------------------------------------------------------------------
\* Marking has the world for itself.
WorldInv ==
    /\ World!Exclusive
    /\ phase = "marking" => stopper = Owner

\* References and roots lead to allocated blocks.
HeapClosed ==
    /\ \A b \in Blocks : refs[b] \subseteq Allocated
    /\ \A b \in Blocks : type[b] = "free" => refs[b] = {}
    /\ AllRoots \subseteq Allocated \cup {Foreign}
    /\ IF phase = "callback" THEN current \in Allocated ELSE current = Nil

MarkedBlocks == {b \in Blocks : mark[b] = epoch}

\* No mark is of a later epoch, and the tri-colour invariant.
MarkInv ==
    /\ \A b \in Blocks : mark[b] <= epoch
    /\ phase = "marking" =>
         /\ queue \subseteq MarkedBlocks
         /\ MarkedBlocks \subseteq Reach(AllRoots)
         /\ AllRoots \cap Blocks \subseteq MarkedBlocks
         /\ \A b \in MarkedBlocks \ queue : refs[b] \subseteq MarkedBlocks

Pending == {b \in Blocks : flag[b] = "pending"}

\* The flags of a block say what has become of its finalizer.
FlagInv ==
    /\ \A b \in Blocks : entered[b] <=> flag[b] = "finalized"
    /\ PendingExact

CInv == TypeOK /\ WorldInv /\ HeapClosed /\ MarkInv /\ FlagInv

\* The books of a multicore build: every allocation is counted when it is made.
CountInv == building = Nil /\ LiveCountsExact

-----------------------------------------------------------------------------
(* Reach is the least closed set that holds its roots.                     *)

LEMMA ReachHolds ==
  ASSUME TypeOK, NEW R
  PROVE  /\ Reach(R) \in SUBSET Blocks
         /\ R \cap Blocks \subseteq Reach(R)
         /\ \A b \in Reach(R) : refs[b] \subseteq Reach(R)
<1>1. \A b \in Blocks : refs[b] \subseteq Blocks
  BY DEF TypeOK
<1>2. ASSUME NEW b \in Reach(R), NEW c \in refs[b] PROVE c \in Reach(R)
  <2>1. b \in Blocks /\ c \in Blocks
    BY <1>1, <1>2 DEF Reach
  <2>2. ASSUME NEW S \in SUBSET Blocks, R \cap Blocks \subseteq S, Closed(S) PROVE c \in S
    <3>1. b \in S
      BY <1>2, <2>2 DEF Reach
    <3> QED BY <1>2, <2>2, <3>1 DEF Closed
  <2> QED BY <2>1, <2>2 DEF Reach
<1> QED BY <1>2 DEF Reach

LEMMA ReachLeast ==
  ASSUME NEW R, NEW S \in SUBSET Blocks, R \cap Blocks \subseteq S,
         \A b \in S : refs[b] \subseteq S
  PROVE  Reach(R) \subseteq S
BY DEF Reach, Closed

\* Everything within reach of the program is allocated.
LEMMA ReachAllocated ==
  ASSUME TypeOK, HeapClosed, NEW R, R \cap Blocks \subseteq Allocated
  PROVE  Reach(R) \subseteq Allocated
<1>1. Allocated \in SUBSET Blocks /\ \A b \in Allocated : refs[b] \subseteq Allocated
  BY DEF Allocated, HeapClosed
<1> HIDE DEF Allocated
<1> QED BY <1>1, ReachLeast

\* What t can get hold of is allocated.
LEMMA AccessibleAllocated ==
  ASSUME TypeOK, HeapClosed, NEW t
  PROVE  Accessible(t) \subseteq Allocated
<1> DEFINE R == AllRoots \cup IF t = Owner /\ phase = "callback" THEN {current} ELSE {}
<1>1. Foreign \notin Blocks
  BY CollectorAssumption
<1>2. R \cap Blocks \subseteq Allocated
  BY <1>1 DEF HeapClosed
<1> HIDE DEF R
<1>3. Reach(R) \subseteq Allocated
  BY <1>2, ReachAllocated
<1> QED BY <1>3 DEF Accessible, R

LEMMA AccessibleBlocks ==
  ASSUME NEW t
  PROVE  Accessible(t) \subseteq Blocks
BY DEF Accessible, Reach

-----------------------------------------------------------------------------
(* Type correctness.                                                       *)

LEMMA FiniteBlocks ==
  ASSUME NEW S \in SUBSET Blocks
  PROVE  IsFiniteSet(S) /\ Cardinality(S) \in Nat
BY CollectorAssumption, FS_Subset, FS_CardinalityType

\* A counter of CountMax's width holds whatever is stored in it.
LEMMA WrappedType ==
  ASSUME NEW n \in Int
  PROVE  Wrapped(n) \in 0 .. CountMax
BY CollectorAssumption DEF Wrapped

\* The world is always of its type, and exclusive when it is stopped.
LEMMA WorldStep ==
  ASSUME World!TypeOK, World!Exclusive, NEW t \in Tasks,
         \/ World!Join(t) \/ World!Leave(t) \/ World!Hold(t)
         \/ World!Resume(t) \/ World!Grant(t) \/ World!Yield(t)
  PROVE  World!TypeOK' /\ World!Exclusive'
<1>1. World!TypeOK'
  BY DEF World!TypeOK, World!Join, World!Leave, World!Hold, World!Resume, World!Grant,
         World!Yield, World!Become
<1>2. CASE World!Join(t) \/ World!Resume(t)
  BY <1>1, <1>2 DEF World!Join, World!Resume, World!Exclusive
<1>3. CASE World!Leave(t) \/ World!Hold(t)
  BY <1>1, <1>3 DEF World!Leave, World!Hold, World!Become, World!Exclusive, World!TypeOK
<1>4. CASE World!Grant(t) \/ World!Yield(t)
  BY <1>1, <1>4 DEF World!Grant, World!Yield, World!Exclusive
<1> QED BY <1>1, <1>2, <1>3, <1>4

(* Whatever implements StopTheWorld keeps the exclusive phase exclusive:   *)
(* while the world is stopped nobody runs managed code.  GCHandshake does  *)
(* (HandshakeImplements), so the world of the collector is one that the    *)
(* runtime provides (embedded_gc_handshake.c:103-155).                     *)
THEOREM WorldIsExclusive == World!Spec => [](World!TypeOK /\ World!Exclusive)
<1>1. World!Init => World!TypeOK /\ World!Exclusive
  BY DEF World!Init, World!TypeOK, World!Exclusive
<1>2. World!TypeOK /\ World!Exclusive /\ [World!Next]_(World!vars)
        => (World!TypeOK /\ World!Exclusive)'
  <2>1. World!TypeOK /\ World!Exclusive /\ UNCHANGED World!vars
          => (World!TypeOK /\ World!Exclusive)'
    BY DEF World!vars, World!TypeOK, World!Exclusive
  <2>2. World!TypeOK /\ World!Exclusive /\ World!Next
          => (World!TypeOK /\ World!Exclusive)'
    BY WorldStep DEF World!Next
  <2> QED BY <2>1, <2>2
<1> QED BY <1>1, <1>2, PTL DEF World!Spec

\* A block is allocated.
LEMMA PlaceTypes ==
  ASSUME TypeOK, NEW t \in Tasks, NEW b \in Blocks, NEW k, Place(t, b, k)
  PROVE  /\ type' \in [Blocks -> Types \cup {"free"}]
         /\ refs' \in [Blocks -> SUBSET Blocks]
         /\ roots' \in [Tasks -> SUBSET (Blocks \cup {Foreign})]
         /\ flag' \in [Blocks -> {"none", "pending", "finalized"}]
         /\ mark' \in [Blocks -> 0 .. EpochMax]
         /\ live' \in [{"objects", "arrays"} -> 0 .. CountMax]
         /\ building' \in Blocks \cup {Nil}
         /\ entered' \in [Blocks -> BOOLEAN]
<1>1. k \in Types /\ EpochMax \in Nat
  BY CollectorAssumption DEF Place
<1>2. type' \in [Blocks -> Types \cup {"free"}] /\ refs' \in [Blocks -> SUBSET Blocks]
  BY <1>1 DEF Place, TypeOK
<1>3. roots' \in [Tasks -> SUBSET (Blocks \cup {Foreign})]
  BY DEF Place, TypeOK
<1>4. /\ flag' \in [Blocks -> {"none", "pending", "finalized"}]
      /\ entered' \in [Blocks -> BOOLEAN]
      /\ building' \in Blocks \cup {Nil}
  BY DEF Place, TypeOK
<1>5. mark' \in [Blocks -> 0 .. EpochMax]
  <2>1. 0 \in 0 .. EpochMax
    BY <1>1
  <2> QED BY <2>1 DEF Place, TypeOK
<1>6. live' \in [{"objects", "arrays"} -> 0 .. CountMax]
  <2>1. Counter(k) \in {"objects", "arrays"}
    BY DEF Counter
  <2>2. live[Counter(k)] + 1 \in Int
    BY <2>1, CollectorAssumption DEF TypeOK
  <2>3. Wrapped(live[Counter(k)] + 1) \in 0 .. CountMax
    BY <2>2, WrappedType
  <2> HIDE DEF Wrapped
  <2> QED BY <2>1, <2>3 DEF Place, TypeOK
<1> QED BY <1>2, <1>3, <1>4, <1>5, <1>6

\* What an exception leaves of the owner's frames.
LEMMA UnwindTypes ==
  ASSUME TypeOK, Unwind
  PROVE  /\ roots' \in [Tasks -> SUBSET (Blocks \cup {Foreign})]
         /\ \A t \in Tasks : roots'[t] \subseteq roots[t]
         /\ building' \in Blocks \cup {Nil} /\ building' \in {building, Nil}
         /\ wants' = "nothing"
<1>1. PICK R \in SUBSET roots[Owner] :
        /\ roots' = [roots EXCEPT ![Owner] = R]
        /\ building' \in {building, Nil}
  BY DEF Unwind
<1>2. Owner \in Tasks
  BY CollectorAssumption
<1> QED BY <1>1, <1>2 DEF Unwind, TypeOK

LEMMA AbortTypes ==
  ASSUME TypeOK, Abort
  PROVE  /\ flag' \in [Blocks -> {"none", "pending", "finalized"}]
         /\ pending' = 0 /\ phase' = "idle" /\ queue' = {} /\ invalid' = FALSE /\ current' = Nil
         /\ UNCHANGED <<type, refs, mark, live, entered, epoch, finalized>>
         /\ Unwind
BY DEF Abort, Return, TypeOK

LEMMA NextEpochTypes ==
  ASSUME TypeOK
  PROVE  /\ NextEpoch \in 1 .. EpochMax
         /\ MarksBefore \in [Blocks -> 0 .. EpochMax]
BY CollectorAssumption DEF NextEpoch, MarksBefore, TypeOK

\* All of the state but the world.
DataTypes ==
    /\ type \in [Blocks -> Types \cup {"free"}]
    /\ refs \in [Blocks -> SUBSET Blocks]
    /\ roots \in [Tasks -> SUBSET (Blocks \cup {Foreign})]
    /\ flag \in [Blocks -> {"none", "pending", "finalized"}]
    /\ mark \in [Blocks -> 0 .. EpochMax]
    /\ epoch \in 0 .. EpochMax
    /\ phase \in Phases
    /\ queue \subseteq Blocks
    /\ invalid \in BOOLEAN /\ finalized \in BOOLEAN
    /\ pending \in Nat
    /\ current \in Blocks \cup {Nil}
    /\ live \in [{"objects", "arrays"} -> 0 .. CountMax]
    /\ wants \in {"nothing", "audit", "first", "second"}
    /\ building \in Blocks \cup {Nil}
    /\ entered \in [Blocks -> BOOLEAN]

\* The steps of the program keep the types.
LEMMA ProgramTypes ==
  ASSUME TypeOK, Program
  PROVE  DataTypes'
<1>1. DataTypes
  BY DEF TypeOK, DataTypes
<1>2. ASSUME NEW t \in Tasks, NEW b \in Blocks, AddRoot(t, b) \/ DropRoot(t, b)
      PROVE  DataTypes'
  <2>1. roots' \in [Tasks -> SUBSET (Blocks \cup {Foreign})]
    BY <1>1, <1>2 DEF AddRoot, DropRoot, DataTypes
  <2> QED BY <1>1, <1>2, <2>1 DEF AddRoot, DropRoot, DataTypes, heapVars, gcVars
<1>3. ASSUME NEW t \in Tasks, NEW b \in Blocks, NEW c \in Blocks, Link(t, b, c) \/ Unlink(t, b, c)
      PROVE  DataTypes'
  <2>1. refs' \in [Blocks -> SUBSET Blocks]
    BY <1>1, <1>3 DEF Link, Unlink, DataTypes
  <2> QED BY <1>1, <1>3, <2>1 DEF Link, Unlink, DataTypes, gcVars
<1>4. ASSUME NEW t \in Tasks, NEW b \in Blocks, NEW k \in Types, Allocate(t, b, k)
      PROVE  DataTypes'
  <2>1. Place(t, b, k) /\ UNCHANGED <<gcVars, wants>>
    BY <1>4 DEF Allocate
  <2> QED BY <1>1, <2>1, PlaceTypes DEF DataTypes, gcVars
<1>5. CASE AddForeignRoot \/ DropRoot(Owner, Foreign)
  <2>1. roots' \in [Tasks -> SUBSET (Blocks \cup {Foreign})]
    BY <1>1, <1>5 DEF AddForeignRoot, DropRoot, DataTypes
  <2> QED BY <1>1, <1>5, <2>1 DEF AddForeignRoot, DropRoot, DataTypes, heapVars, gcVars
<1>6. CASE Built
  <2>1. live["arrays"] + 1 \in Int
    BY <1>1, CollectorAssumption DEF DataTypes
  <2>2. Wrapped(live["arrays"] + 1) \in 0 .. CountMax
    BY <2>1, WrappedType
  <2>3. live' \in [{"objects", "arrays"} -> 0 .. CountMax]
    <3> HIDE DEF Wrapped
    <3> QED BY <1>1, <1>6, <2>2 DEF Built, DataTypes
  <2> QED BY <1>1, <1>6, <2>3 DEF Built, DataTypes, gcVars
<1>7. CASE Throw
  BY <1>1, <1>7, UnwindTypes DEF Throw, DataTypes, heapVars, gcVars
<1>8. ASSUME NEW t \in Tasks, WorkerStep(t) PROVE DataTypes'
  BY <1>1, <1>8 DEF WorkerStep, DataTypes, heapVars, gcVars
<1> QED BY <1>2, <1>3, <1>4, <1>5, <1>6, <1>7, <1>8 DEF Program

\* Marking.
LEMMA MarkingTypes ==
  ASSUME TypeOK, Marking \/ AuditInFinalizer
  PROVE  DataTypes'
<1>1. DataTypes
  BY DEF TypeOK, DataTypes
<1>2. NextEpoch \in 0 .. EpochMax /\ MarksBefore \in [Blocks -> 0 .. EpochMax]
  BY NextEpochTypes, CollectorAssumption
<1> HIDE DEF NextEpoch, MarksBefore
<1>3. CASE MarkRoots
  <2>1. mark' \in [Blocks -> 0 .. EpochMax] /\ queue' \subseteq Blocks
    BY <1>1, <1>2, <1>3 DEF MarkRoots, DataTypes, Allocated
  <2>2. epoch' \in 0 .. EpochMax /\ phase' \in Phases /\ finalized' \in BOOLEAN /\ pending' \in Nat
    <3>1. epoch' \in 0 .. EpochMax /\ phase' \in Phases
      BY <1>2, <1>3 DEF MarkRoots, Phases
    <3>2. CASE wants = "audit"
      BY <1>1, <1>3, <3>1, <3>2 DEF MarkRoots, DataTypes
    <3>3. CASE wants # "audit"
      <4>1. finalized' = FALSE /\ pending' = 0
        BY <1>3, <3>3 DEF MarkRoots
      <4> QED BY <3>1, <4>1
    <3> QED BY <3>2, <3>3
  <2>3. invalid' \in BOOLEAN
    BY <1>3 DEF MarkRoots
  <2> QED BY <1>1, <1>3, <2>1, <2>2, <2>3 DEF MarkRoots, DataTypes
<1>4. ASSUME NEW b \in Blocks, MarkBlock(b) PROVE DataTypes'
  <2>1. mark' \in [Blocks -> 0 .. EpochMax] /\ queue' \subseteq Blocks
    BY <1>1, <1>4 DEF MarkBlock, DataTypes, Allocated
  <2>2. invalid' \in BOOLEAN
    BY <1>4 DEF MarkBlock
  <2> QED BY <1>1, <1>4, <2>1, <2>2 DEF MarkBlock, DataTypes
<1>5. CASE AuditInFinalizer
  <2>1. mark' \in [Blocks -> 0 .. EpochMax] /\ epoch' \in 0 .. EpochMax
    BY <1>1, <1>2, <1>5 DEF AuditInFinalizer, DataTypes
  <2> QED BY <1>1, <1>5, <2>1 DEF AuditInFinalizer, DataTypes
<1> QED BY <1>3, <1>4, <1>5 DEF Marking

\* Where a collection begins and ends.
LEMMA CollectTypes ==
  ASSUME TypeOK, Collect \/ StopFails \/ OwnerResumes \/ CollectAgain \/ AuditExit
                 \/ InvalidExit \/ AllLiveExit \/ TraceThrows \/ FinalizerReturns
                 \/ FinalizerThrows \/ FinalizersDone
  PROVE  DataTypes'
<1>1. DataTypes
  BY DEF TypeOK, DataTypes
<1>2. CASE Collect \/ CollectAgain
  BY <1>1, <1>2 DEF Collect, CollectAgain, StopBegin, DataTypes, heapVars, Phases
<1>3. CASE StopFails \/ OwnerResumes
  BY <1>1, <1>3 DEF StopFails, OwnerResumes, DataTypes, heapVars, gcVars, Phases
<1>4. CASE AuditExit \/ InvalidExit \/ AllLiveExit \/ FinalizersDone
  BY <1>1, <1>4 DEF AuditExit, InvalidExit, AllLiveExit, FinalizersDone, Return, DataTypes,
                    heapVars, Phases
<1>5. CASE FinalizerReturns
  BY <1>1, <1>5 DEF FinalizerReturns, DataTypes, heapVars, Phases
<1>6. CASE TraceThrows \/ FinalizerThrows
  <2>1. Abort
    BY <1>6 DEF TraceThrows, FinalizerThrows
  <2> QED BY <1>1, <2>1, AbortTypes, UnwindTypes DEF DataTypes, Phases
<1> QED BY <1>2, <1>3, <1>4, <1>5, <1>6

\* Finalizers and the sweep; PendingExact keeps the count of finalizers positive.
LEMMA SweepTypes ==
  ASSUME TypeOK, QueueFinalizers \/ Sweep
  PROVE  DataTypes'
<1>1. DataTypes
  BY DEF TypeOK, DataTypes
<1>2. CASE QueueFinalizers
  <2>1. flag' \in [Blocks -> {"none", "pending", "finalized"}]
    BY <1>1, <1>2 DEF QueueFinalizers, DataTypes
  <2>2. pending' \in Nat
    <3>1. ToFinalize \in SUBSET Blocks
      BY DEF ToFinalize, Unmarked, Allocated
    <3> QED BY <1>2, <3>1, FiniteBlocks DEF QueueFinalizers
  <2> QED BY <1>1, <1>2, <2>1, <2>2 DEF QueueFinalizers, DataTypes, Phases
<1>3. CASE Sweep
  <2> DEFINE dead == Unmarked
  <2>1. Reclaim(dead)
    BY <1>3 DEF Sweep
  <2> HIDE DEF dead
  <2>2. type' \in [Blocks -> Types \cup {"free"}] /\ refs' \in [Blocks -> SUBSET Blocks]
    BY <1>1, <2>1 DEF Reclaim, DataTypes
  <2>3. mark' \in [Blocks -> 0 .. EpochMax]
    <3>1. 0 \in 0 .. EpochMax
      BY CollectorAssumption
    <3> QED BY <1>1, <2>1, <3>1 DEF Reclaim, DataTypes
  <2>4. /\ flag' \in [Blocks -> {"none", "pending", "finalized"}]
        /\ entered' \in [Blocks -> BOOLEAN]
    BY <1>1, <2>1 DEF Reclaim, DataTypes
  <2>5. live' \in [{"objects", "arrays"} -> 0 .. CountMax]
    <3>1. \A c \in {"objects", "arrays"} :
             Wrapped(live[c] - Cardinality(dead \cap Of(c))) \in 0 .. CountMax
      <4> SUFFICES ASSUME NEW c \in {"objects", "arrays"}
                   PROVE  Wrapped(live[c] - Cardinality(dead \cap Of(c))) \in 0 .. CountMax
        OBVIOUS
      <4>1. dead \cap Of(c) \in SUBSET Blocks
        BY DEF Of, Allocated
      <4>2. live[c] - Cardinality(dead \cap Of(c)) \in Int
        BY <1>1, <4>1, FiniteBlocks, CollectorAssumption DEF DataTypes
      <4> QED BY <4>2, WrappedType
    <3>2. DOMAIN live = {"objects", "arrays"}
      BY <1>1 DEF DataTypes
    <3>3. live' = [c \in DOMAIN live |-> Wrapped(live[c] - Cardinality(dead \cap Of(c)))]
      BY <2>1 DEF Reclaim
    <3> QED BY <3>1, <3>2, <3>3
  <2>6. /\ phase' \in Phases /\ queue' \subseteq Blocks /\ invalid' \in BOOLEAN
        /\ current' \in Blocks \cup {Nil}
    BY <2>1 DEF Reclaim, Return, Phases
  <2> QED BY <1>1, <2>1, <2>2, <2>3, <2>4, <2>5, <2>6 DEF Reclaim, DataTypes
<1> QED BY <1>2, <1>3

LEMMA FinalizeTypes ==
  ASSUME TypeOK, PendingExact, NEW b \in Blocks, FinalizeNext(b)
  PROVE  DataTypes'
<1>1. DataTypes
  BY DEF TypeOK, DataTypes
<1>2. flag' \in [Blocks -> {"none", "pending", "finalized"}] /\ entered' \in [Blocks -> BOOLEAN]
  BY <1>1 DEF FinalizeNext, DataTypes
<1>3. pending' \in Nat
  <2> DEFINE P == {x \in Blocks : flag[x] = "pending"}
  <2>1. pending = Cardinality(P)
    BY DEF PendingExact
  <2>2. b \in P /\ P \in SUBSET Blocks
    BY DEF FinalizeNext
  <2> HIDE DEF P
  <2>3. IsFiniteSet(P) /\ Cardinality(P) # 0
    BY <2>2, FiniteBlocks, FS_EmptySet
  <2>4. Cardinality(P) \in Nat
    BY <2>2, FiniteBlocks
  <2> QED BY <2>1, <2>3, <2>4 DEF FinalizeNext
<1> QED BY <1>1, <1>2, <1>3 DEF FinalizeNext, DataTypes, Phases

LEMMA RetryTypes ==
  ASSUME TypeOK, Retry
  PROVE  DataTypes'
<1>1. DataTypes
  BY DEF TypeOK, DataTypes
<1>2. CASE CollectAgain
  BY <1>2, CollectTypes
<1>3. CASE RetryFails
  BY <1>1, <1>3, UnwindTypes DEF RetryFails, DataTypes, heapVars, gcVars
<1>4. ASSUME NEW b \in Blocks, NEW k \in Types, RetrySucceeds(b, k) PROVE DataTypes'
  <2>1. Place(Owner, b, k) /\ UNCHANGED gcVars /\ wants' = "nothing" /\ Owner \in Tasks
    BY <1>4, CollectorAssumption DEF RetrySucceeds
  <2> QED BY <1>1, <2>1, PlaceTypes DEF DataTypes, gcVars
<1> QED BY <1>2, <1>3, <1>4 DEF Retry

-----------------------------------------------------------------------------
(* The world.                                                              *)

\* A step is one of the world, or leaves the world alone.
LEMMA StepOfWorld ==
  ASSUME Next
  PROVE  \/ UNCHANGED worldVars
         \/ \E t \in Tasks : \/ World!Join(t) \/ World!Leave(t) \/ World!Hold(t)
                             \/ World!Resume(t) \/ World!Grant(t) \/ World!Yield(t)
<1>1. Owner \in Tasks
  BY CollectorAssumption
<1>2. CASE Program
  BY <1>1, <1>2 DEF Program, AddRoot, DropRoot, Link, Unlink, Allocate, AddForeignRoot, Built,
                    Throw, WorkerStep
<1>3. CASE Collect \/ StopFails \/ Marking \/ TraceThrows \/ Verdict
  BY <1>1, <1>3 DEF Collect, StopBegin, StopFails, Marking, MarkRoots, MarkBlock, TraceThrows,
                    Verdict, AuditExit, InvalidExit, AllLiveExit, QueueFinalizers, Sweep, Reclaim
<1>4. CASE OwnerResumes \/ Finalizing \/ FinalizerEnds \/ AuditInFinalizer \/ Retry
  BY <1>1, <1>4 DEF OwnerResumes, Finalizing, FinalizeNext, FinalizersDone, FinalizerEnds,
                    FinalizerReturns, FinalizerThrows, AuditInFinalizer, Retry, CollectAgain,
                    StopBegin, RetrySucceeds, RetryFails
<1> QED BY <1>2, <1>3, <1>4 DEF Next

\* Only MarkBlock stays in the marking phase of a stop; the worker may leave meanwhile.
LEMMA WorldKept ==
  ASSUME TypeOK, WorldInv, Next
  PROVE  World!TypeOK' /\ WorldInv'
<1>1. World!TypeOK' /\ World!Exclusive'
  <2>1. World!TypeOK /\ World!Exclusive
    BY DEF TypeOK, WorldInv
  <2>2. CASE UNCHANGED worldVars
    BY <2>1, <2>2 DEF worldVars, World!TypeOK, World!Exclusive
  <2> QED BY <2>1, <2>2, StepOfWorld, WorldStep
<1>2. phase' = "marking" => stopper' = Owner
  <2>1. CASE Program
    <3>1. \/ phase' = phase /\ UNCHANGED worldVars
          \/ \E t \in Tasks : WorkerStep(t)
      BY <2>1 DEF Program, AddRoot, DropRoot, Link, Unlink, Allocate, AddForeignRoot, Built,
                  Throw, gcVars
    <3>2. ASSUME NEW t \in Tasks, WorkerStep(t) PROVE phase' = phase /\ stopper' = stopper
      BY <3>2 DEF WorkerStep, gcVars, World!Join, World!Leave, World!Hold, World!Resume
    <3> QED BY <3>1, <3>2 DEF WorldInv, worldVars
  <2>2. CASE Collect \/ StopFails \/ Marking \/ TraceThrows \/ Verdict
    BY <2>2 DEF Collect, StopBegin, StopFails, Marking, MarkRoots, MarkBlock, TraceThrows,
                Verdict, AuditExit, InvalidExit, AllLiveExit, QueueFinalizers, Sweep, Reclaim,
                Return, Abort, World!Grant, WorldInv, worldVars
  <2>3. CASE OwnerResumes \/ Finalizing \/ FinalizerEnds \/ AuditInFinalizer \/ Retry
    BY <2>3 DEF OwnerResumes, Finalizing, FinalizeNext, FinalizersDone, FinalizerEnds,
                FinalizerReturns, FinalizerThrows, AuditInFinalizer, Retry, CollectAgain,
                StopBegin, RetrySucceeds, RetryFails, Return, Abort, gcVars, Retrying, LastTry
  <2> QED BY <2>1, <2>2, <2>3 DEF Next
<1> QED BY <1>1, <1>2 DEF WorldInv

LEMMA TypeStep ==
  ASSUME TypeOK, WorldInv, PendingExact, Next
  PROVE  TypeOK'
<1>1. DataTypes'
  BY ProgramTypes, MarkingTypes, CollectTypes, SweepTypes, FinalizeTypes, RetryTypes
     DEF Next, Verdict, Finalizing, FinalizerEnds
<1>2. World!TypeOK'
  BY WorldKept
<1> QED BY <1>1, <1>2 DEF TypeOK, DataTypes

-----------------------------------------------------------------------------
(* The heap stays closed.                                                  *)

\* Nobody runs while marking.
LEMMA NotMarking ==
  ASSUME TypeOK, WorldInv, NEW t \in Tasks, Runs(t)
  PROVE  phase # "marking"
BY CollectorAssumption DEF WorldInv, World!Exclusive, Runs

\* All roots are somebody's.
LEMMA RootsOf ==
  ASSUME TypeOK, NEW t \in Tasks
  PROVE  roots[t] \subseteq AllRoots
BY DEF AllRoots

\* Fewer roots, and the same blocks.
LEMMA FewerRoots ==
  ASSUME HeapClosed, UNCHANGED <<type, refs>>, \A t \in Tasks : roots'[t] \subseteq roots[t],
         IF phase' = "callback" THEN current' \in Allocated ELSE current' = Nil
  PROVE  HeapClosed'
<1>1. Allocated' = Allocated
  BY DEF Allocated
<1>2. AllRoots' \subseteq AllRoots
  BY DEF AllRoots
<1> HIDE DEF Allocated, AllRoots
<1> QED BY <1>1, <1>2 DEF HeapClosed

\* A block is allocated.
LEMMA PlaceHeap ==
  ASSUME TypeOK, HeapClosed, NEW t \in Tasks, NEW b \in Blocks, NEW k \in Types, Place(t, b, k),
         UNCHANGED <<phase, current>>
  PROVE  HeapClosed'
<1>1. k # "free" /\ type[b] = "free"
  BY CollectorAssumption DEF Place, AllTypes
<1>2. Allocated' = Allocated \cup {b}
  BY <1>1 DEF Place, Allocated, TypeOK
<1>3. AllRoots' \subseteq AllRoots \cup {b}
  <2>1. \A u \in Tasks : roots'[u] \subseteq roots[u] \cup {b}
    BY DEF Place, TypeOK
  <2> QED BY <2>1 DEF AllRoots
<1>4. refs' = refs /\ \A x \in Blocks : type'[x] = "free" => type[x] = "free"
  BY <1>1 DEF Place, TypeOK
<1> HIDE DEF Allocated, AllRoots
<1> QED BY <1>2, <1>3, <1>4 DEF HeapClosed

LEMMA ProgramHeap ==
  ASSUME TypeOK, HeapClosed, Program
  PROVE  HeapClosed'
<1>1. ASSUME NEW t \in Tasks, NEW b \in Blocks, AddRoot(t, b) PROVE HeapClosed'
  <2>1. b \in Allocated
    BY <1>1, AccessibleAllocated DEF AddRoot
  <2>2. Allocated' = Allocated /\ UNCHANGED <<type, refs, phase, current>>
    BY <1>1 DEF AddRoot, Allocated, heapVars, gcVars
  <2>3. AllRoots' \subseteq AllRoots \cup {b}
    <3>1. \A u \in Tasks : roots'[u] \subseteq roots[u] \cup {b}
      BY <1>1 DEF AddRoot, TypeOK
    <3> QED BY <3>1 DEF AllRoots
  <2> HIDE DEF Allocated, AllRoots
  <2> QED BY <2>1, <2>2, <2>3 DEF HeapClosed
<1>2. CASE AddForeignRoot
  <2>1. Allocated' = Allocated /\ UNCHANGED <<type, refs, phase, current>>
    BY <1>2 DEF AddForeignRoot, Allocated, heapVars, gcVars
  <2>2. AllRoots' \subseteq AllRoots \cup {Foreign}
    <3>1. \A u \in Tasks : roots'[u] \subseteq roots[u] \cup {Foreign}
      BY <1>2 DEF AddForeignRoot, TypeOK
    <3> QED BY <3>1 DEF AllRoots
  <2> HIDE DEF Allocated, AllRoots
  <2> QED BY <2>1, <2>2 DEF HeapClosed
<1>3. ASSUME NEW t \in Tasks, NEW b, DropRoot(t, b) PROVE HeapClosed'
  <2>1. \A u \in Tasks : roots'[u] \subseteq roots[u]
    BY <1>3 DEF DropRoot, TypeOK
  <2>2. UNCHANGED <<type, refs, phase, current>>
    BY <1>3 DEF DropRoot, heapVars, gcVars
  <2> QED BY <2>1, <2>2, FewerRoots DEF HeapClosed
<1>4. ASSUME NEW t \in Tasks, NEW b \in Blocks, NEW c \in Blocks, Link(t, b, c) \/ Unlink(t, b, c)
      PROVE  HeapClosed'
  <2>1. b \in Allocated
    BY <1>4, AccessibleAllocated DEF Link, Unlink
  <2>2. Link(t, b, c) => c \in Allocated
    BY <1>4, AccessibleAllocated DEF Link
  <2>3. Allocated' = Allocated /\ UNCHANGED <<type, roots, phase, current>>
    BY <1>4 DEF Link, Unlink, Allocated, gcVars
  <2>4. AllRoots' = AllRoots
    BY <2>3 DEF AllRoots
  <2>5. /\ \A x \in Blocks : x # b => refs'[x] = refs[x]
        /\ refs'[b] \subseteq refs[b] \/ (Link(t, b, c) /\ refs'[b] = refs[b] \cup {c})
    BY <1>4 DEF Link, Unlink, TypeOK
  <2>6. type[b] # "free"
    BY <2>1 DEF Allocated
  <2> HIDE DEF Allocated, AllRoots
  <2>7. \A x \in Blocks : refs'[x] \subseteq Allocated'
    BY <2>2, <2>3, <2>5 DEF HeapClosed
  <2>8. \A x \in Blocks : type'[x] = "free" => refs'[x] = {}
    BY <2>3, <2>5, <2>6 DEF HeapClosed
  <2> QED BY <2>3, <2>4, <2>7, <2>8 DEF HeapClosed
<1>5. ASSUME NEW t \in Tasks, NEW b \in Blocks, NEW k \in Types, Allocate(t, b, k)
      PROVE  HeapClosed'
  BY <1>5, PlaceHeap DEF Allocate, gcVars
<1>6. CASE Built
  <2>1. UNCHANGED <<type, refs, roots, phase, current>>
    BY <1>6 DEF Built, gcVars
  <2> QED BY <2>1, FewerRoots DEF HeapClosed
<1>7. CASE Throw
  <2>1. UNCHANGED <<type, refs, phase, current>> /\ Unwind
    BY <1>7 DEF Throw, heapVars, gcVars
  <2> QED BY <2>1, UnwindTypes, FewerRoots DEF HeapClosed
<1>8. ASSUME NEW t \in Tasks, WorkerStep(t) PROVE HeapClosed'
  <2>1. UNCHANGED <<type, refs, roots, phase, current>>
    BY <1>8 DEF WorkerStep, heapVars, gcVars
  <2> QED BY <2>1, FewerRoots DEF HeapClosed
<1>9. Owner \in Tasks
  BY CollectorAssumption
<1> QED BY <1>1, <1>2, <1>3, <1>4, <1>5, <1>6, <1>7, <1>8, <1>9 DEF Program

\* What is not marked when the queue is empty is unreachable: it goes, references and all.
LEMMA SweepHeap ==
  ASSUME TypeOK, HeapClosed, MarkInv, Sweep
  PROVE  HeapClosed'
<1>1. /\ type' = [b \in Blocks |-> IF b \in Unmarked THEN "free" ELSE type[b]]
      /\ refs' = [b \in Blocks |-> IF b \in Unmarked THEN {} ELSE refs[b]]
      /\ roots' = roots /\ phase' = "idle" /\ current' = Nil
  BY DEF Sweep, Reclaim, Return
<1>2. phase = "marking" /\ queue = {}
  BY DEF Sweep, MarkedForSweep, Marked
<1>3. Allocated' = Allocated \ Unmarked /\ Unmarked \subseteq Allocated
  BY <1>1 DEF Allocated, Unmarked
<1>4. \A b \in Blocks : b \in Unmarked <=> b \in Allocated /\ b \notin MarkedBlocks
  BY DEF Unmarked, MarkedBlocks, Allocated
<1>5. /\ AllRoots \cap Blocks \subseteq MarkedBlocks
      /\ \A b \in MarkedBlocks : refs[b] \subseteq MarkedBlocks
  BY <1>2 DEF MarkInv
<1>6. /\ MarkedBlocks \subseteq Blocks /\ Allocated \subseteq Blocks
      /\ \A b \in Blocks : b \notin Allocated => type[b] = "free"
  BY DEF MarkedBlocks, Allocated
<1>7. AllRoots' = AllRoots
  BY <1>1 DEF AllRoots
<1> HIDE DEF Allocated, Unmarked, MarkedBlocks, AllRoots
<1>8. \A b \in Blocks : refs'[b] \subseteq Allocated'
  <2> SUFFICES ASSUME NEW b \in Blocks, b \notin Unmarked PROVE refs[b] \subseteq Allocated'
    BY <1>1
  <2>1. CASE b \in Allocated
    <3>1. refs[b] \subseteq MarkedBlocks /\ refs[b] \subseteq Allocated
      BY <1>4, <1>5, <2>1 DEF HeapClosed
    <3> QED BY <1>3, <1>4, <1>6, <3>1
  <2>2. CASE b \notin Allocated
    BY <1>6, <2>2 DEF HeapClosed
  <2> QED BY <2>1, <2>2
<1>9. \A b \in Blocks : type'[b] = "free" => refs'[b] = {}
  BY <1>1 DEF HeapClosed
<1>10. AllRoots' \subseteq Allocated' \cup {Foreign}
  BY <1>3, <1>4, <1>5, <1>6, <1>7 DEF HeapClosed
<1> QED BY <1>1, <1>8, <1>9, <1>10 DEF HeapClosed

LEMMA HeapStep ==
  ASSUME TypeOK, HeapClosed, MarkInv, FlagInv, Next
  PROVE  HeapClosed'
<1>1. CASE Program
  BY <1>1, ProgramHeap
<1>2. CASE Sweep
  BY <1>2, SweepHeap
<1>3. CASE \/ Collect \/ StopFails \/ Marking \/ AuditExit \/ InvalidExit \/ AllLiveExit
           \/ QueueFinalizers \/ OwnerResumes \/ FinalizersDone \/ FinalizerReturns
           \/ AuditInFinalizer \/ CollectAgain
  <2>1. UNCHANGED <<type, refs, roots>>
    BY <1>3 DEF Collect, CollectAgain, StopBegin, StopFails, Marking, MarkRoots, MarkBlock,
       AuditExit, InvalidExit, AllLiveExit, QueueFinalizers, OwnerResumes, FinalizersDone,
       FinalizerReturns, AuditInFinalizer, heapVars
  <2>2. \/ phase' # "callback" /\ current' = Nil
        \/ phase' # "callback" /\ phase # "callback" /\ current' = current
        \/ phase' = phase /\ current' = current
    BY <1>3 DEF Collect, CollectAgain, StopBegin, StopFails, Marking, MarkRoots, MarkBlock,
       AuditExit, InvalidExit, AllLiveExit, QueueFinalizers, OwnerResumes, FinalizersDone,
       FinalizerReturns, AuditInFinalizer, Return, gcVars, Retrying, MarkedForSweep, Marked
  <2> QED BY <2>1, <2>2, FewerRoots DEF HeapClosed
<1>4. ASSUME NEW b \in Blocks, FinalizeNext(b) PROVE HeapClosed'
  <2>1. b \in Allocated
    BY <1>4 DEF FinalizeNext, FlagInv, PendingExact, Allocated
  <2>2. UNCHANGED <<type, refs, roots>> /\ phase' = "callback" /\ current' = b
    BY <1>4 DEF FinalizeNext
  <2> QED BY <2>1, <2>2, FewerRoots
<1>5. CASE TraceThrows \/ FinalizerThrows
  <2>1. Abort
    BY <1>5 DEF TraceThrows, FinalizerThrows
  <2> QED BY <2>1, AbortTypes, UnwindTypes, FewerRoots
<1>6. CASE RetryFails
  <2>1. UNCHANGED <<type, refs, phase, current>> /\ Unwind
    BY <1>6 DEF RetryFails, heapVars, gcVars
  <2> QED BY <2>1, UnwindTypes, FewerRoots DEF HeapClosed
<1>7. ASSUME NEW b \in Blocks, NEW k \in Types, RetrySucceeds(b, k) PROVE HeapClosed'
  BY <1>7, PlaceHeap, CollectorAssumption DEF RetrySucceeds, gcVars
<1> QED BY <1>1, <1>2, <1>3, <1>4, <1>5, <1>6, <1>7
        DEF Next, Verdict, Finalizing, FinalizerEnds, Retry

-----------------------------------------------------------------------------
(* Marking.                                                                *)

\* Nothing marked, and no marking begun.
LEMMA MarksStay ==
  ASSUME MarkInv, UNCHANGED <<mark, epoch>>, phase' # "marking"
  PROVE  MarkInv'
BY DEF MarkInv

\* A block is allocated, unmarked.
LEMMA PlaceMarks ==
  ASSUME TypeOK, MarkInv, NEW t, NEW b, NEW k, Place(t, b, k), epoch' = epoch,
         phase' # "marking"
  PROVE  MarkInv'
<1>1. \A c \in Blocks : mark'[c] \in {0, mark[c]}
  BY DEF Place, TypeOK
<1>2. epoch \in Nat
  BY CollectorAssumption DEF TypeOK
<1>3. \A c \in Blocks : mark'[c] <= epoch'
  BY <1>1, <1>2 DEF MarkInv
<1> QED BY <1>3 DEF MarkInv

\* No block bears the new epoch before the roots do.
LEMMA MarksAreOld ==
  ASSUME TypeOK, MarkInv
  PROVE  \A b \in Blocks : MarksBefore[b] < NextEpoch
BY CollectorAssumption DEF MarksBefore, NextEpoch, MarkInv, TypeOK

LEMMA MarkRootsMarks ==
  ASSUME TypeOK, HeapClosed, MarkInv, MarkRoots
  PROVE  MarkInv'
<1> DEFINE new == {b \in AllRoots \cap Allocated : MarksBefore[b] # NextEpoch}
<1>1. /\ queue' = new /\ epoch' = NextEpoch
      /\ mark' = [b \in Blocks |-> IF b \in new THEN NextEpoch ELSE MarksBefore[b]]
      /\ UNCHANGED <<refs, roots>>
  BY DEF MarkRoots
<1>2. /\ \A b \in Blocks : MarksBefore[b] \in Nat /\ MarksBefore[b] < NextEpoch
      /\ NextEpoch \in Nat
  BY MarksAreOld, NextEpochTypes, CollectorAssumption
<1>3. new = AllRoots \cap Allocated /\ new \subseteq Blocks
  BY <1>2 DEF Allocated
<1>4. AllRoots \cap Blocks \subseteq new
  BY <1>3, CollectorAssumption DEF HeapClosed
<1> HIDE DEF new, NextEpoch, MarksBefore
<1>5. MarkedBlocks' = new
  BY <1>1, <1>2, <1>3 DEF MarkedBlocks
<1>6. AllRoots' = AllRoots /\ Reach(AllRoots)' = Reach(AllRoots)
  BY <1>1 DEF AllRoots, Reach, Closed
<1>7. new \subseteq Reach(AllRoots)
  BY <1>3, ReachHolds
<1>8. \A b \in Blocks : mark'[b] <= epoch'
  BY <1>1, <1>2, <1>3
<1> QED BY <1>1, <1>4, <1>5, <1>6, <1>7, <1>8 DEF MarkInv

LEMMA MarkBlockMarks ==
  ASSUME TypeOK, HeapClosed, MarkInv, NEW b \in Blocks, MarkBlock(b)
  PROVE  MarkInv'
<1> DEFINE new == {c \in refs[b] \cap Allocated : mark[c] # epoch}
<1>1. /\ phase = "marking" /\ b \in queue
      /\ queue' = (queue \ {b}) \cup new /\ epoch' = epoch
      /\ mark' = [c \in Blocks |-> IF c \in new THEN epoch ELSE mark[c]]
      /\ UNCHANGED <<refs, roots>>
  BY DEF MarkBlock
<1>2. new \subseteq refs[b] /\ new \subseteq Blocks /\ refs[b] \subseteq Blocks
  BY DEF TypeOK
<1>3. refs[b] \subseteq MarkedBlocks \cup new
  BY <1>2 DEF MarkedBlocks, HeapClosed
<1> HIDE DEF new
<1>4. MarkedBlocks' = MarkedBlocks \cup new
  BY <1>1, <1>2 DEF MarkedBlocks
<1>5. AllRoots' = AllRoots /\ Reach(AllRoots)' = Reach(AllRoots)
  BY <1>1 DEF AllRoots, Reach, Closed
<1>6. /\ queue \subseteq MarkedBlocks /\ MarkedBlocks \subseteq Reach(AllRoots)
      /\ AllRoots \cap Blocks \subseteq MarkedBlocks
      /\ \A c \in MarkedBlocks \ queue : refs[c] \subseteq MarkedBlocks
  BY <1>1 DEF MarkInv
<1>7. new \subseteq Reach(AllRoots)
  <2>1. b \in Reach(AllRoots)
    BY <1>1, <1>6
  <2> QED BY <1>2, <2>1, ReachHolds
<1>8. \A c \in MarkedBlocks' \ queue' : refs'[c] \subseteq MarkedBlocks'
  BY <1>1, <1>3, <1>4, <1>6
<1>9. \A c \in Blocks : mark'[c] <= epoch'
  <2>1. epoch \in Int
    BY DEF TypeOK
  <2> QED BY <1>1, <2>1 DEF MarkInv
<1>10. queue' \subseteq MarkedBlocks'
  BY <1>1, <1>4, <1>6
<1> QED BY <1>4, <1>5, <1>6, <1>7, <1>8, <1>9, <1>10 DEF MarkInv

LEMMA ProgramMarks ==
  ASSUME TypeOK, WorldInv, MarkInv, Program
  PROVE  MarkInv'
<1>1. Owner \in Tasks
  BY CollectorAssumption
<1>2. ASSUME NEW t \in Tasks, Runs(t), UNCHANGED <<mark, epoch, phase>> PROVE MarkInv'
  BY <1>2, NotMarking, MarksStay
<1>3. ASSUME NEW t \in Tasks, NEW b, AddRoot(t, b) \/ DropRoot(t, b) PROVE MarkInv'
  BY <1>2, <1>3 DEF AddRoot, DropRoot, heapVars, gcVars
<1>4. ASSUME NEW t \in Tasks, NEW b, NEW c, Link(t, b, c) \/ Unlink(t, b, c) PROVE MarkInv'
  BY <1>2, <1>4 DEF Link, Unlink, gcVars
<1>5. ASSUME NEW t \in Tasks, NEW b \in Blocks, NEW k \in Types, Allocate(t, b, k) PROVE MarkInv'
  BY <1>5, NotMarking, PlaceMarks DEF Allocate, gcVars
<1>6. CASE AddForeignRoot \/ Built \/ Throw
  BY <1>1, <1>2, <1>6 DEF AddForeignRoot, Built, Throw, heapVars, gcVars
<1>7. ASSUME NEW t \in Tasks, WorkerStep(t) PROVE MarkInv'
  <2>1. UNCHANGED <<type, refs, roots, mark, epoch, phase, queue>>
    BY <1>7 DEF WorkerStep, heapVars, gcVars
  <2>2. /\ AllRoots' = AllRoots /\ Reach(AllRoots)' = Reach(AllRoots)
        /\ MarkedBlocks' = MarkedBlocks
    BY <2>1 DEF AllRoots, Reach, Closed, MarkedBlocks
  <2> QED BY <2>1, <2>2 DEF MarkInv
<1> QED BY <1>1, <1>3, <1>4, <1>5, <1>6, <1>7 DEF Program

LEMMA SweepMarks ==
  ASSUME TypeOK, MarkInv, Sweep
  PROVE  MarkInv'
<1>1. /\ mark' = [b \in Blocks |-> IF b \in Unmarked THEN 0 ELSE mark[b]]
      /\ epoch' = epoch /\ phase' = "idle"
  BY DEF Sweep, Reclaim, Return
<1>2. epoch \in Nat
  BY CollectorAssumption DEF TypeOK
<1>3. \A b \in Blocks : mark'[b] <= epoch'
  BY <1>1, <1>2 DEF MarkInv
<1> QED BY <1>1, <1>3 DEF MarkInv

\* An audit in a finalizer marks as a collection does, all at once.
LEMMA AuditMarks ==
  ASSUME TypeOK, MarkInv, AuditInFinalizer
  PROVE  MarkInv'
<1>1. /\ epoch' = NextEpoch /\ phase' = "callback"
      /\ mark' = [b \in Blocks |-> IF b \in Reach(AllRoots) THEN NextEpoch ELSE MarksBefore[b]]
  BY DEF AuditInFinalizer
<1>2. /\ \A b \in Blocks : MarksBefore[b] \in Nat /\ MarksBefore[b] < NextEpoch
      /\ NextEpoch \in Nat
  BY MarksAreOld, NextEpochTypes, CollectorAssumption
<1> HIDE DEF NextEpoch, MarksBefore
<1>3. \A b \in Blocks : mark'[b] <= epoch'
  BY <1>1, <1>2
<1> QED BY <1>1, <1>3 DEF MarkInv

LEMMA MarkStep ==
  ASSUME TypeOK, WorldInv, HeapClosed, MarkInv, Next
  PROVE  MarkInv'
<1>1. CASE Program
  BY <1>1, ProgramMarks
<1>2. CASE Marking
  BY <1>2, MarkRootsMarks, MarkBlockMarks DEF Marking
<1>3. CASE Sweep \/ AuditInFinalizer
  BY <1>3, SweepMarks, AuditMarks
<1>4. CASE \/ Collect \/ StopFails \/ TraceThrows \/ AuditExit \/ InvalidExit \/ AllLiveExit
           \/ QueueFinalizers \/ OwnerResumes \/ Finalizing \/ FinalizerEnds
           \/ CollectAgain \/ RetryFails
  <2>1. UNCHANGED <<mark, epoch>> /\ phase' # "marking"
    BY <1>4 DEF Collect, CollectAgain, StopBegin, StopFails, TraceThrows, AuditExit,
       InvalidExit, AllLiveExit, QueueFinalizers, OwnerResumes, Finalizing, FinalizeNext,
       FinalizersDone, FinalizerEnds, FinalizerReturns, FinalizerThrows, RetryFails, Abort,
       Return, heapVars, gcVars, Retrying, LastTry
  <2> QED BY <2>1, MarksStay
<1>5. ASSUME NEW b \in Blocks, NEW k \in Types, RetrySucceeds(b, k) PROVE MarkInv'
  BY <1>5, PlaceMarks DEF RetrySucceeds, LastTry, Retrying, gcVars
<1> QED BY <1>1, <1>2, <1>3, <1>4, <1>5 DEF Next, Verdict, Retry

-----------------------------------------------------------------------------
(* Finalizer flags.                                                        *)

\* The flags stay, and so do the blocks they are of.
LEMMA FlagsStay ==
  ASSUME TypeOK, FlagInv, UNCHANGED <<flag, entered, pending>>,
         \A b \in Blocks : type[b] # "free" => type'[b] = type[b],
         phase' = phase \/ phase' = "finalizing"
           \/ phase \notin {"finalizing", "callback"}
           \/ \A b \in Blocks : flag[b] # "pending"
  PROVE  FlagInv'
<1>1. Pending' = Pending
  BY DEF Pending
<1>2. PendingExact'
  BY <1>1 DEF FlagInv, PendingExact, Pending
<1> QED BY <1>2 DEF FlagInv

LEMMA PlaceFlags ==
  ASSUME TypeOK, FlagInv, NEW t, NEW b \in Blocks, NEW k, Place(t, b, k),
         UNCHANGED <<pending, phase>>
  PROVE  FlagInv'
<1>1. /\ type[b] = "free"
      /\ flag' = [flag EXCEPT ![b] = "none"] /\ entered' = [entered EXCEPT ![b] = FALSE]
      /\ type' = [type EXCEPT ![b] = k]
  BY DEF Place
<1>2. flag[b] # "pending"
  BY <1>1 DEF FlagInv, PendingExact
<1>3. Pending' = Pending
  BY <1>1, <1>2 DEF Pending, TypeOK
<1>4. \A c \in Pending : c # b /\ type'[c] = type[c] /\ entered'[c] = entered[c]
  BY <1>1, <1>2 DEF Pending, TypeOK
<1>5. PendingExact'
  BY <1>3, <1>4 DEF FlagInv, PendingExact, Pending
<1>6. \A c \in Blocks : entered'[c] <=> flag'[c] = "finalized"
  BY <1>1 DEF FlagInv, TypeOK
<1> QED BY <1>5, <1>6 DEF FlagInv

\* The finalizers that are due are queued, when no others are.
LEMMA QueueFlags ==
  ASSUME TypeOK, FlagInv, QueueFinalizers
  PROVE  FlagInv'
<1>1. /\ flag' = [b \in Blocks |-> IF b \in ToFinalize THEN "pending" ELSE flag[b]]
      /\ pending' = Cardinality(ToFinalize) /\ phase' = "finalizing" /\ phase = "marking"
      /\ UNCHANGED <<type, entered>>
  BY DEF QueueFinalizers, MarkedForSweep, Marked
<1>2. \A b \in Blocks : flag[b] # "pending"
  BY <1>1 DEF FlagInv, PendingExact
<1>3. /\ ToFinalize \subseteq Blocks
      /\ \A b \in ToFinalize : type[b] = "finalizable" /\ flag[b] # "finalized"
  BY DEF ToFinalize, Unmarked, Allocated
<1> HIDE DEF ToFinalize
<1>4. Pending' = ToFinalize
  BY <1>1, <1>2, <1>3 DEF Pending
<1>5. PendingExact'
  BY <1>1, <1>3, <1>4 DEF FlagInv, PendingExact, Pending
<1>6. \A b \in Blocks : entered'[b] <=> flag'[b] = "finalized"
  BY <1>1, <1>3 DEF FlagInv
<1> QED BY <1>5, <1>6 DEF FlagInv

LEMMA FinalizeFlags ==
  ASSUME TypeOK, FlagInv, NEW b \in Blocks, FinalizeNext(b)
  PROVE  FlagInv'
<1>1. /\ flag[b] = "pending" /\ flag' = [flag EXCEPT ![b] = "finalized"]
      /\ pending' = pending - 1 /\ entered' = [entered EXCEPT ![b] = TRUE]
      /\ phase' = "callback" /\ type' = type
  BY DEF FinalizeNext
<1>2. Pending' = Pending \ {b} /\ b \in Pending /\ Pending \in SUBSET Blocks
  BY <1>1 DEF Pending, TypeOK
<1>3. pending' = Cardinality(Pending')
  <2>1. pending = Cardinality(Pending)
    BY DEF FlagInv, PendingExact, Pending
  <2>2. IsFiniteSet(Pending)
    BY <1>2, FiniteBlocks
  <2>3. Cardinality(Pending \ {b}) = Cardinality(Pending) - 1
    BY <1>2, <2>2, FS_RemoveElement
  <2> QED BY <1>1, <1>2, <2>1, <2>3
<1>4. \A c \in Pending' : type'[c] = "finalizable" /\ ~entered'[c]
  <2>1. \A c \in Pending' : c # b /\ entered'[c] = entered[c]
    BY <1>1, <1>2 DEF TypeOK
  <2> QED BY <1>1, <1>2, <2>1 DEF FlagInv, PendingExact, Pending
<1>5. PendingExact'
  BY <1>1, <1>3, <1>4 DEF PendingExact, Pending
<1>6. \A c \in Blocks : entered'[c] <=> flag'[c] = "finalized"
  BY <1>1 DEF FlagInv, TypeOK
<1> QED BY <1>5, <1>6 DEF FlagInv

\* abort_collection takes the finalizers that have not run out of the queue.
LEMMA AbortFlags ==
  ASSUME TypeOK, FlagInv, Abort
  PROVE  FlagInv'
<1>1. /\ flag' = [b \in Blocks |-> IF flag[b] = "pending" THEN "none" ELSE flag[b]]
      /\ pending' = 0 /\ UNCHANGED <<type, entered>>
  BY DEF Abort
<1>2. Pending' = {}
  BY <1>1 DEF Pending
<1>3. PendingExact'
  BY <1>1, <1>2, FS_EmptySet DEF PendingExact, Pending
<1>4. \A c \in Blocks : entered'[c] <=> flag'[c] = "finalized"
  BY <1>1 DEF FlagInv
<1> QED BY <1>3, <1>4 DEF FlagInv

LEMMA SweepFlags ==
  ASSUME TypeOK, FlagInv, Sweep
  PROVE  FlagInv'
<1>1. /\ flag' = [b \in Blocks |-> IF b \in Unmarked THEN "none" ELSE flag[b]]
      /\ entered' = [b \in Blocks |-> b \notin Unmarked /\ entered[b]]
      /\ pending' = pending /\ phase = "marking"
  BY DEF Sweep, Reclaim, MarkedForSweep, Marked
<1>2. \A b \in Blocks : flag[b] # "pending"
  BY <1>1 DEF FlagInv, PendingExact
<1>3. Pending = {} /\ Pending' = {}
  BY <1>1, <1>2 DEF Pending
<1>4. PendingExact'
  BY <1>1, <1>3 DEF FlagInv, PendingExact, Pending
<1>5. \A c \in Blocks : entered'[c] <=> flag'[c] = "finalized"
  BY <1>1 DEF FlagInv
<1> QED BY <1>4, <1>5 DEF FlagInv

LEMMA ProgramFlags ==
  ASSUME TypeOK, FlagInv, Program
  PROVE  FlagInv'
<1>1. ASSUME NEW t \in Tasks, NEW b \in Blocks, NEW k \in Types, Allocate(t, b, k) PROVE FlagInv'
  BY <1>1, PlaceFlags DEF Allocate, gcVars
<1>2. ASSUME UNCHANGED <<flag, entered, pending, type, phase>> PROVE FlagInv'
  BY <1>2, FlagsStay
<1>3. ASSUME NEW t, NEW b, AddRoot(t, b) \/ DropRoot(t, b) PROVE FlagInv'
  BY <1>2, <1>3 DEF AddRoot, DropRoot, heapVars, gcVars
<1>4. ASSUME NEW t, NEW b, NEW c, Link(t, b, c) \/ Unlink(t, b, c) PROVE FlagInv'
  BY <1>2, <1>4 DEF Link, Unlink, gcVars
<1>5. CASE AddForeignRoot \/ Built \/ Throw
  BY <1>2, <1>5 DEF AddForeignRoot, Built, Throw, heapVars, gcVars
<1>6. ASSUME NEW t, WorkerStep(t) PROVE FlagInv'
  BY <1>2, <1>6 DEF WorkerStep, heapVars, gcVars
<1> QED BY <1>1, <1>3, <1>4, <1>5, <1>6 DEF Program

LEMMA FlagStep ==
  ASSUME TypeOK, FlagInv, Next
  PROVE  FlagInv'
<1>1. CASE Program
  BY <1>1, ProgramFlags
<1>2. CASE QueueFinalizers \/ Sweep \/ TraceThrows \/ FinalizerThrows
  BY <1>2, QueueFlags, SweepFlags, AbortFlags DEF TraceThrows, FinalizerThrows
<1>3. ASSUME NEW b \in Blocks, FinalizeNext(b) PROVE FlagInv'
  BY <1>3, FinalizeFlags
<1>4. CASE MarkRoots
  <2>1. phase \notin {"finalizing", "callback"} /\ UNCHANGED <<flag, entered, type>>
    BY <1>4 DEF MarkRoots
  <2>2. \A b \in Blocks : flag[b] # "pending"
    BY <2>1 DEF FlagInv, PendingExact
  <2>3. pending = 0
    <3>1. {b \in Blocks : flag[b] = "pending"} = {}
      BY <2>2
    <3> QED BY <3>1, FS_EmptySet DEF FlagInv, PendingExact
  <2>4. pending' = pending
    BY <1>4, <2>3 DEF MarkRoots
  <2> QED BY <2>1, <2>4, FlagsStay
<1>5. CASE \/ Collect \/ StopFails \/ (\E b \in Blocks : MarkBlock(b)) \/ AuditExit
           \/ InvalidExit \/ AllLiveExit \/ OwnerResumes \/ FinalizersDone
           \/ FinalizerReturns \/ AuditInFinalizer \/ CollectAgain \/ RetryFails
  <2>1. /\ UNCHANGED <<flag, entered, pending, type>>
        /\ phase' = phase \/ phase' = "finalizing" \/ phase \notin {"finalizing", "callback"}
             \/ \A b \in Blocks : flag[b] # "pending"
    BY <1>5 DEF Collect, CollectAgain, StopBegin, StopFails, MarkBlock, AuditExit, InvalidExit,
       AllLiveExit, OwnerResumes, FinalizersDone, FinalizerReturns, AuditInFinalizer,
       RetryFails, Return, heapVars, gcVars, Retrying, LastTry, MarkedForSweep, Marked
  <2> QED BY <2>1, FlagsStay
<1>6. ASSUME NEW b \in Blocks, NEW k \in Types, RetrySucceeds(b, k) PROVE FlagInv'
  BY <1>6, PlaceFlags DEF RetrySucceeds, gcVars
<1> QED BY <1>1, <1>2, <1>3, <1>4, <1>5, <1>6
        DEF Next, Marking, Verdict, Finalizing, FinalizerEnds, Retry

-----------------------------------------------------------------------------
(* The invariant is inductive.                                             *)

LEMMA InitHolds ==
  Init => CInv
<1> SUFFICES ASSUME Init PROVE CInv
  OBVIOUS
<1>1. /\ Owner \in Tasks /\ EpochMax \in Nat /\ CountMax \in Nat
      /\ "free" \notin Types
  BY CollectorAssumption DEF AllTypes
<1>2. World!TypeOK
  BY <1>1 DEF Init, World!TypeOK
<1>3. DataTypes
  <2>1. /\ mark \in [Blocks -> 0 .. EpochMax]
        /\ live \in [{"objects", "arrays"} -> 0 .. CountMax]
        /\ epoch \in 0 .. EpochMax /\ pending \in Nat
    BY <1>1 DEF Init
  <2>2. /\ flag \in [Blocks -> {"none", "pending", "finalized"}]
        /\ entered \in [Blocks -> BOOLEAN]
        /\ type \in [Blocks -> Types \cup {"free"}]
        /\ refs \in [Blocks -> SUBSET Blocks]
        /\ roots \in [Tasks -> SUBSET (Blocks \cup {Foreign})]
    BY DEF Init
  <2> QED BY <2>1, <2>2 DEF Init, DataTypes, Phases
<1>4. TypeOK
  BY <1>2, <1>3 DEF TypeOK, DataTypes
<1>5. WorldInv
  BY DEF Init, WorldInv, World!Exclusive
<1>6. HeapClosed
  BY DEF Init, HeapClosed, AllRoots
<1>7. MarkInv
  BY DEF Init, MarkInv
<1>8. FlagInv
  <2>1. {b \in Blocks : flag[b] = "pending"} = {}
    BY DEF Init
  <2>2. PendingExact
    BY <2>1, FS_EmptySet DEF Init, PendingExact
  <2> QED BY <2>2 DEF Init, FlagInv
<1> QED BY <1>4, <1>5, <1>6, <1>7, <1>8 DEF CInv

LEMMA StutterKeeps ==
  ASSUME CInv, UNCHANGED vars
  PROVE  CInv'
<1>1. /\ UNCHANGED <<mode, stopper, type, refs, flag, mark, live, entered>>
      /\ UNCHANGED <<epoch, phase, queue, invalid, pending, finalized, current>>
      /\ UNCHANGED <<roots, wants, building>>
  BY DEF vars, worldVars, heapVars, gcVars
<1>2. World!TypeOK' /\ World!Exclusive'
  BY <1>1 DEF CInv, TypeOK, WorldInv, World!TypeOK, World!Exclusive
<1>3. TypeOK'
  BY <1>1, <1>2 DEF CInv, TypeOK
<1>4. WorldInv'
  BY <1>1, <1>2 DEF CInv, WorldInv
<1>5. HeapClosed'
  BY <1>1 DEF CInv, HeapClosed, Allocated, AllRoots
<1>6. MarkInv'
  <2>1. /\ MarkedBlocks' = MarkedBlocks /\ AllRoots' = AllRoots
        /\ Reach(AllRoots)' = Reach(AllRoots)
    BY <1>1 DEF MarkedBlocks, AllRoots, Reach, Closed
  <2> QED BY <1>1, <2>1 DEF CInv, MarkInv
<1>7. FlagInv'
  BY <1>1 DEF CInv, FlagInv, PendingExact
<1> QED BY <1>3, <1>4, <1>5, <1>6, <1>7 DEF CInv

(* Every reachable state satisfies the inductive invariant.                *)
THEOREM CollectorInductive == Spec => []CInv
<1>1. CInv /\ Next => CInv'
  <2> SUFFICES ASSUME CInv, Next PROVE CInv'
    OBVIOUS
  <2>1. TypeOK /\ WorldInv /\ HeapClosed /\ MarkInv /\ FlagInv /\ PendingExact
    BY DEF CInv, FlagInv
  <2> QED BY <2>1, TypeStep, WorldKept, HeapStep, MarkStep, FlagStep DEF CInv
<1> QED BY InitHolds, <1>1, StutterKeeps, PTL DEF Spec

-----------------------------------------------------------------------------
(* What the collector promises.                                            *)

LEMMA MarkedAreReachable ==
  ASSUME CInv, Marked
  PROVE  /\ MarkedBlocks = Reach(AllRoots)
         /\ Reach(AllRoots) \subseteq Allocated
<1>1. TypeOK /\ HeapClosed /\ MarkInv
  BY DEF CInv
<1>2. /\ MarkedBlocks \subseteq Reach(AllRoots)
      /\ AllRoots \cap Blocks \subseteq MarkedBlocks
      /\ \A b \in MarkedBlocks : refs[b] \subseteq MarkedBlocks
  BY <1>1 DEF MarkInv, Marked
<1>3. MarkedBlocks \in SUBSET Blocks
  BY DEF MarkedBlocks
<1>4. AllRoots \cap Blocks \subseteq Allocated
  BY <1>1, CollectorAssumption DEF HeapClosed
<1> HIDE DEF MarkedBlocks, AllRoots, Allocated
<1>5. Reach(AllRoots) \subseteq MarkedBlocks
  BY <1>2, <1>3, ReachLeast
<1>6. Reach(AllRoots) \subseteq Allocated
  BY <1>1, <1>4, ReachAllocated
<1> QED BY <1>2, <1>5, <1>6

(* When the queue is empty the marked blocks are exactly the reachable     *)
(* ones (bmx_embedded_collect_objects, embedded_runtime.c:1991-2090).      *)
THEOREM MarkingIsExact == Spec => []MarkExact
<1>1. CInv => MarkExact
  <2> SUFFICES ASSUME CInv, Marked
               PROVE  MarkedBlocks = Reach(AllRoots) \cap Allocated
    BY DEF MarkExact, MarkedBlocks
  <2> QED BY MarkedAreReachable
<1> QED BY <1>1, CollectorInductive, PTL

\* Only the sweep takes a block back, and only an unmarked one.
LEMMA OnlySweepReclaims ==
  ASSUME TypeOK, Next, NEW b \in Blocks, type[b] # "free", type'[b] # type[b]
  PROVE  Sweep /\ b \in Unmarked
<1>1. ASSUME NEW t, NEW c, NEW k, Place(t, c, k) PROVE FALSE
  BY <1>1 DEF Place, TypeOK
<1>2. CASE UNCHANGED type
  BY <1>2
<1>3. CASE Program
  BY <1>1, <1>2, <1>3 DEF Program, AddRoot, DropRoot, Link, Unlink, Allocate, AddForeignRoot,
     Built, Throw, WorkerStep, heapVars
<1>4. CASE Sweep
  BY <1>4 DEF Sweep, Reclaim
<1>5. CASE Retry
  BY <1>1, <1>2, <1>5 DEF Retry, CollectAgain, StopBegin, RetrySucceeds, RetryFails, heapVars
<1>6. CASE \/ Collect \/ StopFails \/ Marking \/ TraceThrows \/ AuditExit \/ InvalidExit
           \/ AllLiveExit \/ QueueFinalizers \/ OwnerResumes \/ Finalizing \/ FinalizerEnds
           \/ AuditInFinalizer
  BY <1>2, <1>6 DEF Collect, StopBegin, StopFails, Marking, MarkRoots, MarkBlock, TraceThrows,
     AuditExit, InvalidExit, AllLiveExit, QueueFinalizers, OwnerResumes, Finalizing,
     FinalizeNext, FinalizersDone, FinalizerEnds, FinalizerReturns, FinalizerThrows,
     AuditInFinalizer, Abort, heapVars
<1> QED BY <1>3, <1>4, <1>5, <1>6 DEF Next, Verdict

(* No step reclaims a block that is reachable (embedded_runtime.c:         *)
(* 2216-2400).                                                             *)
THEOREM LiveBlocksStay == Spec => NoLiveReclaimed
<1> DEFINE Keeps == \A b \in Reach(AllRoots) : type[b] # "free" => type'[b] = type[b]
<1>1. ASSUME CInv, Next PROVE Keeps
  <2> SUFFICES ASSUME NEW b \in Reach(AllRoots), type[b] # "free", type'[b] # type[b]
               PROVE  FALSE
    OBVIOUS
  <2>1. b \in Blocks
    BY DEF Reach
  <2>2. TypeOK
    BY <1>1 DEF CInv
  <2>3. Sweep /\ b \in Unmarked
    BY <1>1, <2>1, <2>2, OnlySweepReclaims
  <2>4. Marked /\ b \notin MarkedBlocks
    BY <2>3 DEF Sweep, MarkedForSweep, Unmarked, MarkedBlocks
  <2> QED BY <1>1, <2>4, MarkedAreReachable
<1>2. ASSUME UNCHANGED vars PROVE Keeps
  BY <1>2 DEF vars, heapVars
<1>3. CInv /\ [Next]_vars => [Keeps]_vars
  BY <1>1, <1>2
<1> QED BY <1>3, CollectorInductive, PTL DEF Spec, NoLiveReclaimed

\* An object is made current only when its finalizer is called.
LEMMA OnlyFinalizeNextMakesCurrent ==
  ASSUME Next
  PROVE  current' \in {current, Nil} \/ \E b \in Blocks : FinalizeNext(b)
<1>1. CASE Program
  BY <1>1 DEF Program, AddRoot, DropRoot, Link, Unlink, Allocate, AddForeignRoot, Built, Throw,
     WorkerStep, gcVars
<1>2. CASE Collect \/ StopFails \/ Marking \/ TraceThrows \/ Verdict
  BY <1>2 DEF Collect, StopBegin, StopFails, Marking, MarkRoots, MarkBlock, TraceThrows, Verdict,
     AuditExit, InvalidExit, AllLiveExit, QueueFinalizers, Sweep, Reclaim, Return, Abort
<1>3. CASE OwnerResumes \/ Finalizing \/ FinalizerEnds \/ AuditInFinalizer \/ Retry
  BY <1>3 DEF OwnerResumes, Finalizing, FinalizersDone, FinalizerEnds, FinalizerReturns,
     FinalizerThrows, AuditInFinalizer, Retry, CollectAgain, StopBegin, RetrySucceeds,
     RetryFails, Return, Abort, gcVars
<1> QED BY <1>1, <1>2, <1>3 DEF Next

(* A finalizable object is reclaimed only after its finalizer has been     *)
(* entered, and the finalizer is entered at most once (embedded_runtime.c: *)
(* 2262-2330).                                                             *)
THEOREM FinalizersComeOnceAndFirst == Spec => FinalizedOnceBeforeReclaimed
<1> DEFINE Once(b) == /\ type[b] = "finalizable" /\ type'[b] = "free" => entered[b]
                      /\ phase = "finalizing" /\ current' = b => ~entered[b]
<1>1. ASSUME CInv, Next, NEW b \in Blocks PROVE Once(b)
  <2>1. TypeOK /\ HeapClosed /\ FlagInv /\ b # Nil
    BY <1>1, CollectorAssumption DEF CInv
  <2>2. ASSUME type[b] = "finalizable", type'[b] = "free" PROVE entered[b]
    <3>1. Sweep /\ b \in Unmarked
      BY <1>1, <2>1, <2>2, OnlySweepReclaims
    <3>2. b \notin ToFinalize
      BY <3>1 DEF Sweep
    <3>3. flag[b] = "finalized"
      BY <2>2, <3>1, <3>2 DEF ToFinalize
    <3> QED BY <2>1, <3>3 DEF FlagInv
  <2>3. ASSUME phase = "finalizing", current' = b PROVE ~entered[b]
    <3>1. current = Nil
      BY <2>1, <2>3 DEF HeapClosed
    <3>2. PICK c \in Blocks : FinalizeNext(c)
      BY <1>1, <2>1, <2>3, <3>1, OnlyFinalizeNextMakesCurrent
    <3>3. flag[b] = "pending"
      BY <2>3, <3>2 DEF FinalizeNext
    <3> QED BY <2>1, <3>3 DEF FlagInv
  <2> QED BY <2>2, <2>3
<1>2. ASSUME CInv, UNCHANGED vars, NEW b \in Blocks PROVE Once(b)
  <2>1. type'[b] = type[b] /\ current' = current /\ b # Nil
    BY <1>2, CollectorAssumption DEF vars, heapVars, gcVars
  <2> QED BY <1>2, <2>1 DEF CInv, HeapClosed
<1>3. CInv /\ [Next]_vars => [\A b \in Blocks : Once(b)]_vars
  BY <1>1, <1>2
<1> QED BY <1>3, CollectorInductive, PTL DEF Spec, FinalizedOnceBeforeReclaimed

-----------------------------------------------------------------------------
(* The books of a multicore build, whose heap has room for no more blocks  *)
(* than its counters can count: bmx_embedded_arena_offset is a uint32_t,   *)
(* as the counters are, and every block takes a header of the arena        *)
(* (embedded_runtime.c:740-745).                                           *)

Countable == Multicore /\ Cardinality(Blocks) <= CountMax

LEMMA WrappedIsIdentity ==
  ASSUME NEW n \in 0 .. CountMax
  PROVE  Wrapped(n) = n
BY CollectorAssumption DEF Wrapped

LEMMA BlocksCount ==
  ASSUME Countable, NEW S \in SUBSET Blocks
  PROVE  IsFiniteSet(S) /\ Cardinality(S) \in 0 .. CountMax
<1>1. /\ IsFiniteSet(S) /\ Cardinality(S) \in Nat
      /\ Cardinality(Blocks) \in Nat /\ IsFiniteSet(Blocks)
  BY FiniteBlocks
<1>2. Cardinality(S) <= Cardinality(Blocks)
  BY <1>1, FS_Subset
<1>3. CountMax \in Nat
  BY CollectorAssumption
<1> QED BY <1>1, <1>2, <1>3 DEF Countable

LEMMA OfBlocks ==
  ASSUME NEW c
  PROVE  Of(c) \in SUBSET Blocks
BY DEF Of, Allocated

\* An allocation is counted when it is made.
LEMMA PlaceCounts ==
  ASSUME Countable, TypeOK, CountInv, NEW t, NEW b \in Blocks, NEW k \in Types, Place(t, b, k)
  PROVE  CountInv'
<1>1. k # "free" /\ ~StartsBuilding(k)
  BY CollectorAssumption DEF AllTypes, StartsBuilding, Countable
<1>2. /\ type[b] = "free" /\ type' = [type EXCEPT ![b] = k]
      /\ building' = Nil /\ live' = [live EXCEPT ![Counter(k)] = Wrapped(@ + 1)]
  BY <1>1 DEF Place, CountInv
<1>3. /\ Of(Counter(k))' = Of(Counter(k)) \cup {b} /\ b \notin Of(Counter(k))
      /\ \A c \in {"objects", "arrays"} : c # Counter(k) => Of(c)' = Of(c)
  BY <1>1, <1>2 DEF Of, Allocated, TypeOK
<1>4. /\ DOMAIN live = {"objects", "arrays"} /\ DOMAIN live' = {"objects", "arrays"}
      /\ Counter(k) \in {"objects", "arrays"}
      /\ \A c \in DOMAIN live : live[c] = Cardinality(Of(c))
      /\ \A c \in DOMAIN live : c # Counter(k) => live'[c] = live[c]
      /\ live'[Counter(k)] = Wrapped(live[Counter(k)] + 1)
  BY <1>2 DEF TypeOK, Counter, CountInv, LiveCountsExact
<1> HIDE DEF Of, Wrapped, Counter
<1>5. Cardinality(Of(Counter(k)) \cup {b}) = Cardinality(Of(Counter(k))) + 1
  BY <1>3, OfBlocks, BlocksCount, FS_AddElement
<1>6. Of(Counter(k)) \cup {b} \in SUBSET Blocks
  BY OfBlocks
<1>7. Cardinality(Of(Counter(k))) + 1 \in 0 .. CountMax
  BY <1>5, <1>6, BlocksCount
<1>8. live'[Counter(k)] = Cardinality(Of(Counter(k))')
  BY <1>3, <1>4, <1>5, <1>7, WrappedIsIdentity
<1>9. \A c \in DOMAIN live' : live'[c] = Cardinality(Of(c)')
  BY <1>3, <1>4, <1>8
<1> QED BY <1>2, <1>9 DEF CountInv, LiveCountsExact

\* The sweep takes off what it reclaims.
LEMMA SweepCounts ==
  ASSUME Countable, TypeOK, CountInv, Sweep
  PROVE  CountInv'
<1>1. /\ type' = [b \in Blocks |-> IF b \in Unmarked THEN "free" ELSE type[b]]
      /\ live' = [c \in DOMAIN live |-> Wrapped(live[c] - Cardinality(Unmarked \cap Of(c)))]
      /\ building' = building
  BY DEF Sweep, Reclaim
<1>2. ASSUME NEW c PROVE Of(c)' = Of(c) \ Unmarked
  BY <1>1, CollectorAssumption DEF Of, Allocated, Unmarked
<1> HIDE DEF Of, Wrapped, Unmarked
<1>3. ASSUME NEW c \in DOMAIN live PROVE live'[c] = Cardinality(Of(c)')
  <2>1. IsFiniteSet(Of(c)) /\ Of(c) \ Unmarked \in SUBSET Blocks
    BY OfBlocks, BlocksCount
  <2>2. Cardinality(Of(c) \ Unmarked) = Cardinality(Of(c)) - Cardinality(Of(c) \cap Unmarked)
    BY <2>1, FS_Difference
  <2>3. Cardinality(Of(c) \ Unmarked) \in 0 .. CountMax
    BY <2>1, BlocksCount
  <2>4. Of(c) \cap Unmarked = Unmarked \cap Of(c) /\ live[c] = Cardinality(Of(c))
    BY <1>3 DEF CountInv, LiveCountsExact
  <2>5. live'[c] = Wrapped(Cardinality(Of(c) \ Unmarked))
    BY <1>1, <1>3, <2>2, <2>4
  <2> QED BY <1>2, <2>3, <2>5, WrappedIsIdentity
<1>4. DOMAIN live' = DOMAIN live
  BY <1>1
<1> QED BY <1>1, <1>3, <1>4 DEF CountInv, LiveCountsExact

\* Nothing else touches the counters or the types.
LEMMA CountsStay ==
  ASSUME CountInv, UNCHANGED <<type, live>>, building' \in {building, Nil}
  PROVE  CountInv'
BY DEF CountInv, LiveCountsExact, Of, Allocated

LEMMA CountStep ==
  ASSUME Countable, TypeOK, CountInv, Next
  PROVE  CountInv'
<1>1. building = Nil
  BY DEF CountInv
<1>2. CASE Sweep
  BY <1>2, SweepCounts
<1>3. ASSUME NEW t \in Tasks, NEW b \in Blocks, NEW k \in Types,
             Allocate(t, b, k) \/ RetrySucceeds(b, k)
      PROVE  CountInv'
  BY <1>3, PlaceCounts DEF Allocate, RetrySucceeds
<1>4. ASSUME NEW t, NEW b, AddRoot(t, b) \/ DropRoot(t, b) PROVE CountInv'
  BY <1>4, CountsStay DEF AddRoot, DropRoot, heapVars
<1>5. ASSUME NEW t, NEW b, NEW c, Link(t, b, c) \/ Unlink(t, b, c) PROVE CountInv'
  BY <1>5, CountsStay DEF Link, Unlink
<1>6. ASSUME NEW t, WorkerStep(t) PROVE CountInv'
  BY <1>6, CountsStay DEF WorkerStep, heapVars
<1>7. CASE AddForeignRoot \/ Built \/ Throw \/ RetryFails
  BY <1>1, <1>7, CountsStay DEF AddForeignRoot, Built, Throw, RetryFails, Unwind, heapVars
<1>8. CASE \/ Collect \/ StopFails \/ Marking \/ AuditExit \/ InvalidExit \/ AllLiveExit
           \/ QueueFinalizers \/ OwnerResumes \/ Finalizing \/ FinalizerReturns
           \/ AuditInFinalizer \/ CollectAgain
  <2>1. UNCHANGED <<type, live, building>>
    BY <1>8 DEF Collect, CollectAgain, StopBegin, StopFails, Marking, MarkRoots, MarkBlock,
       AuditExit, InvalidExit, AllLiveExit, QueueFinalizers, OwnerResumes, Finalizing,
       FinalizeNext, FinalizersDone, FinalizerReturns, AuditInFinalizer, heapVars
  <2> QED BY <2>1, CountsStay
<1>9. CASE TraceThrows \/ FinalizerThrows
  BY <1>9, CountsStay DEF TraceThrows, FinalizerThrows, Abort, Unwind
<1> QED BY <1>2, <1>3, <1>4, <1>5, <1>6, <1>7, <1>8, <1>9, CollectorAssumption
        DEF Next, Program, Verdict, FinalizerEnds, Retry

THEOREM CountsInductive ==
  ASSUME Countable
  PROVE  Spec => []CountInv
<1>1. Init => CountInv
  <2> SUFFICES ASSUME Init PROVE CountInv
    OBVIOUS
  <2>1. \A c : Of(c) = {}
    BY DEF Init, Of, Allocated
  <2> QED BY <2>1, FS_EmptySet DEF Init, CountInv, LiveCountsExact
<1>2. CInv /\ CountInv /\ [Next]_vars => CountInv'
  <2> SUFFICES ASSUME CInv, CountInv, [Next]_vars PROVE CountInv'
    OBVIOUS
  <2>1. CASE Next
    BY <2>1, CountStep DEF CInv
  <2>2. CASE UNCHANGED vars
    BY <2>2, CountsStay DEF vars, heapVars
  <2> QED BY <2>1, <2>2
<1> QED BY <1>1, <1>2, CollectorInductive, PTL DEF Spec

(* A multicore build counts its live objects and arrays exactly, and its   *)
(* pending finalizers, whenever anyone can look                            *)
(* (MULTICORE_GC_DESIGN.md:114; embedded_runtime.c:2262-2400).             *)
THEOREM BooksAreInOrder ==
  ASSUME Countable
  PROVE  Spec => []Bookkeeping
<1>1. CInv /\ CountInv => Bookkeeping
  BY DEF CInv, CountInv, FlagInv, Bookkeeping
<1> QED BY <1>1, CollectorInductive, CountsInductive, PTL

(* The early return of a multicore build's collection, when the counters   *)
(* say that nothing is unreachable, leaves no garbage behind: in contrast  *)
(* to a single-core build's, where an array under construction is not yet  *)
(* counted (embedded_runtime.c:2257-2258).                                 *)
THEOREM EarlyReturnIsRight ==
  ASSUME Countable
  PROVE  Spec => []AllLiveMeansNoGarbage
<1>1. CInv /\ CountInv => AllLiveMeansNoGarbage
  <2> SUFFICES ASSUME CInv, CountInv, Marked, AllLive PROVE Allocated = Reach(AllRoots)
    BY DEF AllLiveMeansNoGarbage
  <2>1. MarkedBlocks = Reach(AllRoots) /\ Reach(AllRoots) \subseteq Allocated
    BY MarkedAreReachable
  <2>2. ASSUME NEW c \in {"objects", "arrays"} PROVE Of(c) \cap Unmarked = {}
    <3> DEFINE dead == Of(c) \cap Unmarked
    <3>1. /\ live[c] = Cardinality(Of(c))
          /\ Wrapped(live[c] - Cardinality(Of(c) \ Unmarked)) = 0
      BY DEF AllLive, Unreachable, CountInv, LiveCountsExact, CInv, TypeOK
    <3> HIDE DEF Wrapped, Of, Unmarked
    <3>2. /\ IsFiniteSet(Of(c)) /\ Cardinality(Of(c)) \in 0 .. CountMax
          /\ IsFiniteSet(dead) /\ Cardinality(dead) \in 0 .. CountMax
      BY OfBlocks, BlocksCount
    <3>3. Cardinality(Of(c) \ Unmarked) = Cardinality(Of(c)) - Cardinality(dead)
      BY <3>2, FS_Difference
    <3>4. live[c] - Cardinality(Of(c) \ Unmarked) = Cardinality(dead)
      BY <3>1, <3>2, <3>3
    <3>5. Cardinality(dead) = 0
      BY <3>1, <3>2, <3>4, WrappedIsIdentity
    <3> QED BY <3>2, <3>5, FS_EmptySet
  <2>3. \A b \in Allocated : b \in Of("objects") \/ b \in Of("arrays")
    BY DEF Of, Counter
  <2>4. \A b \in Allocated : b \notin Unmarked
    BY <2>2, <2>3
  <2>5. Allocated \subseteq MarkedBlocks
    BY <2>4 DEF Unmarked, MarkedBlocks, Allocated
  <2> QED BY <2>1, <2>5
<1> QED BY <1>1, CollectorInductive, CountsInductive, PTL
=============================================================================
