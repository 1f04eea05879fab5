---------------------------- MODULE GCHandshake -----------------------------
(***************************************************************************)
(* The stop-the-world handshake of                                         *)
(* runtime.mod/native/embedded_gc_handshake.c, step by step.               *)
(*                                                                         *)
(* Every atomic load or store that another task may observe without the    *)
(* registry lock is a step of its own: the three loads and three stores of *)
(* a poll, the two loads per slot of bmx_gc_all_stopped, the stores of     *)
(* collector and request in stop_begin and stop_end.  A critical section   *)
(* with a single such access is one step, enabled when the lock is free.   *)
(* Calls that are refused and change nothing are stuttering steps, and a   *)
(* local variable goes back to 0 when its call returns.                    *)
(***************************************************************************)
EXTENDS Integers

CONSTANTS Tasks,       \* tasks a target may bind to slots
          NoTask,      \* the registry lock is free
          NoSlot,      \* a task that is not registered
          Capacity,    \* BMX_EMBEDDED_GC_HANDSHAKE_CAPACITY (2)
          EpochMax,    \* largest epoch, UINT_MAX in the code
          Budgets,     \* wait budgets callers pass to stop_begin
          Unbounded    \* a budget no wait exhausts

ASSUME HandshakeAssumption ==
    /\ Capacity \in Nat \ {0}
    /\ EpochMax \in Nat \ {0}
    /\ Budgets \subseteq Nat \cup {Unbounded}
    /\ Unbounded \notin Nat
    /\ NoTask \notin Tasks

Slots == 0 .. Capacity - 1

ASSUME NoSlotAssumption == NoSlot \notin Slots

VARIABLES
    lock,         \* registry_lock: its holder or NoTask
    epoch,        \* the last epoch handed out
    request,      \* request_epoch, 0 when no stop is requested
    collector,    \* collector_slot_plus_one
    state,        \* state[s]
    ack,          \* acknowledgement[s]
    pc,           \* pc[t]: where task t is
    slot,         \* slot[t]: the slot register returned to t
    seen,         \* the local variable "epoch" of poll and of stop_begin
    cursor,       \* the loop variable of bmx_gc_all_stopped
    budget        \* wait_budget

vars == <<lock, epoch, request, collector, state, ack,
          pc, slot, seen, cursor, budget>>

States == {"EMPTY", "RUNNING", "PARKED", "NATIVE_SAFE"}

PollPcs == {"pollCollector", "pollState", "pollPark", "pollAck",
            "parked", "waking"}
\* stop_begin and stop_end while the request is published
ActivePcs == {"scan", "scanAck", "relock", "recheck", "recheckAck",
              "waiting", "stopped", "pollStopped"}
\* ... and the two critical sections around it
StopPcs == ActivePcs \cup {"publishing", "releasing"}
LockPcs == {"publishing", "recheck", "recheckAck", "releasing"}
Pcs == {"out", "managed", "native", "leaving"} \cup PollPcs \cup StopPcs

TypeOK ==
    /\ lock \in Tasks \cup {NoTask}
    /\ epoch \in 0 .. EpochMax
    /\ request \in 0 .. EpochMax
    /\ collector \in 0 .. Capacity
    /\ state \in [Slots -> States]
    /\ ack \in [Slots -> 0 .. EpochMax]
    /\ pc \in [Tasks -> Pcs]
    /\ slot \in [Tasks -> Slots \cup {NoSlot}]
    /\ seen \in [Tasks -> 0 .. EpochMax]
    /\ cursor \in [Tasks -> 0 .. Capacity]
    /\ budget \in [Tasks -> Nat \cup {Unbounded}]

Init ==
    /\ lock = NoTask
    /\ epoch = 0 /\ request = 0 /\ collector = 0
    /\ state = [s \in Slots |-> "EMPTY"]
    /\ ack = [s \in Slots |-> 0]
    /\ pc = [t \in Tasks |-> "out"]
    /\ slot = [t \in Tasks |-> NoSlot]
    /\ seen = [t \in Tasks |-> 0]
    /\ cursor = [t \in Tasks |-> 0]
    /\ budget = [t \in Tasks |-> 0]

Goto(t, from, to) == pc[t] = from /\ pc' = [pc EXCEPT ![t] = to]
SetState(t, st) == state' = [state EXCEPT ![slot[t]] = st]
LockFree == lock = NoTask

-----------------------------------------------------------------------------
(* Registry: critical sections that read request and one state.            *)

FirstEmpty(s) == /\ state[s] = "EMPTY"
                 /\ \A r \in 0 .. s - 1 : state[r] # "EMPTY"

Register(t) ==
    /\ Goto(t, "out", "managed")
    /\ LockFree
    /\ request = 0
    /\ \E s \in Slots :
          /\ FirstEmpty(s)
          /\ ack' = [ack EXCEPT ![s] = 0]
          /\ state' = [state EXCEPT ![s] = "RUNNING"]
          /\ slot' = [slot EXCEPT ![t] = s]
    /\ UNCHANGED <<lock, epoch, request, collector, seen, cursor, budget>>

\* Mutant: unregister does not look for a pending request.
UnregisterDuringStop(t) ==
    /\ Goto(t, "managed", "out")
    /\ LockFree
    /\ state[slot[t]] = "RUNNING"
    /\ SetState(t, "EMPTY")
    /\ slot' = [slot EXCEPT ![t] = NoSlot]
    /\ UNCHANGED <<lock, epoch, request, collector, ack, seen, cursor, budget>>

Unregister(t) ==
    /\ Goto(t, "managed", "out")
    /\ LockFree
    /\ request = 0
    /\ state[slot[t]] = "RUNNING"
    /\ SetState(t, "EMPTY")
    /\ slot' = [slot EXCEPT ![t] = NoSlot]
    /\ UNCHANGED <<lock, epoch, request, collector, ack, seen, cursor, budget>>

\* Allowed while a stop is requested: that is how a blocked task lets it pass.
EnterNativeSafe(t) ==
    /\ Goto(t, "managed", "native")
    /\ LockFree
    /\ state[slot[t]] = "RUNNING"
    /\ SetState(t, "NATIVE_SAFE")
    /\ UNCHANGED <<lock, epoch, request, collector, ack, slot, seen, cursor, budget>>

\* The native call returned; leave_native_safe loops until no stop is requested.
LeaveNativeSafe(t) ==
    /\ Goto(t, "native", "leaving")
    /\ UNCHANGED <<lock, epoch, request, collector, state, ack, slot, seen, cursor, budget>>

\* Mutant: leave_native_safe does not wait.
ReenterAtOnce(t) ==
    /\ Goto(t, "leaving", "managed")
    /\ LockFree
    /\ SetState(t, "RUNNING")
    /\ UNCHANGED <<lock, epoch, request, collector, ack, slot, seen, cursor, budget>>

ReenterManaged(t) ==
    /\ Goto(t, "leaving", "managed")
    /\ LockFree
    /\ request = 0
    /\ SetState(t, IF state[slot[t]] = "NATIVE_SAFE" THEN "RUNNING" ELSE state[slot[t]])
    /\ UNCHANGED <<lock, epoch, request, collector, ack, slot, seen, cursor, budget>>

-----------------------------------------------------------------------------
(* bmx_embedded_gc_task_poll: no lock.  A managed task polls at safepoints; *)
(* the call is harmless in native-safe code and in the collector itself.    *)

PollRequest(t) ==
    /\ \/ Goto(t, "managed", "pollCollector")
       \/ Goto(t, "native", "pollCollector")
       \/ Goto(t, "stopped", "pollStopped")
    /\ request # 0
    /\ seen' = [seen EXCEPT ![t] = request]
    /\ UNCHANGED <<lock, epoch, request, collector, state, ack, slot, cursor, budget>>

\* Mutant: the collector answers its own request.
PollIgnoringCollector(t) ==
    /\ pc[t] \in {"pollCollector", "pollStopped"}
    /\ pc' = [pc EXCEPT ![t] = "pollState"]
    /\ UNCHANGED <<lock, epoch, request, collector, state, ack, slot, seen, cursor, budget>>

PollCollector(t) ==
    /\ pc[t] \in {"pollCollector", "pollStopped"}
    /\ pc' = [pc EXCEPT ![t] = IF collector = slot[t] + 1 THEN "stopped" ELSE "pollState"]
    /\ UNCHANGED <<lock, epoch, request, collector, state, ack, slot, seen, cursor, budget>>

PollState(t) ==
    /\ \/ /\ Goto(t, "pollState", "pollPark")
          /\ state[slot[t]] = "RUNNING"
          /\ UNCHANGED seen
       \/ /\ Goto(t, "pollState", "native")
          /\ state[slot[t]] # "RUNNING"
          /\ seen' = [seen EXCEPT ![t] = 0]
    /\ UNCHANGED <<lock, epoch, request, collector, state, ack, slot, cursor, budget>>

PollPark(t) ==
    /\ Goto(t, "pollPark", "pollAck")
    /\ SetState(t, "PARKED")
    /\ UNCHANGED <<lock, epoch, request, collector, ack, slot, seen, cursor, budget>>

PollAck(t) ==
    /\ Goto(t, "pollAck", "parked")
    /\ ack' = [ack EXCEPT ![slot[t]] = seen[t]]
    /\ UNCHANGED <<lock, epoch, request, collector, state, slot, seen, cursor, budget>>

\* Mutants: the poll waits once instead of looping, or waits for request = 0.
PollWakeOnce(t) ==
    /\ Goto(t, "parked", "waking")
    /\ UNCHANGED <<lock, epoch, request, collector, state, ack, slot, seen, cursor, budget>>

PollWakeOnIdle(t) ==
    /\ Goto(t, "parked", "waking")
    /\ request = 0
    /\ UNCHANGED <<lock, epoch, request, collector, state, ack, slot, seen, cursor, budget>>

\* The spin on request_epoch ends, whatever ended the stop it answered.
PollWake(t) ==
    /\ Goto(t, "parked", "waking")
    /\ request # seen[t]
    /\ UNCHANGED <<lock, epoch, request, collector, state, ack, slot, seen, cursor, budget>>

PollResume(t) ==
    /\ Goto(t, "waking", "managed")
    /\ SetState(t, "RUNNING")
    /\ seen' = [seen EXCEPT ![t] = 0]
    /\ UNCHANGED <<lock, epoch, request, collector, ack, slot, cursor, budget>>

-----------------------------------------------------------------------------
(* bmx_embedded_gc_stop_begin                                              *)

\* Mutant: the increment forgets to wrap.
NextEpochUnwrapped(e) == e + 1

\* The counter is an unsigned int: it wraps past 0, which means "no request".
NextEpoch(e) == IF e = EpochMax THEN 1 ELSE e + 1

(* The environment bound this protocol rests on: when the counter wraps,   *)
(* no task still holds the epoch about to be reused, in its poll or in its *)
(* slot's acknowledgement.  A slot would have to sit out 2^32 - 1 stops.   *)
EpochFresh(e) ==
    /\ \A t \in Tasks : pc[t] \in PollPcs => seen[t] # e
    /\ \A s \in Slots : state[s] # "EMPTY" => ack[s] # e

StopPublish(t) ==
    /\ Goto(t, "managed", "publishing")
    /\ LockFree
    /\ request = 0
    /\ state[slot[t]] = "RUNNING"
    /\ EpochFresh(NextEpoch(epoch))
    /\ epoch' = NextEpoch(epoch)
    /\ seen' = [seen EXCEPT ![t] = NextEpoch(epoch)]
    /\ collector' = slot[t] + 1
    /\ lock' = t
    /\ \E b \in Budgets : budget' = [budget EXCEPT ![t] = b]
    /\ UNCHANGED <<request, state, ack, slot, cursor>>

StopRequest(t) ==
    /\ Goto(t, "publishing", "scan")
    /\ request' = seen[t]
    /\ lock' = NoTask
    /\ cursor' = [cursor EXCEPT ![t] = 0]
    /\ UNCHANGED <<epoch, collector, state, ack, slot, seen, budget>>

\* bmx_gc_all_stopped, first without the lock and then again under it.
Advance(t) == cursor' = [cursor EXCEPT ![t] = @ + 1]

\* Mutant: a native-safe slot is not counted as stopped.
PassesEmptyOnly(t, s) == s = slot[t] \/ state[s] = "EMPTY"

Passes(t, s) == s = slot[t] \/ state[s] \in {"EMPTY", "NATIVE_SAFE"}

ScanPass(t) ==
    /\ pc[t] \in {"scan", "recheck"}
    /\ cursor[t] < Capacity
    /\ Passes(t, cursor[t])
    /\ Advance(t)
    /\ UNCHANGED <<lock, epoch, request, collector, state, ack, pc, slot, seen, budget>>

ScanParked(t) ==
    /\ \/ Goto(t, "scan", "scanAck")
       \/ Goto(t, "recheck", "recheckAck")
    /\ cursor[t] < Capacity
    /\ ~Passes(t, cursor[t])
    /\ state[cursor[t]] = "PARKED"
    /\ UNCHANGED <<lock, epoch, request, collector, state, ack, slot, seen, cursor, budget>>

\* Mutant: any acknowledgement counts.
ScanAnyAcknowledgement(t) ==
    /\ \/ Goto(t, "scanAck", "scan")
       \/ Goto(t, "recheckAck", "recheck")
    /\ Advance(t)
    /\ UNCHANGED <<lock, epoch, request, collector, state, ack, slot, seen, budget>>

ScanAcknowledged(t) ==
    /\ \/ Goto(t, "scanAck", "scan")
       \/ Goto(t, "recheckAck", "recheck")
    /\ ack[cursor[t]] = seen[t]
    /\ Advance(t)
    /\ UNCHANGED <<lock, epoch, request, collector, state, ack, slot, seen, budget>>

\* A slot that still runs, or that parked for an earlier request.
ScanFails(t) ==
    \/ /\ pc[t] \in {"scan", "recheck"}
       /\ cursor[t] < Capacity
       /\ ~Passes(t, cursor[t])
       /\ state[cursor[t]] # "PARKED"
    \/ /\ pc[t] \in {"scanAck", "recheckAck"}
       /\ ack[cursor[t]] # seen[t]

ScanRefused(t) ==
    /\ ScanFails(t)
    /\ pc' = [pc EXCEPT ![t] = "waiting"]
    /\ lock' = IF lock = t THEN NoTask ELSE lock
    /\ UNCHANGED <<epoch, request, collector, state, ack, slot, seen, cursor, budget>>

ScanDone(t) ==
    /\ Goto(t, "scan", "relock")
    /\ cursor[t] = Capacity
    /\ UNCHANGED <<lock, epoch, request, collector, state, ack, slot, seen, cursor, budget>>

Recheck(t) ==
    /\ Goto(t, "relock", "recheck")
    /\ LockFree
    /\ lock' = t
    /\ cursor' = [cursor EXCEPT ![t] = 0]
    /\ UNCHANGED <<epoch, request, collector, state, ack, slot, seen, budget>>

WorldStopped(t) ==
    /\ Goto(t, "recheck", "stopped")
    /\ cursor[t] = Capacity
    /\ lock' = NoTask
    /\ UNCHANGED <<epoch, request, collector, state, ack, slot, seen, cursor, budget>>

StopWait(t) ==
    /\ Goto(t, "waiting", "scan")
    /\ budget[t] # 0
    /\ budget' = [budget EXCEPT ![t] = IF @ = Unbounded THEN @ ELSE @ - 1]
    /\ cursor' = [cursor EXCEPT ![t] = 0]
    /\ UNCHANGED <<lock, epoch, request, collector, state, ack, slot, seen>>

\* The budget is spent: the request is withdrawn and stop_begin returns 0.
StopTimeout(t) ==
    /\ Goto(t, "waiting", "releasing")
    /\ budget[t] = 0
    /\ LockFree
    /\ lock' = t
    /\ request' = 0
    /\ UNCHANGED <<epoch, collector, state, ack, slot, seen, cursor, budget>>

\* bmx_embedded_gc_stop_end
StopEnd(t) ==
    /\ Goto(t, "stopped", "releasing")
    /\ LockFree
    /\ collector = slot[t] + 1
    /\ lock' = t
    /\ request' = 0
    /\ UNCHANGED <<epoch, collector, state, ack, slot, seen, cursor, budget>>

StopReleased(t) ==
    /\ Goto(t, "releasing", "managed")
    /\ collector' = 0
    /\ lock' = NoTask
    /\ seen' = [seen EXCEPT ![t] = 0]
    /\ cursor' = [cursor EXCEPT ![t] = 0]
    /\ budget' = [budget EXCEPT ![t] = 0]
    /\ UNCHANGED <<epoch, request, state, ack, slot>>

-----------------------------------------------------------------------------
Poll(t) == \/ PollRequest(t) \/ PollCollector(t) \/ PollState(t)
           \/ PollPark(t) \/ PollAck(t) \/ PollWake(t) \/ PollResume(t)

Scan(t) == \/ ScanPass(t) \/ ScanParked(t) \/ ScanAcknowledged(t)
           \/ ScanRefused(t) \/ ScanDone(t) \/ Recheck(t)

Stop(t) == \/ StopPublish(t) \/ StopRequest(t) \/ Scan(t) \/ WorldStopped(t)
           \/ StopWait(t) \/ StopTimeout(t) \/ StopEnd(t) \/ StopReleased(t)

Step(t) == \/ Register(t) \/ Unregister(t)
           \/ EnterNativeSafe(t) \/ LeaveNativeSafe(t) \/ ReenterManaged(t)
           \/ Poll(t)
           \/ Stop(t)

Next == \E t \in Tasks : Step(t)

Spec == Init /\ [][Next]_vars

(* A task inside a handshake call keeps executing it; managed code reaches *)
(* a safepoint again and again (the compiler polls at loop back edges);    *)
(* the collector finishes its collection.  Nobody is obliged to register,  *)
(* to stop the world or to leave.  The registry lock is a test-and-set     *)
(* spin lock: strong fairness says that a task spinning on a lock that is  *)
(* free again and again takes it at last.                                  *)
TaskFairness(t) ==
    /\ WF_vars(Poll(t))
    /\ WF_vars(StopRequest(t))
    /\ WF_vars(ScanPass(t) \/ ScanParked(t) \/ ScanAcknowledged(t)
                 \/ ScanRefused(t) \/ ScanDone(t))
    /\ SF_vars(Recheck(t))
    /\ WF_vars(WorldStopped(t))
    /\ WF_vars(StopWait(t))
    /\ SF_vars(StopTimeout(t))
    /\ SF_vars(StopEnd(t))
    /\ WF_vars(StopReleased(t))
    /\ SF_vars(ReenterManaged(t))

FairSpec == Spec /\ \A t \in Tasks : TaskFairness(t)

-----------------------------------------------------------------------------
(* Properties                                                              *)

(* stop_begin returned 1 and stop_end has not begun.                       *)
HoldsWorld(t) == pc[t] \in {"stopped", "pollStopped"}

(* While one task holds the world no other task executes managed code, nor *)
(* sits in a handshake call from which it would return to it without       *)
(* seeing the stop end (MULTICORE_GC_DESIGN.md, invariant 1).              *)
NoMutatorWhileStopped ==
    \A c, t \in Tasks :
        HoldsWorld(c) /\ t # c
            => pc[t] \in {"out", "native", "leaving", "pollCollector",
                          "pollState", "parked"}

(* An acknowledgement equal to the current request means that its task is  *)
(* spinning in the poll that gave it: a stale acknowledgement never counts.*)
AckMeansParked ==
    \A t \in Tasks :
        slot[t] # NoSlot /\ request # 0 /\ ack[slot[t]] = request
            => pc[t] = "parked" /\ seen[t] = request

(* One stop at a time, and the request and collector words that the other  *)
(* tasks read name it from publication to release.                         *)
OneCollector ==
    \A c \in Tasks :
        pc[c] \in StopPcs =>
            /\ collector = slot[c] + 1
            /\ request = IF pc[c] \in ActivePcs THEN seen[c] ELSE 0
            /\ \A t \in Tasks \ {c} : pc[t] \notin StopPcs

(* While a request is up no slot is taken or given up, and neither does a  *)
(* slot become RUNNING nor a task enter managed code, except one that is   *)
(* only now leaving the poll in which it answered an earlier request       *)
(* (embedded_gc_handshake.c:130-131, "neither may enter managed            *)
(* execution", and the tests of request_epoch at :30 and :60).             *)
NoEntryDuringRequest ==
    [][request # 0 =>
          /\ \A s \in Slots :
                /\ (state'[s] = "EMPTY") = (state[s] = "EMPTY")
                /\ state'[s] = "RUNNING" /\ state[s] # "RUNNING"
                      => state[s] = "PARKED" /\ ack[s] # request
          /\ \A t \in Tasks :
                pc'[t] = "managed" /\ pc[t] # "managed"
                    => pc[t] = "waking" /\ ack[slot[t]] # request]_vars

(* Every stop either succeeds or is withdrawn, and every successful one    *)
(* ends: the world never stays stopped.                                    *)
EveryStopEnds == \A t \in Tasks : pc[t] \in StopPcs ~> pc[t] = "managed"

(* A parked task always returns to managed code, even when stops follow    *)
(* each other so closely that it never sees request = 0.                   *)
ParkedTaskResumes == \A t \in Tasks : pc[t] = "parked" ~> pc[t] = "managed"

(* leave_native_safe returns once no further stop is requested.  Under     *)
(* back-to-back stops it may wait for ever: its loop wants request = 0 at  *)
(* the moment it holds the lock.                                           *)
LeaveReturns ==
    <>[](request = 0) => \A t \in Tasks : pc[t] = "leaving" ~> pc[t] = "managed"

(* Whoever waits for a stop to end gets out: from the poll in any case,    *)
(* from leave_native_safe when the stops cease                             *)
(* (embedded_gc_handshake.c:76 and :97).                                   *)
WaitingTasksResume == ParkedTaskResumes /\ LeaveReturns

(* With a budget no wait exhausts, the rendezvous always succeeds: every   *)
(* managed task reaches a safepoint and native-safe tasks do not count.    *)
RendezvousSucceeds ==
    \A t \in Tasks : pc[t] = "scan" /\ budget[t] = Unbounded ~> HoldsWorld(t)

-----------------------------------------------------------------------------
(* Refinement of StopTheWorld                                              *)

ModeOf(p) == IF p = "out" THEN "out" ELSE IF p = "managed" THEN "run" ELSE "held"

stopperBar == IF \E t \in Tasks : HoldsWorld(t)
                THEN CHOOSE t \in Tasks : HoldsWorld(t)
                ELSE NoTask

World == INSTANCE StopTheWorld
            WITH mode <- [t \in Tasks |-> ModeOf(pc[t])],
                 stopper <- stopperBar

(* The handshake implements the abstract stop-the-world.                   *)
ImplementsStopTheWorld == World!Spec
=============================================================================
