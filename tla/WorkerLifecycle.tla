-------------------------- MODULE WorkerLifecycle ---------------------------
(***************************************************************************)
(* The one managed worker of a multicore build, composed with the          *)
(* handshake it registers in: bmx_embedded_gc_worker_start_function,       *)
(* _worker_start, _worker_trampoline and _worker_join of                   *)
(* runtime.mod/native/embedded_runtime.c, with the owner collecting at any *)
(* moment in between.                                                      *)
(*                                                                         *)
(* Every step is a step of GCHandshake by the owner or the worker, a step  *)
(* of the lifecycle, or both at once.  The target's task creation and join *)
(* (BMX_EMBEDDED_PLATFORM_GC_WORKER_START/JOIN) are external: creation may *)
(* fail, and a join succeeds once the task's entry function has returned.  *)
(***************************************************************************)
EXTENDS GCHandshake

CONSTANTS Owner, Worker,   \* the two tasks
          AttemptBudget,   \* BMX_EMBEDDED_GC_WAIT_BUDGET of the exit loop
          MaxStops         \* bound on the collections of a run

ASSUME LifecycleAssumption ==
    /\ Owner # Worker /\ Tasks = {Owner, Worker} /\ Capacity = 2
    /\ AttemptBudget \in Nat
    /\ MaxStops \in 1 .. EpochMax

VARIABLES
    wstate,     \* bmx_embedded_worker_state
    thread,     \* where the worker's native task is
    starting,   \* the owner is between the CAS and the task creation
    failed,     \* the trampoline's "failed": an exception reached its boundary
    ran,        \* history: the job was entered and has ended
    attempt,    \* the exit loop's counter
    stopsSeen,  \* history: stops that were over when the job ended
    result      \* what the last successful JoinManagedWorker returned

lifeVars == <<wstate, thread, starting, failed, ran, attempt, stopsSeen, result>>
allVars == <<vars, lifeVars>>

WStates == {"IDLE", "STARTING", "RUNNING", "DONE", "FAILED"}
ExitThreads == {"exiting", "exitPoll", "exitPolled"}
Threads == {"none", "boot", "registered", "job", "unregistered",
            "returning", "ended", "panic"} \cup ExitThreads

LifeTypeOK ==
    /\ TypeOK
    /\ wstate \in WStates
    /\ thread \in Threads
    /\ starting \in BOOLEAN /\ failed \in BOOLEAN /\ ran \in BOOLEAN
    /\ attempt \in 0 .. AttemptBudget
    /\ stopsSeen \in 0 .. MaxStops
    /\ result \in {-1, 0, 1}

LifeInit ==
    /\ Init
    /\ wstate = "IDLE" /\ thread = "none" /\ starting = FALSE
    /\ failed = FALSE /\ ran = FALSE
    /\ attempt = 0 /\ stopsSeen = 0 /\ result = 0

-----------------------------------------------------------------------------
(* The owner                                                               *)

\* start_function registers the owner the first time it is called.
OwnerRegister == /\ Register(Owner)
                 /\ UNCHANGED lifeVars

OwnerCollects ==
    /\ epoch < MaxStops \/ pc[Owner] # "managed"
    /\ Stop(Owner)
    /\ UNCHANGED lifeVars

\* Mutant: start does not ask whether the owner is registered.
StartUnregistered ==
    /\ pc[Owner] \in {"out", "managed"} /\ ~starting
    /\ wstate = "IDLE"
    /\ wstate' = "STARTING" /\ starting' = TRUE
    /\ UNCHANGED <<vars, thread, failed, ran, attempt, stopsSeen, result>>

Start ==
    /\ pc[Owner] = "managed" /\ ~starting
    /\ state[0] = "RUNNING"
    /\ wstate = "IDLE"
    /\ wstate' = "STARTING" /\ starting' = TRUE
    /\ UNCHANGED <<vars, thread, failed, ran, attempt, stopsSeen, result>>

TaskCreated ==
    /\ starting
    /\ starting' = FALSE
    /\ thread' = "boot"
    /\ failed' = FALSE /\ ran' = FALSE /\ attempt' = 0 /\ result' = 0
    /\ UNCHANGED <<vars, wstate, stopsSeen>>

TaskNotCreated ==
    /\ starting
    /\ starting' = FALSE
    /\ wstate' = "IDLE"
    /\ UNCHANGED <<vars, thread, failed, ran, attempt, stopsSeen, result>>

\* Mutant: join trusts the state word and does not wait for the task to end.
JoinByState ==
    /\ pc[Owner] = "managed" /\ ~starting
    /\ wstate \in {"DONE", "FAILED"}
    /\ wstate' = "IDLE"
    /\ thread' = IF thread = "ended" THEN "none" ELSE thread
    /\ result' = IF wstate = "DONE" THEN 1 ELSE -1
    /\ UNCHANGED <<vars, starting, failed, ran, attempt, stopsSeen>>

\* A join that finds the worker still running changes nothing and returns 0.
Join ==
    /\ pc[Owner] = "managed" /\ ~starting
    /\ wstate \in {"DONE", "FAILED"}
    /\ thread = "ended"
    /\ thread' = "none"
    /\ wstate' = "IDLE"
    /\ result' = IF wstate = "DONE" THEN 1 ELSE -1
    /\ UNCHANGED <<vars, starting, failed, ran, attempt, stopsSeen>>

-----------------------------------------------------------------------------
(* The worker: bmx_embedded_gc_worker_trampoline                           *)

Thread(from, to) == thread = from /\ thread' = to

WorkerRegister ==
    /\ Thread("boot", "registered")
    /\ Register(Worker)
    /\ UNCHANGED <<wstate, starting, failed, ran, attempt, stopsSeen, result>>

\* Registration is refused under the lock while a stop is requested, when no slot is
\* free, and when the target's bind hook fails, which is the target's to choose: no
\* state rules a refusal out.
RefusedCondition == LockFree

\* Mutants: a refused registration is reported as a completed job, or not at all.
WorkerRefusedDone ==
    /\ Thread("boot", "returning")
    /\ RefusedCondition
    /\ wstate' = "DONE"
    /\ UNCHANGED <<vars, starting, failed, ran, attempt, stopsSeen, result>>

WorkerRefusedSilently ==
    /\ Thread("boot", "returning")
    /\ RefusedCondition
    /\ UNCHANGED <<vars, wstate, starting, failed, ran, attempt, stopsSeen, result>>

WorkerRefused ==
    /\ Thread("boot", "returning")
    /\ RefusedCondition
    /\ wstate' = "FAILED"
    /\ UNCHANGED <<vars, starting, failed, ran, attempt, stopsSeen, result>>

\* A slot other than 1 would be reported as a failure and stay registered.
EnterJob ==
    /\ thread = "registered"
    /\ thread' = IF slot[Worker] = 1 THEN "job" ELSE "returning"
    /\ wstate' = IF slot[Worker] = 1 THEN "RUNNING" ELSE "FAILED"
    /\ UNCHANGED <<vars, starting, failed, ran, attempt, stopsSeen, result>>

\* The job polls, and may block in native-safe calls.
JobStep ==
    /\ thread = "job"
    /\ \/ Poll(Worker) \/ EnterNativeSafe(Worker)
       \/ LeaveNativeSafe(Worker) \/ ReenterManaged(Worker)
    /\ UNCHANGED lifeVars

\* Of the epoch stops begun so far, those whose request is over.
StopsOver == IF request # 0 \/ pc[Owner] = "publishing" THEN epoch - 1 ELSE epoch

\* The entry returns, or an exception unwinds to the trampoline's boundary.
JobEnds ==
    /\ Thread("job", "exiting")
    /\ pc[Worker] = "managed"
    /\ failed' \in BOOLEAN
    /\ ran' = TRUE
    /\ stopsSeen' = StopsOver
    /\ UNCHANGED <<vars, wstate, starting, attempt, result>>

WorkerUnregister ==
    /\ Thread("exiting", "unregistered")
    /\ Unregister(Worker)
    /\ UNCHANGED <<wstate, starting, failed, ran, attempt, stopsSeen, result>>

UnregisterRefused == pc[Worker] = "managed" /\ LockFree /\ request # 0

\* Mutant: the loop retries without parking.
ExitRetryAtOnce ==
    /\ thread = "exiting" /\ UnregisterRefused
    /\ thread' = IF attempt = AttemptBudget THEN "panic" ELSE "exiting"
    /\ attempt' = IF attempt = AttemptBudget THEN attempt ELSE attempt + 1
    /\ UNCHANGED <<vars, wstate, starting, failed, ran, stopsSeen, result>>

ExitRefused ==
    /\ thread = "exiting" /\ UnregisterRefused
    /\ thread' = IF attempt = AttemptBudget THEN "panic" ELSE "exitPoll"
    /\ attempt' = IF attempt = AttemptBudget THEN attempt ELSE attempt + 1
    /\ UNCHANGED <<vars, wstate, starting, failed, ran, stopsSeen, result>>

\* bmx_embedded_gc_poll between two attempts: parks, or finds the stop over.
ExitPoll ==
    \/ /\ Thread("exitPoll", "exitPolled")
       /\ PollRequest(Worker)
       /\ UNCHANGED <<wstate, starting, failed, ran, attempt, stopsSeen, result>>
    \/ /\ thread = "exitPolled" /\ pc[Worker] # "managed"
       /\ Poll(Worker)
       /\ UNCHANGED lifeVars
    \/ /\ \/ Thread("exitPoll", "exiting") /\ request = 0
          \/ Thread("exitPolled", "exiting") /\ pc[Worker] = "managed"
       /\ UNCHANGED <<vars, wstate, starting, failed, ran, attempt, stopsSeen, result>>

WorkerDone ==
    /\ Thread("unregistered", "returning")
    /\ wstate' = IF failed THEN "FAILED" ELSE "DONE"
    /\ UNCHANGED <<vars, starting, failed, ran, attempt, stopsSeen, result>>

TaskReturns ==
    /\ Thread("returning", "ended")
    /\ UNCHANGED <<vars, wstate, starting, failed, ran, attempt, stopsSeen, result>>

\* BMX_EMBEDDED_PLATFORM_PANIC stops the device.
Halted == thread = "panic" /\ UNCHANGED allVars

-----------------------------------------------------------------------------
OwnerStep == \/ OwnerRegister \/ OwnerCollects
             \/ Start \/ TaskCreated \/ TaskNotCreated \/ Join

WorkerStep == \/ WorkerRegister \/ WorkerRefused \/ EnterJob
              \/ JobStep \/ JobEnds \/ WorkerUnregister \/ ExitRefused
              \/ ExitPoll \/ WorkerDone \/ TaskReturns

LifeNext == \/ thread # "panic" /\ (OwnerStep \/ WorkerStep)
            \/ Halted

LifeSpec == LifeInit /\ [][LifeNext]_allVars

(* The job ends, the target runs what it created, and a stop in progress   *)
(* runs to its end; native calls return.  As in GCHandshake the lock is    *)
(* granted in the end to a task that asks for it again and again.          *)
LifeFairSpec ==
    /\ LifeSpec
    /\ WF_allVars(TaskCreated \/ TaskNotCreated)
    /\ WF_allVars(OwnerCollects /\ pc[Owner] # "managed")
    /\ SF_allVars(OwnerCollects /\ pc[Owner] \in {"relock", "waiting", "stopped"})
    /\ SF_allVars(WorkerRegister \/ WorkerRefused)
    /\ WF_allVars(EnterJob \/ WorkerDone \/ TaskReturns)
    /\ WF_allVars(JobStep) /\ SF_allVars(JobEnds)
    /\ WF_allVars(ExitPoll) /\ SF_allVars(WorkerUnregister \/ ExitRefused)

-----------------------------------------------------------------------------
(* Properties                                                              *)

(* A worker can be started again only when nothing is left of the last one:*)
(* its task has ended and its slot is free (embedded_runtime.c:431-447).   *)
IdleMeansGone ==
    wstate = "IDLE" => thread = "none" /\ slot[Worker] = NoSlot

(* A slot number is the index of the context whose root and exception      *)
(* frames the collector walks: the owner has 0 and the worker 1.           *)
SlotsAreContexts ==
    /\ slot[Owner] \in {NoSlot, 0}
    /\ slot[Worker] \in {NoSlot, 1}

\* The worker's variables and the slots that contexts depend on are in order.
ContextsOK == LifeTypeOK /\ SlotsAreContexts

(* Join returns 1 only for a job that ran to its end without an exception. *)
NormalResultMeansRan == result = 1 => ran /\ ~failed

(* The exit loop panics only when more collections overlapped the worker's *)
(* exit than it has attempts: one collection costs at most one attempt,    *)
(* because the worker parks between two (embedded_runtime.c:358-370).      *)
PanicOnlyAfterBudget ==
    /\ thread \in ExitThreads => attempt <= epoch - stopsSeen
    /\ thread = "panic" => epoch - stopsSeen > AttemptBudget

(* A started job becomes joinable, collections or not.                     *)
StartedJobEnds ==
    wstate \in {"STARTING", "RUNNING"} ~>
        \/ wstate \in {"DONE", "FAILED"} /\ thread = "ended"
        \/ wstate = "IDLE"
        \/ thread = "panic"
=============================================================================
