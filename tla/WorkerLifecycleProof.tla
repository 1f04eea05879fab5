------------------------ MODULE WorkerLifecycleProof ------------------------
(***************************************************************************)
(* For any number of collections, any epoch range and any budget of the    *)
(* exit loop: the managed worker leaves nothing behind, has the slot of    *)
(* its context, and panics only when more collections than it has attempts *)
(* overlapped its exit.                                                    *)
(*                                                                         *)
(* The lifecycle is a behaviour of GCHandshake (LifecycleIsHandshake), so  *)
(* all that GCHandshakeProof shows holds of it, its invariant IInv first.  *)
(* LInv adds where the worker is in the handshake at each point of the     *)
(* trampoline (Places), what the state word says (Phases), what a result   *)
(* stands for (Outcome), and the account of the exit loop (Attempts): an   *)
(* attempt that was refused is charged to the stop that refused it, and    *)
(* the worker comes back to the loop only when that stop is over.          *)
(***************************************************************************)
EXTENDS WorkerLifecycle, GCHandshakeProof

-----------------------------------------------------------------------------
OwnerPcs == {"out", "managed"} \cup (StopPcs \ {"pollStopped"})
JobPcs == {"managed", "native", "leaving"} \cup PollPcs

\* Where the two tasks are in the handshake.
Places ==
    /\ pc[Owner] \in OwnerPcs
    /\ thread \in {"none", "boot", "unregistered", "returning", "ended"} => pc[Worker] = "out"
    /\ thread \in {"registered", "exiting", "exitPoll", "panic"} => pc[Worker] = "managed"
    /\ thread = "job" => pc[Worker] \in JobPcs
    /\ thread = "exitPolled" =>
         /\ pc[Worker] \in {"managed"} \cup PollPcs
         /\ pc[Worker] \in {"pollCollector", "pollState"} => state[slot[Worker]] = "RUNNING"

\* What bmx_embedded_worker_state says of the task.
Phases ==
    /\ starting => wstate = "STARTING" /\ thread = "none"
    /\ wstate = "IDLE" => thread = "none"
    /\ thread \in {"boot", "registered"} => wstate = "STARTING"
    /\ thread \in {"job", "unregistered", "panic"} \cup ExitThreads => wstate = "RUNNING"
    /\ thread \in {"returning", "ended"} => wstate \in {"DONE", "FAILED"}
    /\ starting \/ thread # "none" => pc[Owner] # "out"

\* What the end of the job leaves for Join to report.
Outcome ==
    /\ thread \in {"unregistered", "panic"} \cup ExitThreads => ran
    /\ wstate = "DONE" => ran /\ ~failed
    /\ result = 1 => thread = "none" /\ ran /\ ~failed

\* The owner's epoch is the last one, and the bound on stops keeps it from wrapping.
Epochs ==
    /\ epoch <= MaxStops
    /\ pc[Owner] \in ActivePcs \cup {"publishing"} => seen[Owner] = epoch

\* Of the epoch stops begun so far, those whose request has been up.
StopsUp == IF pc[Owner] = "publishing" THEN epoch - 1 ELSE epoch

\* Each attempt of the exit loop is charged to a stop after the job's end.
Attempts ==
    /\ thread \in {"boot", "registered", "job"} => attempt = 0
    /\ thread = "exiting" => attempt <= StopsOver - stopsSeen
    /\ thread = "exitPoll" => attempt <= StopsUp - stopsSeen
    /\ thread = "exitPolled" =>
         IF pc[Worker] \in {"waking", "managed"} THEN attempt <= StopsOver - stopsSeen
         ELSE attempt <= seen[Worker] - stopsSeen /\ seen[Worker] <= StopsUp
    /\ thread = "panic" => epoch - stopsSeen > AttemptBudget

Words ==
    /\ wstate \in WStates
    /\ thread \in Threads
    /\ starting \in BOOLEAN /\ failed \in BOOLEAN /\ ran \in BOOLEAN
    /\ attempt \in 0 .. AttemptBudget
    /\ stopsSeen \in 0 .. MaxStops
    /\ result \in {-1, 0, 1}

LInv == /\ IInv /\ Words /\ Places /\ Phases /\ Outcome
        /\ SlotsAreContexts /\ Epochs /\ Attempts

-----------------------------------------------------------------------------
(* The lifecycle in the handshake.                                         *)

\* Every step is one of the handshake, by the owner or the worker, or none.
LEMMA StepOfHandshake == [LifeNext]_allVars => [Next]_vars
<1> SUFFICES ASSUME [LifeNext]_allVars PROVE [Next]_vars
  OBVIOUS
<1>1. Owner \in Tasks /\ Worker \in Tasks
  BY LifecycleAssumption
<1>2. \/ UNCHANGED vars
      \/ Register(Owner) \/ Stop(Owner)
      \/ Register(Worker) \/ Unregister(Worker)
      \/ Poll(Worker) \/ PollRequest(Worker) \/ EnterNativeSafe(Worker)
      \/ LeaveNativeSafe(Worker) \/ ReenterManaged(Worker)
  BY DEF LifeNext, Halted, OwnerStep, WorkerStep, OwnerRegister, OwnerCollects, Start,
         TaskCreated, TaskNotCreated, Join, WorkerRegister, WorkerRefused, EnterJob, JobStep,
         JobEnds, WorkerUnregister, ExitRefused, ExitPoll, WorkerDone, TaskReturns, allVars
<1>3. Poll(Worker) \/ PollRequest(Worker) => Step(Worker)
  BY DEF Step, Poll
<1> QED
  BY <1>1, <1>2, <1>3 DEF Next, Step

(* The worker's lifecycle is a behaviour of the handshake: every theorem   *)
(* about GCHandshake's Spec holds of start, trampoline and join.           *)
THEOREM LifecycleIsHandshake == LifeSpec => Spec
<1>1. LifeInit => Init
  BY DEF LifeInit
<1> QED
  BY <1>1, StepOfHandshake, PTL DEF LifeSpec, Spec

-----------------------------------------------------------------------------
(* What the invariant says of the words that stops are counted with.       *)
LEMMA Counts ==
  ASSUME LInv
  PROVE  /\ Owner \in Tasks /\ Worker \in Tasks /\ Owner # Worker
         /\ epoch \in Nat /\ request \in Nat /\ attempt \in Nat /\ stopsSeen \in Nat
         /\ seen[Owner] \in Nat /\ seen[Worker] \in Nat
         /\ AttemptBudget \in Nat /\ MaxStops \in Nat /\ MaxStops <= EpochMax
         /\ EpochMax \in Nat
         /\ pc[Worker] \notin StopPcs
         /\ request # 0 => pc[Owner] \in ActivePcs /\ request = epoch
         /\ request = 0 => pc[Owner] \notin ActivePcs
         /\ StopsOver = IF request # 0 \/ pc[Owner] = "publishing" THEN epoch - 1 ELSE epoch
         /\ StopsOver \in Nat /\ StopsUp \in Nat
<1>1. /\ Owner \in Tasks /\ Worker \in Tasks /\ Owner # Worker /\ Tasks = {Owner, Worker}
      /\ AttemptBudget \in Nat /\ MaxStops \in Nat /\ MaxStops <= EpochMax /\ EpochMax \in Nat
  BY LifecycleAssumption, HandshakeAssumption
<1>2. /\ epoch \in Nat /\ request \in Nat /\ seen[Owner] \in Nat /\ seen[Worker] \in Nat
      /\ pc \in [Tasks -> Pcs]
  BY <1>1 DEF LInv, IInv, TypeOK
<1>3. attempt \in Nat /\ stopsSeen \in Nat
  BY <1>1 DEF LInv, Words
<1>4. pc[Worker] \notin StopPcs
  BY DEF LInv, Places, Threads, ExitThreads, Words, JobPcs, PollPcs, StopPcs, ActivePcs
<1>5. request # 0 => pc[Owner] \in ActivePcs /\ request = epoch
  <2> SUFFICES ASSUME request # 0 PROVE pc[Owner] \in ActivePcs /\ request = epoch
    OBVIOUS
  <2>1. PICK c \in Tasks : pc[c] \in ActivePcs
    BY DEF LInv, IInv, StopInv
  <2>2. pc[Owner] \in ActivePcs
    BY <1>1, <1>4, <2>1 DEF StopPcs
  <2> QED BY <1>1, <2>2 DEF LInv, IInv, StopInv, OneCollector, StopPcs, Epochs
<1>6. request = 0 => pc[Owner] \notin ActivePcs
  BY <1>1 DEF LInv, IInv, StopInv, OneCollector, StopPcs
<1>7. pc[Owner] = "publishing" => epoch # 0
  BY <1>1 DEF LInv, IInv, StopInv, Epochs
<1>8. StopsOver = IF request # 0 \/ pc[Owner] = "publishing" THEN epoch - 1 ELSE epoch
  BY DEF StopsOver
<1>9. StopsOver \in Nat /\ StopsUp \in Nat
  BY <1>2, <1>5, <1>7, <1>8 DEF StopsUp
<1> QED BY <1>1, <1>2, <1>3, <1>4, <1>5, <1>6, <1>8, <1>9

-----------------------------------------------------------------------------
(* The owner's stops.                                                      *)

\* What a step of a stop leaves alone, and how it moves the counts.
LEMMA OwnerEffect ==
  ASSUME LInv, OwnerCollects
  PROVE  /\ UNCHANGED <<slot, state, wstate, thread, starting, failed, ran, attempt,
                        stopsSeen, result>>
         /\ pc'[Worker] = pc[Worker] /\ seen'[Worker] = seen[Worker]
         /\ pc[Owner] # "out" /\ pc'[Owner] \in OwnerPcs \ {"out"}
         /\ \/ /\ pc[Owner] = "managed" /\ pc'[Owner] = "publishing"
               /\ request = 0 /\ request' = 0
               /\ epoch' = epoch + 1 /\ epoch' <= MaxStops /\ seen'[Owner] = epoch'
            \/ /\ pc[Owner] = "publishing" /\ pc'[Owner] = "scan"
               /\ epoch' = epoch /\ request' = epoch /\ seen' = seen
            \/ /\ pc[Owner] \notin {"managed", "publishing"} /\ pc'[Owner] # "publishing"
               /\ epoch' = epoch /\ request' \in {0, request}
               /\ pc'[Owner] = "managed" \/ (pc[Owner] \in ActivePcs /\ seen' = seen)
<1>1. /\ Owner \in Tasks /\ Worker \in Tasks /\ Owner # Worker
      /\ epoch \in Nat /\ MaxStops <= EpochMax /\ MaxStops \in Nat /\ EpochMax \in Nat
  BY Counts
<1>2. Stop(Owner) /\ UNCHANGED lifeVars /\ (epoch < MaxStops \/ pc[Owner] # "managed")
  BY DEF OwnerCollects
<1>3. UNCHANGED <<wstate, thread, starting, failed, ran, attempt, stopsSeen, result>>
  BY <1>2 DEF lifeVars
<1>4. pc \in [Tasks -> Pcs] /\ seen \in [Tasks -> 0 .. EpochMax]
  BY DEF LInv, IInv, TypeOK
<1>5. pc[Owner] # "pollStopped"
  BY DEF LInv, Places, OwnerPcs, StopPcs, ActivePcs
<1> USE DEF OwnerPcs, StopPcs, ActivePcs, Goto
<1>6. CASE StopPublish(Owner)
  <2>1. epoch < MaxStops /\ NextEpoch(epoch) = epoch + 1
    BY <1>1, <1>2, <1>6 DEF StopPublish, NextEpoch
  <2> QED BY <1>1, <1>3, <1>4, <1>6, <2>1 DEF StopPublish
<1>7. CASE StopRequest(Owner)
  <2>1. seen[Owner] = epoch
    BY <1>7 DEF StopRequest, LInv, Epochs
  <2> QED BY <1>1, <1>3, <1>4, <1>7, <2>1 DEF StopRequest
<1>8. CASE Scan(Owner)
  BY <1>1, <1>3, <1>4, <1>5, <1>8
     DEF Scan, ScanPass, ScanParked, ScanAcknowledged, ScanRefused, ScanFails, ScanDone, Recheck
<1>9. CASE WorldStopped(Owner) \/ StopWait(Owner) \/ StopTimeout(Owner) \/ StopEnd(Owner)
  BY <1>1, <1>3, <1>4, <1>9 DEF WorldStopped, StopWait, StopTimeout, StopEnd
<1>10. CASE StopReleased(Owner)
  BY <1>1, <1>3, <1>4, <1>10 DEF StopReleased
<1> QED BY <1>2, <1>6, <1>7, <1>8, <1>9, <1>10 DEF Stop

\* The counts only grow.
LEMMA CountsGrow ==
  ASSUME LInv, OwnerCollects
  PROVE  epoch <= epoch' /\ StopsOver <= StopsOver' /\ StopsUp <= StopsUp'
<1>1. /\ epoch \in Nat /\ request \in Nat
      /\ request # 0 => pc[Owner] \in ActivePcs
  BY Counts
<1>2. "publishing" \notin ActivePcs /\ "managed" \notin ActivePcs
  BY DEF ActivePcs
<1> QED BY <1>1, <1>2, OwnerEffect DEF StopsOver, StopsUp

LEMMA OwnerCollectsKeeps ==
  ASSUME LInv, IInv', OwnerCollects
  PROVE  LInv'
<1>1. Words'
  BY OwnerEffect DEF LInv, Words
<1>2. Places'
  BY OwnerEffect DEF LInv, Places
<1>3. Phases' /\ Outcome' /\ SlotsAreContexts'
  BY OwnerEffect DEF LInv, Phases, Outcome, SlotsAreContexts
<1>4. Epochs'
  <2>1. epoch' <= MaxStops
    BY OwnerEffect, Counts DEF LInv, Epochs
  <2>2. "managed" \notin ActivePcs /\ "publishing" \notin ActivePcs /\ "scan" \in ActivePcs
    BY DEF ActivePcs
  <2>3. ASSUME pc'[Owner] \in ActivePcs \cup {"publishing"} PROVE seen'[Owner] = epoch'
    <3>1. CASE pc[Owner] = "managed"
      BY <2>2, <3>1, OwnerEffect
    <3>2. CASE pc[Owner] = "publishing"
      BY <2>2, <3>2, OwnerEffect DEF LInv, Epochs
    <3>3. CASE pc[Owner] \notin {"managed", "publishing"}
      <4>1. epoch' = epoch /\ seen' = seen /\ pc[Owner] \in ActivePcs
        BY <2>2, <2>3, <3>3, OwnerEffect
      <4> QED BY <4>1 DEF LInv, Epochs
    <3> QED BY <3>1, <3>2, <3>3
  <2> QED BY <2>1, <2>3 DEF Epochs
<1>5. Attempts'
  <2>1. /\ epoch \in Nat /\ stopsSeen \in Nat /\ attempt \in Nat /\ AttemptBudget \in Nat
        /\ StopsOver \in Nat /\ StopsUp \in Nat /\ seen[Worker] \in Nat
    BY Counts
  <2>2. epoch' \in Int /\ StopsOver' \in Int /\ StopsUp' \in Int
    <3>1. epoch' \in Nat
      BY DEF IInv, TypeOK
    <3> QED BY <3>1 DEF StopsOver, StopsUp
  <2>3. epoch <= epoch' /\ StopsOver <= StopsOver' /\ StopsUp <= StopsUp'
    BY CountsGrow
  <2>4. UNCHANGED <<thread, attempt, stopsSeen>> /\ pc'[Worker] = pc[Worker]
        /\ seen'[Worker] = seen[Worker]
    BY OwnerEffect
  <2>5. Attempts
    BY DEF LInv
  <2> DEFINE so == StopsOver  su == StopsUp  w == seen[Worker]
             so1 == StopsOver'  su1 == StopsUp'  e1 == epoch'
  <2>6. /\ so \in Int /\ su \in Int /\ w \in Int /\ so1 \in Int /\ su1 \in Int /\ e1 \in Int
        /\ so <= so1 /\ su <= su1 /\ epoch <= e1
    BY <2>1, <2>2, <2>3
  <2>7. /\ thread \in {"boot", "registered", "job"} => attempt = 0
        /\ thread = "exiting" => attempt <= so - stopsSeen
        /\ thread = "exitPoll" => attempt <= su - stopsSeen
        /\ thread = "exitPolled" =>
             IF pc[Worker] \in {"waking", "managed"} THEN attempt <= so - stopsSeen
             ELSE attempt <= w - stopsSeen /\ w <= su
        /\ thread = "panic" => epoch - stopsSeen > AttemptBudget
    BY <2>5 DEF Attempts
  <2> HIDE DEF so, su, w, so1, su1, e1
  <2>8. /\ thread \in {"boot", "registered", "job"} => attempt = 0
        /\ thread = "exiting" => attempt <= so1 - stopsSeen
        /\ thread = "exitPoll" => attempt <= su1 - stopsSeen
        /\ thread = "exitPolled" =>
             IF pc[Worker] \in {"waking", "managed"} THEN attempt <= so1 - stopsSeen
             ELSE attempt <= w - stopsSeen /\ w <= su1
        /\ thread = "panic" => e1 - stopsSeen > AttemptBudget
    BY <2>1, <2>6, <2>7
  <2> QED BY <2>4, <2>8 DEF Attempts, so1, su1, w, e1
<1> QED BY <1>1, <1>2, <1>3, <1>4, <1>5 DEF LInv

-----------------------------------------------------------------------------
(* The steps of the owner's calls, and of the worker outside the handshake.*)

\* A step that leaves the handshake alone leaves its part of LInv alone.
LEMMA CountsSame ==
  ASSUME UNCHANGED <<epoch, request>>, pc'[Owner] = pc[Owner]
  PROVE  UNCHANGED <<StopsOver, StopsUp>>
BY DEF StopsOver, StopsUp

LEMMA OwnerCallsKeep ==
  ASSUME LInv, IInv', Start \/ TaskCreated \/ TaskNotCreated \/ Join
  PROVE  LInv'
<1>1. UNCHANGED vars /\ UNCHANGED <<stopsSeen>>
  BY DEF Start, TaskCreated, TaskNotCreated, Join
<1>2. /\ UNCHANGED <<lock, epoch, request, collector, state, ack, pc, slot, seen, cursor, budget>>
      /\ UNCHANGED <<StopsOver, StopsUp>>
  BY <1>1, CountsSame DEF vars
<1>3. Words'
  <2>1. 0 \in 0 .. AttemptBudget
    BY LifecycleAssumption
  <2>2. attempt' \in 0 .. AttemptBudget
    BY <2>1 DEF LInv, Words, Start, TaskCreated, TaskNotCreated, Join
  <2>3. wstate' \in WStates /\ thread' \in Threads /\ result' \in {-1, 0, 1}
    BY DEF LInv, Words, Start, TaskCreated, TaskNotCreated, Join, WStates, Threads
  <2>4. starting' \in BOOLEAN /\ failed' \in BOOLEAN /\ ran' \in BOOLEAN
    BY DEF LInv, Words, Start, TaskCreated, TaskNotCreated, Join
  <2> QED BY <1>1, <2>2, <2>3, <2>4 DEF LInv, Words
<1>4. Places' /\ Phases'
  BY <1>2 DEF LInv, Words, Places, Phases, Start, TaskCreated, TaskNotCreated, Join,
              WStates, Threads, ExitThreads
<1>5. Outcome'
  BY DEF LInv, Outcome, Phases, Start, TaskCreated, TaskNotCreated, Join, ExitThreads
<1>6. SlotsAreContexts' /\ Epochs'
  BY <1>2 DEF LInv, SlotsAreContexts, Epochs
<1>7. Attempts'
  BY <1>2 DEF LInv, Attempts, Start, TaskCreated, TaskNotCreated, Join
<1> QED BY <1>3, <1>4, <1>5, <1>6, <1>7 DEF LInv

\* Of the exit loop: a refused attempt is charged to the stop that is requested.
LEMMA ExitRefusedKeeps ==
  ASSUME LInv, IInv', ExitRefused
  PROVE  LInv'
<1>1. /\ UNCHANGED vars /\ UNCHANGED <<wstate, starting, failed, ran, stopsSeen, result>>
      /\ thread = "exiting" /\ request # 0
      /\ thread' = IF attempt = AttemptBudget THEN "panic" ELSE "exitPoll"
      /\ attempt' = IF attempt = AttemptBudget THEN attempt ELSE attempt + 1
  BY DEF ExitRefused, UnregisterRefused
<1>2. /\ UNCHANGED <<lock, epoch, request, collector, state, ack, pc, slot, seen, cursor, budget>>
      /\ UNCHANGED <<StopsOver, StopsUp>>
  BY <1>1, CountsSame DEF vars
<1>3. Words'
  BY <1>1, Counts DEF LInv, Words, Threads, ExitThreads
<1>4. Places' /\ Phases' /\ Outcome'
  BY <1>1, <1>2 DEF LInv, Places, Phases, Outcome, ExitThreads
<1>5. SlotsAreContexts' /\ Epochs'
  BY <1>2 DEF LInv, SlotsAreContexts, Epochs
<1>6. Attempts'
  <2>1. /\ attempt \in Nat /\ stopsSeen \in Nat /\ epoch \in Nat /\ AttemptBudget \in Nat
        /\ StopsOver = epoch - 1 /\ StopsUp = epoch
    <3>1. pc[Owner] # "publishing"
      BY <1>1, Counts DEF ActivePcs
    <3> QED BY <1>1, <3>1, Counts DEF StopsUp
  <2>2. attempt <= epoch - 1 - stopsSeen
    BY <1>1, <2>1 DEF LInv, Attempts
  <2>3. CASE attempt = AttemptBudget
    <3>1. epoch' - stopsSeen' > AttemptBudget /\ thread' = "panic"
      BY <1>1, <1>2, <2>1, <2>2, <2>3
    <3> QED BY <3>1 DEF Attempts
  <2>4. CASE attempt # AttemptBudget
    <3>1. attempt' <= StopsUp' - stopsSeen' /\ thread' = "exitPoll"
      BY <1>1, <1>2, <2>1, <2>2, <2>4
    <3> QED BY <3>1 DEF Attempts
  <2> QED BY <2>3, <2>4
<1> QED BY <1>3, <1>4, <1>5, <1>6 DEF LInv

\* The steps of the trampoline that are not of the handshake.
LEMMA TrampolineKeeps ==
  ASSUME LInv, IInv', WorkerRefused \/ EnterJob \/ JobEnds \/ WorkerDone \/ TaskReturns
  PROVE  LInv'
<1>1. UNCHANGED vars /\ UNCHANGED <<starting, attempt, result>>
  BY DEF WorkerRefused, EnterJob, JobEnds, WorkerDone, TaskReturns
<1>2. /\ UNCHANGED <<lock, epoch, request, collector, state, ack, pc, slot, seen, cursor, budget>>
      /\ UNCHANGED <<StopsOver, StopsUp>>
  BY <1>1, CountsSame DEF vars
<1>3. EnterJob => slot[Worker] = 1
  <2> SUFFICES ASSUME EnterJob PROVE slot[Worker] = 1
    OBVIOUS
  <2>1. pc[Worker] = "managed"
    BY DEF EnterJob, LInv, Places
  <2>2. slot[Worker] # NoSlot
    BY <2>1, Counts DEF LInv, IInv, SlotInv, Owned
  <2> QED BY <2>2 DEF LInv, SlotsAreContexts
<1>4. /\ UNCHANGED stopsSeen \/ JobEnds
      /\ JobEnds => stopsSeen' = StopsOver /\ StopsOver \in 0 .. MaxStops
  <2>1. StopsOver \in 0 .. MaxStops
    BY Counts DEF LInv, Epochs
  <2> QED BY <2>1 DEF WorkerRefused, EnterJob, JobEnds, WorkerDone, TaskReturns
<1>5. Words'
  <2>1. stopsSeen' \in 0 .. MaxStops
    BY <1>4 DEF LInv, Words
  <2>2. wstate' \in WStates /\ thread' \in Threads
    BY DEF LInv, Words, WorkerRefused, EnterJob, JobEnds, WorkerDone, TaskReturns, Thread,
           WStates, Threads, ExitThreads
  <2>3. failed' \in BOOLEAN /\ ran' \in BOOLEAN
    BY DEF LInv, Words, WorkerRefused, EnterJob, JobEnds, WorkerDone, TaskReturns
  <2> QED BY <1>1, <2>1, <2>2, <2>3 DEF LInv, Words
<1>6. Places' /\ Phases'
  BY <1>1, <1>2, <1>3 DEF LInv, Places, Phases, ExitThreads, JobPcs, WorkerRefused, EnterJob,
     JobEnds, WorkerDone, TaskReturns, Thread
<1>7. Outcome'
  BY <1>1, <1>3 DEF LInv, Outcome, Phases, ExitThreads, WorkerRefused, EnterJob, JobEnds,
     WorkerDone, TaskReturns, Thread
<1>8. SlotsAreContexts' /\ Epochs'
  BY <1>2 DEF LInv, SlotsAreContexts, Epochs
<1>9. Attempts'
  <2>1. CASE JobEnds
    <3>1. thread' = "exiting" /\ attempt' = 0 /\ stopsSeen' = StopsOver
      BY <1>1, <2>1 DEF JobEnds, Thread, LInv, Attempts
    <3>2. attempt' <= StopsOver' - stopsSeen'
      BY <1>2, <3>1, Counts
    <3> QED BY <3>1, <3>2 DEF Attempts
  <2>2. CASE ~ JobEnds
    <3>1. thread' \in {"job", "returning", "ended"} /\ (thread' = "job" => attempt' = 0)
      BY <1>1, <2>2 DEF WorkerRefused, EnterJob, WorkerDone, TaskReturns, Thread, LInv, Attempts
    <3> QED BY <3>1 DEF Attempts
  <2> QED BY <2>1, <2>2
<1> QED BY <1>5, <1>6, <1>7, <1>8, <1>9 DEF LInv

-----------------------------------------------------------------------------
(* Registration.                                                           *)

\* Whoever registers finds the slot of its context free and the first free one.
LEMMA OwnerRegisterKeeps ==
  ASSUME LInv, IInv', OwnerRegister
  PROVE  LInv'
<1>1. /\ Owner \in Tasks /\ Worker \in Tasks /\ Owner # Worker /\ Tasks = {Owner, Worker}
      /\ Slots = {0, 1}
  BY LifecycleAssumption DEF Slots
<1>2. PICK s \in Slots : FirstEmpty(s) /\ slot' = [slot EXCEPT ![Owner] = s]
                         /\ state' = [state EXCEPT ![s] = "RUNNING"]
  BY DEF OwnerRegister, Register
<1>3. /\ pc[Owner] = "out" /\ pc' = [pc EXCEPT ![Owner] = "managed"]
      /\ UNCHANGED <<epoch, request, seen>> /\ UNCHANGED lifeVars
  BY DEF OwnerRegister, Register, Goto
<1>4. /\ slot \in [Tasks -> Slots \cup {NoSlot}] /\ state \in [Slots -> States]
      /\ pc \in [Tasks -> Pcs]
  BY DEF LInv, IInv, TypeOK
<1>5. slot[Owner] = NoSlot
  BY <1>1, <1>3 DEF LInv, IInv, SlotInv, Owned
<1>6. state[0] = "EMPTY"
  <2>1. 0 # NoSlot
    BY <1>1, NoSlotAssumption
  <2>2. \A t \in Tasks : slot[t] # 0
    BY <1>1, <1>5, <2>1 DEF LInv, SlotsAreContexts
  <2> QED BY <1>1, <2>2 DEF LInv, IInv, StateInv
<1>7. s = 0
  BY <1>1, <1>2, <1>6 DEF FirstEmpty
<1>8. /\ UNCHANGED <<wstate, thread, starting, failed, ran, attempt, stopsSeen, result>>
      /\ pc'[Worker] = pc[Worker] /\ pc'[Owner] = "managed" /\ slot'[Owner] = 0
      /\ slot'[Worker] = slot[Worker]
  BY <1>1, <1>2, <1>3, <1>4, <1>7 DEF lifeVars
<1>9. slot[Worker] \in Slots => state'[slot[Worker]] = state[slot[Worker]]
  <2>1. slot[Worker] # 0
    BY <1>1, NoSlotAssumption DEF LInv, SlotsAreContexts
  <2> QED BY <1>2, <1>4, <1>7, <2>1
<1>10. UNCHANGED <<StopsOver, StopsUp>>
  BY <1>3, <1>8 DEF StopsOver, StopsUp
<1>11. Words' /\ Phases' /\ Outcome'
  BY <1>8 DEF LInv, Words, Phases, Outcome
<1>12. Places'
  <2>1. thread = "exitPolled" => slot[Worker] \in Slots
    BY <1>1, <1>4 DEF LInv, Places, IInv, SlotInv, Owned, PollPcs
  <2> QED BY <1>8, <1>9, <2>1 DEF LInv, Places, OwnerPcs
<1>13. SlotsAreContexts' /\ Epochs'
  BY <1>3, <1>8 DEF LInv, SlotsAreContexts, Epochs, ActivePcs
<1>14. Attempts'
  BY <1>3, <1>8, <1>10 DEF LInv, Attempts
<1> QED BY <1>11, <1>12, <1>13, <1>14 DEF LInv

LEMMA WorkerRegisterKeeps ==
  ASSUME LInv, IInv', WorkerRegister
  PROVE  LInv'
<1>1. /\ Owner \in Tasks /\ Worker \in Tasks /\ Owner # Worker /\ Tasks = {Owner, Worker}
      /\ Slots = {0, 1}
  BY LifecycleAssumption DEF Slots
<1>2. PICK s \in Slots : FirstEmpty(s) /\ slot' = [slot EXCEPT ![Worker] = s]
  BY DEF WorkerRegister, Register
<1>3. /\ thread = "boot" /\ thread' = "registered"
      /\ pc' = [pc EXCEPT ![Worker] = "managed"] /\ UNCHANGED <<epoch, request, seen>>
      /\ UNCHANGED <<wstate, starting, failed, ran, attempt, stopsSeen, result>>
  BY DEF WorkerRegister, Register, Goto, Thread
<1>4. slot \in [Tasks -> Slots \cup {NoSlot}] /\ pc \in [Tasks -> Pcs]
  BY DEF LInv, IInv, TypeOK
<1>5. slot[Owner] = 0
  BY <1>1, <1>3 DEF LInv, Phases, IInv, SlotInv, Owned, SlotsAreContexts
<1>6. state[0] # "EMPTY"
  BY <1>1, <1>5, NoSlotAssumption, OwnedNotEmpty DEF LInv, IInv, Owned
<1>7. s = 1
  BY <1>1, <1>2, <1>6 DEF FirstEmpty
<1>8. /\ pc'[Owner] = pc[Owner] /\ pc'[Worker] = "managed"
      /\ slot'[Owner] = slot[Owner] /\ slot'[Worker] = 1
  BY <1>1, <1>2, <1>3, <1>4, <1>7
<1>9. UNCHANGED <<StopsOver, StopsUp>>
  BY <1>3, <1>8 DEF StopsOver, StopsUp
<1>10. Words'
  BY <1>3 DEF LInv, Words, Threads
<1>11. Places' /\ Phases' /\ Outcome'
  BY <1>3, <1>8 DEF LInv, Places, Phases, Outcome, ExitThreads
<1>12. SlotsAreContexts' /\ Epochs'
  BY <1>3, <1>8 DEF LInv, SlotsAreContexts, Epochs
<1>13. Attempts'
  BY <1>3 DEF LInv, Attempts
<1> QED BY <1>10, <1>11, <1>12, <1>13 DEF LInv

LEMMA WorkerUnregisterKeeps ==
  ASSUME LInv, IInv', WorkerUnregister
  PROVE  LInv'
<1>1. Owner \in Tasks /\ Worker \in Tasks /\ Owner # Worker
  BY Counts
<1>2. /\ thread = "exiting" /\ thread' = "unregistered"
      /\ pc' = [pc EXCEPT ![Worker] = "out"] /\ slot' = [slot EXCEPT ![Worker] = NoSlot]
      /\ UNCHANGED <<epoch, request, seen>>
      /\ UNCHANGED <<wstate, starting, failed, ran, attempt, stopsSeen, result>>
  BY DEF WorkerUnregister, Unregister, Goto, Thread
<1>3. slot \in [Tasks -> Slots \cup {NoSlot}] /\ pc \in [Tasks -> Pcs]
  BY DEF LInv, IInv, TypeOK
<1>4. /\ pc'[Owner] = pc[Owner] /\ pc'[Worker] = "out"
      /\ slot'[Owner] = slot[Owner] /\ slot'[Worker] = NoSlot
  BY <1>1, <1>2, <1>3
<1>5. Words'
  BY <1>2 DEF LInv, Words, Threads
<1>6. Places' /\ Phases' /\ Outcome'
  BY <1>2, <1>4 DEF LInv, Places, Phases, Outcome, ExitThreads
<1>7. SlotsAreContexts' /\ Epochs'
  BY <1>2, <1>4 DEF LInv, SlotsAreContexts, Epochs
<1>8. Attempts'
  BY <1>2 DEF LInv, Attempts
<1> QED BY <1>5, <1>6, <1>7, <1>8 DEF LInv

-----------------------------------------------------------------------------
(* The worker's polls and native-safe calls.                               *)

\* A registered worker is no collector: its polls park, or pass in native code.
LEMMA PollEffect ==
  ASSUME LInv, slot[Worker] # NoSlot, Poll(Worker)
  PROVE  /\ UNCHANGED <<epoch, request, slot>>
         /\ pc'[Owner] = pc[Owner] /\ seen'[Owner] = seen[Owner]
         /\ \/ /\ pc[Worker] \in {"managed", "native"} /\ pc'[Worker] = "pollCollector"
               /\ request # 0 /\ seen'[Worker] = request /\ state' = state
            \/ /\ pc[Worker] = "pollCollector" /\ pc'[Worker] = "pollState"
               /\ seen' = seen /\ state' = state
            \/ /\ pc[Worker] = "pollState" /\ pc'[Worker] = "pollPark"
               /\ seen' = seen /\ state' = state
            \/ /\ pc[Worker] = "pollState" /\ pc'[Worker] = "native"
               /\ state[slot[Worker]] # "RUNNING"
            \/ /\ pc[Worker] = "pollPark" /\ pc'[Worker] = "pollAck" /\ seen' = seen
            \/ /\ pc[Worker] = "pollAck" /\ pc'[Worker] = "parked" /\ seen' = seen
            \/ /\ pc[Worker] = "parked" /\ pc'[Worker] = "waking"
               /\ request # seen[Worker] /\ seen' = seen
            \/ pc[Worker] = "waking" /\ pc'[Worker] = "managed"
<1>1. Owner \in Tasks /\ Worker \in Tasks /\ Owner # Worker /\ pc[Worker] \notin StopPcs
  BY Counts
<1>2. pc \in [Tasks -> Pcs] /\ seen \in [Tasks -> 0 .. EpochMax]
  BY DEF LInv, IInv, TypeOK
<1>3. pc[Worker] \notin {"stopped", "pollStopped"}
  BY <1>1 DEF StopPcs, ActivePcs
<1> USE DEF Goto
<1>4. CASE PollRequest(Worker)
  BY <1>1, <1>2, <1>3, <1>4 DEF PollRequest
<1>5. CASE PollCollector(Worker)
  <2>1. collector # slot[Worker] + 1
    BY <1>1, CollectorIsStopping DEF LInv, IInv, Owned
  <2> QED BY <1>1, <1>2, <1>3, <1>5, <2>1 DEF PollCollector
<1>6. CASE PollState(Worker)
  BY <1>1, <1>2, <1>6 DEF PollState
<1>7. CASE PollPark(Worker) \/ PollAck(Worker) \/ PollWake(Worker)
  BY <1>1, <1>2, <1>7 DEF PollPark, PollAck, PollWake
<1>8. CASE PollResume(Worker)
  BY <1>1, <1>2, <1>8 DEF PollResume
<1> QED BY <1>4, <1>5, <1>6, <1>7, <1>8 DEF Poll

LEMMA JobStepKeeps ==
  ASSUME LInv, IInv', JobStep
  PROVE  LInv'
<1>1. Owner \in Tasks /\ Worker \in Tasks /\ Owner # Worker
  BY Counts
<1>2. /\ thread = "job"
      /\ UNCHANGED <<wstate, thread, starting, failed, ran, attempt, stopsSeen, result>>
      /\ pc[Worker] \in JobPcs
  BY DEF JobStep, lifeVars, LInv, Places
<1>3. slot[Worker] # NoSlot
  BY <1>1, <1>2 DEF JobPcs, PollPcs, LInv, IInv, SlotInv, Owned
<1>4. /\ UNCHANGED <<epoch, request, slot>>
      /\ pc'[Owner] = pc[Owner] /\ seen'[Owner] = seen[Owner] /\ pc'[Worker] \in JobPcs
  <2>1. CASE Poll(Worker)
    BY <1>3, <2>1, PollEffect DEF JobPcs, PollPcs
  <2>2. CASE EnterNativeSafe(Worker) \/ LeaveNativeSafe(Worker) \/ ReenterManaged(Worker)
    <3>1. pc \in [Tasks -> Pcs]
      BY DEF LInv, IInv, TypeOK
    <3> QED BY <1>1, <2>2, <3>1
            DEF EnterNativeSafe, LeaveNativeSafe, ReenterManaged, Goto, JobPcs
  <2> QED BY <2>1, <2>2 DEF JobStep
<1>5. Words' /\ Phases' /\ Outcome'
  BY <1>2, <1>4 DEF LInv, Words, Phases, Outcome
<1>6. Places'
  BY <1>2, <1>4 DEF LInv, Places
<1>7. SlotsAreContexts' /\ Epochs'
  BY <1>4 DEF LInv, SlotsAreContexts, Epochs
<1>8. Attempts'
  BY <1>2 DEF LInv, Attempts
<1> QED BY <1>5, <1>6, <1>7, <1>8 DEF LInv

\* Between two attempts: the worker sits out the stop that refused it.
LEMMA ExitPollKeeps ==
  ASSUME LInv, IInv', ExitPoll
  PROVE  LInv'
<1>1. Owner \in Tasks /\ Worker \in Tasks /\ Owner # Worker
  BY Counts
<1>2. /\ thread \in {"exitPoll", "exitPolled"} /\ thread' \in {"exitPolled", "exiting"}
      /\ UNCHANGED <<wstate, starting, failed, ran, attempt, stopsSeen, result>>
  BY DEF ExitPoll, Thread, lifeVars
<1>3. slot[Worker] # NoSlot
  <2>1. pc[Worker] # "out"
    BY <1>2 DEF LInv, Places, PollPcs
  <2> QED BY <1>1, <2>1 DEF LInv, IInv, SlotInv, Owned
<1>4. /\ UNCHANGED <<epoch, request, slot>>
      /\ pc'[Owner] = pc[Owner] /\ seen'[Owner] = seen[Owner]
  <2>1. Poll(Worker) \/ UNCHANGED vars
    BY DEF ExitPoll, Poll
  <2> QED BY <1>3, <2>1, PollEffect DEF vars
<1>5. UNCHANGED <<StopsOver, StopsUp>>
  BY <1>4, CountsSame
<1>6. Words' /\ Phases' /\ Outcome' /\ SlotsAreContexts' /\ Epochs'
  BY <1>2, <1>4 DEF LInv, Words, Phases, Outcome, SlotsAreContexts, Epochs, Threads, ExitThreads
<1>7. /\ attempt \in Int /\ stopsSeen \in Int /\ epoch \in Int /\ request \in Nat
      /\ seen[Worker] \in Nat /\ StopsOver \in Int /\ StopsUp \in Int
      /\ request # 0 => StopsOver = epoch - 1 /\ StopsUp = epoch /\ request = epoch
      /\ request = 0 => StopsOver = StopsUp
  <2>1. request # 0 => pc[Owner] # "publishing"
    BY Counts DEF ActivePcs
  <2> QED BY <2>1, Counts DEF StopsUp
<1>8. CASE thread = "exitPoll" /\ thread' = "exitPolled" /\ PollRequest(Worker)
  <2>1. pc[Worker] = "managed"
    BY <1>8 DEF LInv, Places
  <2>2. /\ pc'[Worker] = "pollCollector" /\ request # 0 /\ seen'[Worker] = request
        /\ state' = state
    BY <1>3, <1>8, <2>1, PollEffect DEF Poll
  <2>3. state[slot[Worker]] = "RUNNING"
    BY <1>1, <1>3, <2>1 DEF LInv, IInv, StateInv, StateAt, Owned
  <2>4. Places'
    BY <1>4, <1>8, <2>2, <2>3 DEF LInv, Places, PollPcs
  <2>5. attempt <= StopsUp - stopsSeen
    BY <1>8 DEF LInv, Attempts
  <2>6. attempt' <= seen'[Worker] - stopsSeen' /\ seen'[Worker] <= StopsUp'
    BY <1>2, <1>5, <1>7, <2>2, <2>5
  <2>7. Attempts'
    BY <1>8, <2>2, <2>6 DEF Attempts
  <2> QED BY <1>6, <2>4, <2>7 DEF LInv
<1>9. CASE /\ thread = "exitPolled" /\ pc[Worker] # "managed"
           /\ Poll(Worker) /\ UNCHANGED lifeVars
  <2>1. thread' = "exitPolled"
    BY <1>9 DEF lifeVars
  <2>2. /\ pc[Worker] \in PollPcs
        /\ pc[Worker] \in {"pollCollector", "pollState"} => state[slot[Worker]] = "RUNNING"
    BY <1>9 DEF LInv, Places
  <2>3. \/ /\ pc[Worker] = "pollCollector" /\ pc'[Worker] = "pollState"
           /\ seen' = seen /\ state' = state
        \/ /\ pc[Worker] \in {"pollState", "pollPark", "pollAck"}
           /\ pc'[Worker] \in {"pollPark", "pollAck", "parked"} /\ seen' = seen
        \/ /\ pc[Worker] = "parked" /\ pc'[Worker] = "waking"
           /\ request # seen[Worker] /\ seen' = seen
        \/ pc[Worker] = "waking" /\ pc'[Worker] = "managed"
    BY <1>3, <1>9, <2>2, PollEffect DEF PollPcs
  <2>4. Places'
    BY <1>4, <2>1, <2>2, <2>3 DEF LInv, Places, PollPcs
  <2>5. IF pc[Worker] = "waking" THEN attempt <= StopsOver - stopsSeen
        ELSE attempt <= seen[Worker] - stopsSeen /\ seen[Worker] <= StopsUp
    BY <1>9 DEF LInv, Attempts
  <2>6. IF pc'[Worker] \in {"waking", "managed"} THEN attempt <= StopsOver - stopsSeen
        ELSE attempt <= seen'[Worker] - stopsSeen /\ seen'[Worker] <= StopsUp
    <3>1. CASE pc[Worker] = "parked"
      <4>1. seen[Worker] <= StopsOver
        BY <1>7, <2>3, <2>5, <3>1
      <4> QED BY <1>7, <2>3, <2>5, <3>1, <4>1
    <3>2. CASE pc[Worker] # "parked"
      BY <2>3, <2>5, <3>2
    <3> QED BY <3>1, <3>2
  <2>7. Attempts'
    BY <1>2, <1>5, <2>1, <2>6 DEF Attempts
  <2> QED BY <1>6, <2>4, <2>7 DEF LInv
<1>10. CASE /\ \/ thread = "exitPoll" /\ request = 0
               \/ thread = "exitPolled" /\ pc[Worker] = "managed"
            /\ thread' = "exiting" /\ UNCHANGED vars
  <2>1. pc'[Worker] = "managed" /\ pc'[Owner] = pc[Owner]
    BY <1>10 DEF LInv, Places, vars
  <2>2. Places'
    BY <1>10, <2>1 DEF LInv, Places
  <2>3. attempt <= StopsOver - stopsSeen
    BY <1>7, <1>10 DEF LInv, Attempts
  <2>4. Attempts'
    BY <1>2, <1>5, <1>10, <2>3 DEF Attempts
  <2> QED BY <1>6, <2>2, <2>4 DEF LInv
<1> QED BY <1>8, <1>9, <1>10 DEF ExitPoll, Thread

-----------------------------------------------------------------------------
(* The theorems.                                                           *)

LEMMA InitLInv == LifeInit => LInv
<1> SUFFICES ASSUME LifeInit PROVE LInv
  OBVIOUS
<1>1. Init /\ IInv
  BY InitIInv DEF LifeInit
<1>2. /\ Owner \in Tasks /\ Worker \in Tasks /\ AttemptBudget \in Nat
      /\ MaxStops \in Nat
  BY LifecycleAssumption, HandshakeAssumption
<1>3. /\ epoch = 0 /\ pc[Owner] = "out" /\ pc[Worker] = "out"
      /\ slot[Owner] = NoSlot /\ slot[Worker] = NoSlot
  BY <1>1, <1>2 DEF Init
<1>4. Words
  <2>1. 0 \in 0 .. AttemptBudget /\ 0 \in 0 .. MaxStops /\ 0 \in {-1, 0, 1}
    BY <1>2
  <2>2. "IDLE" \in WStates /\ "none" \in Threads
    BY DEF WStates, Threads
  <2> QED BY <2>1, <2>2 DEF LifeInit, Words
<1>5. Places /\ Phases /\ Outcome
  BY <1>3 DEF LifeInit, Places, Phases, Outcome, OwnerPcs, ExitThreads
<1>6. SlotsAreContexts /\ Epochs /\ Attempts
  BY <1>2, <1>3 DEF LifeInit, SlotsAreContexts, Epochs, Attempts, ActivePcs
<1> QED BY <1>1, <1>4, <1>5, <1>6 DEF LInv

LEMMA StepLInv == LInv /\ [LifeNext]_allVars => LInv'
<1> SUFFICES ASSUME LInv, [LifeNext]_allVars PROVE LInv'
  OBVIOUS
<1>1. IInv'
  BY StepOfHandshake, StepIInv DEF LInv
<1>2. CASE OwnerStep
  BY <1>1, <1>2, OwnerRegisterKeeps, OwnerCollectsKeeps, OwnerCallsKeep DEF OwnerStep
<1>3. CASE WorkerStep
  BY <1>1, <1>3, WorkerRegisterKeeps, TrampolineKeeps, JobStepKeeps, WorkerUnregisterKeeps,
     ExitRefusedKeeps, ExitPollKeeps DEF WorkerStep
<1>4. CASE UNCHANGED allVars
  <2>1. /\ UNCHANGED <<wstate, thread, starting, failed, ran, attempt, stopsSeen, result>>
        /\ UNCHANGED <<lock, epoch, request, collector, state, ack, pc, slot, seen, cursor, budget>>
    BY <1>4 DEF allVars, vars, lifeVars
  <2>2. UNCHANGED <<StopsOver, StopsUp>>
    BY <2>1, CountsSame
  <2>3. Words' /\ Places' /\ Phases' /\ Outcome' /\ SlotsAreContexts' /\ Epochs' /\ Attempts'
    BY <2>1, <2>2 DEF LInv, Words, Places, Phases, Outcome, SlotsAreContexts, Epochs, Attempts
  <2> QED BY <1>1, <2>3 DEF LInv
<1> QED BY <1>2, <1>3, <1>4 DEF LifeNext, Halted

(* The inductive invariant of the lifecycle.                               *)
THEOREM LifecycleInductive == LifeSpec => []LInv
BY InitLInv, StepLInv, PTL DEF LifeSpec

(* The worker's variables stay in their ranges, and the slot a task is     *)
(* given is the index of its context: start_function refuses to start the  *)
(* worker before the owner has slot 0, so the worker finds slot 1.         *)
THEOREM ContextsAreSlots == LifeSpec => []ContextsOK
<1>1. LInv => ContextsOK
  BY DEF LInv, IInv, Words, ContextsOK, LifeTypeOK
<1> QED BY <1>1, LifecycleInductive, PTL

(* When a worker can be started again, nothing is left of the last one,    *)
(* neither its task nor its slot.                                          *)
THEOREM IdleLeavesNothing == LifeSpec => []IdleMeansGone
<1>1. LInv => IdleMeansGone
  <2> SUFFICES ASSUME LInv, wstate = "IDLE" PROVE thread = "none" /\ slot[Worker] = NoSlot
    BY DEF IdleMeansGone
  <2>1. thread = "none" /\ pc[Worker] = "out"
    BY DEF LInv, Phases, Places
  <2> QED BY <2>1, Counts DEF LInv, IInv, SlotInv, Owned
<1> QED BY <1>1, LifecycleInductive, PTL

(* Join reports 1 only for a job that ran to its end without an exception. *)
THEOREM NormalResultsAreHonest == LifeSpec => []NormalResultMeansRan
<1>1. LInv => NormalResultMeansRan
  BY DEF LInv, Outcome, NormalResultMeansRan
<1> QED BY <1>1, LifecycleInductive, PTL

(* For every budget: the exit loop panics only when more collections       *)
(* overlapped the worker's exit than it has attempts.                      *)
THEOREM PanicNeedsStops == LifeSpec => []PanicOnlyAfterBudget
<1>1. LInv => PanicOnlyAfterBudget
  <2> SUFFICES ASSUME LInv PROVE PanicOnlyAfterBudget
    OBVIOUS
  <2>1. /\ attempt \in Int /\ stopsSeen \in Int /\ epoch \in Int /\ seen[Worker] \in Int
        /\ StopsOver \in Int /\ StopsUp \in Int
        /\ StopsOver <= epoch /\ StopsUp <= epoch
    BY Counts DEF StopsUp
  <2>2. thread \in ExitThreads => attempt <= epoch - stopsSeen
    BY <2>1 DEF LInv, Attempts, ExitThreads
  <2>3. thread = "panic" => epoch - stopsSeen > AttemptBudget
    BY DEF LInv, Attempts
  <2> QED BY <2>2, <2>3 DEF PanicOnlyAfterBudget
<1> QED BY <1>1, LifecycleInductive, PTL

(* In the lifecycle too: while the owner holds the world, the worker runs  *)
(* no managed code.                                                        *)
THEOREM WorkerIsStopped == LifeSpec => []NoMutatorWhileStopped
BY LifecycleIsHandshake, WorldIsStopped, PTL
=============================================================================
