-------------------------- MODULE GCHandshakeProof --------------------------
(***************************************************************************)
(* For every set of tasks, every capacity and every epoch range: the       *)
(* handshake of GCHandshake is type correct, stops the world exclusively,  *)
(* and implements StopTheWorld.                                            *)
(*                                                                         *)
(* The inductive invariant IInv says, besides the properties themselves,   *)
(* who holds the lock (LockInv), who owns which slot (SlotInv), what a     *)
(* slot's state says about where its owner is (StateInv), that the request *)
(* and collector words describe the one stop in progress (StopInv), and    *)
(* that what a scan has passed stays passed (ScanInv).                     *)
(***************************************************************************)
EXTENDS GCHandshake, TLAPS

Owned(t) == slot[t] # NoSlot

LockInv == \A t \in Tasks : pc[t] \in LockPcs <=> lock = t

SlotInv ==
    \A t \in Tasks :
        /\ pc[t] = "out" <=> ~Owned(t)
        /\ \A u \in Tasks \ {t} : Owned(t) => slot[u] # slot[t]

\* The state word of a slot whose owner is at p.
StateAt(p, st) ==
    /\ p \in {"native", "leaving"} => st = "NATIVE_SAFE"
    /\ p \in {"pollAck", "parked", "waking"} => st = "PARKED"
    /\ p \in {"managed", "pollPark"} \cup StopPcs => st = "RUNNING"
    /\ p \in {"pollCollector", "pollState"} => st \in {"RUNNING", "NATIVE_SAFE"}

StateInv ==
    /\ \A t \in Tasks : Owned(t) => StateAt(pc[t], state[slot[t]])
    /\ \A s \in Slots : state[s] # "EMPTY" => \E t \in Tasks : slot[t] = s

StopInv ==
    /\ OneCollector
    /\ request # 0 => \E c \in Tasks : pc[c] \in ActivePcs
    /\ collector # 0 => \E c \in Tasks : pc[c] \in StopPcs
    /\ \A c \in Tasks : pc[c] \in ActivePcs \cup {"publishing"} => seen[c] # 0
    /\ \A c \in Tasks : pc[c] = "publishing" => EpochFresh(seen[c])

SlotStopped(s, e) == \/ state[s] \in {"EMPTY", "NATIVE_SAFE"}
                     \/ state[s] = "PARKED" /\ ack[s] = e

ScanInv ==
    \A c \in Tasks :
        /\ pc[c] \in ActivePcs => \A s \in Slots :
              s < cursor[c] => s = slot[c] \/ SlotStopped(s, seen[c])
        /\ HoldsWorld(c) => cursor[c] = Capacity
        /\ pc[c] \in {"scanAck", "recheckAck"} => cursor[c] \in Slots

IInv == /\ TypeOK /\ LockInv /\ SlotInv /\ StateInv
        /\ StopInv /\ AckMeansParked /\ ScanInv

-----------------------------------------------------------------------------
(* Type correctness is preserved by every step.                            *)
LEMMA TypeStep == TypeOK /\ SlotInv /\ ScanInv /\ [Next]_vars => TypeOK'
<1> SUFFICES ASSUME TypeOK, SlotInv, ScanInv, [Next]_vars PROVE TypeOK'
  OBVIOUS
<1> USE HandshakeAssumption, NoSlotAssumption DEF HandshakeAssumption,
         NoSlotAssumption, TypeOK, Slots, States, Pcs, PollPcs, StopPcs, ActivePcs,
         LockPcs
<1>1. CASE UNCHANGED vars
  BY <1>1 DEF vars
<1>2. ASSUME NEW t \in Tasks, Step(t) PROVE TypeOK'
  <2>1. CASE Register(t)
    BY <2>1 DEF Register, Goto, LockFree, FirstEmpty
  <2>2. CASE Unregister(t)
    BY <2>2 DEF Unregister, Goto, LockFree, SetState
  <2>3. CASE EnterNativeSafe(t)
    BY <2>3 DEF EnterNativeSafe, Goto, LockFree, SetState
  <2>4. CASE LeaveNativeSafe(t)
    BY <2>4 DEF LeaveNativeSafe, Goto
  <2>5. CASE ReenterManaged(t)
    BY <2>5 DEF ReenterManaged, Goto, LockFree, SetState
  <2>6. CASE PollRequest(t)
    BY <2>6 DEF PollRequest, Goto
  <2>7. CASE PollCollector(t)
    BY <2>7 DEF PollCollector
  <2>8. CASE PollState(t)
    <3>1. \/ pc' = [pc EXCEPT ![t] = "pollPark"] /\ seen' = seen
          \/ pc' = [pc EXCEPT ![t] = "native"] /\ seen' = [seen EXCEPT ![t] = 0]
      BY <2>8 DEF PollState, Goto
    <3>2. pc' \in [Tasks -> Pcs]
      BY <3>1
    <3>3. seen' \in [Tasks -> 0 .. EpochMax]
      <4>1. 0 \in 0 .. EpochMax
        OBVIOUS
      <4> QED
        BY <3>1, <4>1
    <3> QED
      BY <2>8, <3>2, <3>3 DEF PollState, Goto
  <2>9. CASE PollPark(t)
    BY <2>9 DEF PollPark, Goto, SetState
  <2>10. CASE PollAck(t)
    BY <2>10 DEF PollAck, Goto
  <2>11. CASE PollWake(t)
    BY <2>11 DEF PollWake, Goto
  <2>12. CASE PollResume(t)
    <3>1. state' \in [Slots -> States]
      BY <2>12 DEF PollResume, Goto, SetState
    <3>2. seen' \in [Tasks -> 0 .. EpochMax]
      BY <2>12 DEF PollResume, Goto, SetState
    <3> QED
      BY <2>12, <3>1, <3>2 DEF PollResume, Goto, SetState
  <2>13. CASE StopPublish(t)
    <3>1. slot[t] \in Slots
      BY <2>13 DEF StopPublish, Goto, LockFree, NextEpoch, EpochFresh, SlotInv, Owned
    <3>2. NextEpoch(epoch) \in 0 .. EpochMax
      BY DEF NextEpoch
    <3>3. collector' \in 0 .. Capacity
      BY <2>13, <3>1 DEF StopPublish
    <3>4. epoch' \in 0 .. EpochMax /\ seen' \in [Tasks -> 0 .. EpochMax]
      BY <2>13, <3>2 DEF StopPublish
    <3>5. budget' \in [Tasks -> Nat \cup {Unbounded}]
      BY <2>13 DEF StopPublish
    <3> QED
      BY <2>13, <3>3, <3>4, <3>5 DEF StopPublish, Goto
  <2>14. CASE StopRequest(t)
    BY <2>14 DEF StopRequest, Goto
  <2>15. CASE ScanPass(t)
    <3>1. cursor' \in [Tasks -> 0 .. Capacity]
      BY <2>15 DEF ScanPass, Advance
    <3> QED
      BY <2>15, <3>1 DEF ScanPass
  <2>16. CASE ScanParked(t)
    BY <2>16 DEF ScanParked, Goto, Passes
  <2>17. CASE ScanAcknowledged(t)
    <3>1. cursor[t] \in Slots
      BY <2>17 DEF ScanAcknowledged, Goto, Advance, ScanInv
    <3>2. cursor[t] + 1 \in 0 .. Capacity
      BY <3>1
    <3>3. cursor' \in [Tasks -> 0 .. Capacity]
      BY <2>17, <3>2 DEF ScanAcknowledged, Advance
    <3>4. pc' \in [Tasks -> Pcs]
      BY <2>17 DEF ScanAcknowledged, Goto, Advance
    <3> QED
      BY <2>17, <3>3, <3>4 DEF ScanAcknowledged
  <2>18. CASE ScanRefused(t)
    BY <2>18 DEF ScanRefused, ScanFails
  <2>19. CASE ScanDone(t)
    BY <2>19 DEF ScanDone, Goto
  <2>20. CASE Recheck(t)
    BY <2>20 DEF Recheck, Goto, LockFree
  <2>21. CASE WorldStopped(t)
    BY <2>21 DEF WorldStopped, Goto
  <2>22. CASE StopWait(t)
    <3>1. budget' \in [Tasks -> Nat \cup {Unbounded}]
      BY <2>22 DEF StopWait, Goto
    <3>2. cursor' \in [Tasks -> 0 .. Capacity]
      BY <2>22 DEF StopWait, Goto
    <3> QED
      BY <2>22, <3>1, <3>2 DEF StopWait, Goto
  <2>23. CASE StopTimeout(t)
    BY <2>23 DEF StopTimeout, Goto, LockFree
  <2>24. CASE StopEnd(t)
    BY <2>24, SMTT(30) DEF StopEnd, Goto, LockFree
  <2>25. CASE StopReleased(t)
    BY <2>25 DEF StopReleased, Goto
  <2> QED
    BY <1>2, <2>1, <2>2, <2>3, <2>4, <2>5, <2>6, <2>7, <2>8, <2>9, <2>10, <2>11, <2>12, <2>13,
       <2>14, <2>15, <2>16, <2>17, <2>18, <2>19, <2>20, <2>21, <2>22, <2>23, <2>24, <2>25
    DEF Step, Poll, Stop, Scan
<1> QED
  BY <1>1, <1>2 DEF Next

(* The registry lock is held exactly by the task in a locked section.      *)
LEMMA LockStep == TypeOK /\ LockInv /\ [Next]_vars => LockInv'
<1> SUFFICES ASSUME TypeOK, LockInv, [Next]_vars PROVE LockInv'
  OBVIOUS
<1> USE HandshakeAssumption, NoSlotAssumption DEF HandshakeAssumption,
         NoSlotAssumption, TypeOK, Slots, States, Pcs, PollPcs, StopPcs, ActivePcs,
         LockPcs, LockInv
<1>1. CASE UNCHANGED vars
  BY <1>1 DEF vars
<1>2. ASSUME NEW t \in Tasks, Step(t) PROVE LockInv'
  <2>1. CASE Register(t)
    BY <2>1 DEF Register, Goto, LockFree, FirstEmpty
  <2>2. CASE Unregister(t)
    BY <2>2 DEF Unregister, Goto, LockFree, SetState
  <2>3. CASE EnterNativeSafe(t)
    BY <2>3 DEF EnterNativeSafe, Goto, LockFree, SetState
  <2>4. CASE LeaveNativeSafe(t)
    BY <2>4 DEF LeaveNativeSafe, Goto
  <2>5. CASE ReenterManaged(t)
    BY <2>5 DEF ReenterManaged, Goto, LockFree, SetState
  <2>6. CASE PollRequest(t)
    BY <2>6 DEF PollRequest, Goto
  <2>7. CASE PollCollector(t)
    BY <2>7 DEF PollCollector
  <2>8. CASE PollState(t)
    BY <2>8 DEF PollState, Goto
  <2>9. CASE PollPark(t)
    BY <2>9 DEF PollPark, Goto, SetState
  <2>10. CASE PollAck(t)
    BY <2>10 DEF PollAck, Goto
  <2>11. CASE PollWake(t)
    BY <2>11 DEF PollWake, Goto
  <2>12. CASE PollResume(t)
    BY <2>12 DEF PollResume, Goto, SetState
  <2>13. CASE StopPublish(t)
    BY <2>13 DEF StopPublish, Goto, LockFree, NextEpoch, EpochFresh
  <2>14. CASE StopRequest(t)
    BY <2>14 DEF StopRequest, Goto
  <2>15. CASE ScanPass(t)
    BY <2>15 DEF ScanPass, Advance, Passes
  <2>16. CASE ScanParked(t)
    BY <2>16 DEF ScanParked, Goto, Passes
  <2>17. CASE ScanAcknowledged(t)
    BY <2>17 DEF ScanAcknowledged, Goto, Advance
  <2>18. CASE ScanRefused(t)
    BY <2>18 DEF ScanRefused, ScanFails
  <2>19. CASE ScanDone(t)
    BY <2>19 DEF ScanDone, Goto
  <2>20. CASE Recheck(t)
    BY <2>20 DEF Recheck, Goto, LockFree
  <2>21. CASE WorldStopped(t)
    BY <2>21 DEF WorldStopped, Goto
  <2>22. CASE StopWait(t)
    BY <2>22 DEF StopWait, Goto
  <2>23. CASE StopTimeout(t)
    BY <2>23 DEF StopTimeout, Goto, LockFree
  <2>24. CASE StopEnd(t)
    BY <2>24 DEF StopEnd, Goto, LockFree
  <2>25. CASE StopReleased(t)
    BY <2>25 DEF StopReleased, Goto
  <2> QED
    BY <1>2, <2>1, <2>2, <2>3, <2>4, <2>5, <2>6, <2>7, <2>8, <2>9, <2>10, <2>11, <2>12, <2>13,
       <2>14, <2>15, <2>16, <2>17, <2>18, <2>19, <2>20, <2>21, <2>22, <2>23, <2>24, <2>25
    DEF Step, Poll, Stop, Scan
<1> QED
  BY <1>1, <1>2 DEF Next

(* The slot of a registered task is not EMPTY, so Register never takes it. *)
LEMMA OwnedNotEmpty ==
    TypeOK /\ SlotInv /\ StateInv
        => \A t \in Tasks : Owned(t) => slot[t] \in Slots /\ state[slot[t]] # "EMPTY"
BY DEF TypeOK, SlotInv, StateInv, StateAt, Owned, Pcs, PollPcs, StopPcs, ActivePcs

(* The collector word names the task that is stopping the world.           *)
LEMMA CollectorIsStopping ==
    TypeOK /\ SlotInv /\ StopInv
        => \A t \in Tasks : Owned(t) /\ collector = slot[t] + 1 => pc[t] \in StopPcs
<1> SUFFICES ASSUME TypeOK, SlotInv, StopInv,
                    NEW t \in Tasks, Owned(t), collector = slot[t] + 1
             PROVE  pc[t] \in StopPcs
  OBVIOUS
<1> USE HandshakeAssumption, NoSlotAssumption DEF HandshakeAssumption, NoSlotAssumption
<1>1. slot[t] \in Slots
  BY DEF TypeOK, Owned
<1>2. PICK c \in Tasks : pc[c] \in StopPcs
  BY <1>1 DEF StopInv, Slots
<1>3. slot[c] \in Slots /\ Owned(c)
  BY <1>2 DEF SlotInv, TypeOK, Owned, StopPcs, ActivePcs
<1>4. collector = slot[c] + 1
  BY <1>2 DEF StopInv, OneCollector
<1>5. slot[c] = slot[t]
  BY <1>1, <1>3, <1>4 DEF Slots
<1> QED
  BY <1>2, <1>3, <1>5 DEF SlotInv

(* Two tasks never share a slot: Register takes an EMPTY one.              *)
LEMMA SlotStep == TypeOK /\ SlotInv /\ StateInv /\ [Next]_vars => SlotInv'
<1> SUFFICES ASSUME TypeOK, SlotInv, StateInv, [Next]_vars PROVE SlotInv'
  OBVIOUS
<1> USE HandshakeAssumption, NoSlotAssumption DEF HandshakeAssumption,
         NoSlotAssumption, TypeOK, Slots, States, Pcs, PollPcs, StopPcs, ActivePcs,
         LockPcs, SlotInv, Owned
<1>1. CASE UNCHANGED vars
  BY <1>1 DEF vars
<1>2. ASSUME NEW t \in Tasks, Step(t) PROVE SlotInv'
  <2>1. CASE Register(t)
    <3>1. PICK s \in Slots : /\ state[s] = "EMPTY"
                            /\ slot' = [slot EXCEPT ![t] = s]
                            /\ state' = [state EXCEPT ![s] = "RUNNING"]
      BY <2>1 DEF Register, Goto, LockFree, FirstEmpty
    <3>2. \A u \in Tasks : Owned(u) => slot[u] # s
      BY <3>1, OwnedNotEmpty
    <3>3. ~Owned(t) /\ pc' = [pc EXCEPT ![t] = "managed"]
      BY <2>1 DEF Register, Goto, LockFree, FirstEmpty
    <3> QED
      BY <3>1, <3>2, <3>3
  <2>2. CASE Unregister(t)
    BY <2>2 DEF Unregister, Goto, LockFree, SetState
  <2>3. CASE EnterNativeSafe(t)
    BY <2>3 DEF EnterNativeSafe, Goto, LockFree, SetState
  <2>4. CASE LeaveNativeSafe(t)
    BY <2>4 DEF LeaveNativeSafe, Goto
  <2>5. CASE ReenterManaged(t)
    BY <2>5 DEF ReenterManaged, Goto, LockFree, SetState
  <2>6. CASE PollRequest(t)
    BY <2>6 DEF PollRequest, Goto
  <2>7. CASE PollCollector(t)
    BY <2>7 DEF PollCollector
  <2>8. CASE PollState(t)
    BY <2>8 DEF PollState, Goto
  <2>9. CASE PollPark(t)
    BY <2>9 DEF PollPark, Goto, SetState
  <2>10. CASE PollAck(t)
    BY <2>10 DEF PollAck, Goto
  <2>11. CASE PollWake(t)
    BY <2>11 DEF PollWake, Goto
  <2>12. CASE PollResume(t)
    BY <2>12 DEF PollResume, Goto, SetState
  <2>13. CASE StopPublish(t)
    BY <2>13 DEF StopPublish, Goto, LockFree, NextEpoch, EpochFresh
  <2>14. CASE StopRequest(t)
    BY <2>14 DEF StopRequest, Goto
  <2>15. CASE ScanPass(t)
    BY <2>15 DEF ScanPass, Advance, Passes
  <2>16. CASE ScanParked(t)
    BY <2>16 DEF ScanParked, Goto, Passes
  <2>17. CASE ScanAcknowledged(t)
    BY <2>17 DEF ScanAcknowledged, Goto, Advance
  <2>18. CASE ScanRefused(t)
    BY <2>18 DEF ScanRefused, ScanFails
  <2>19. CASE ScanDone(t)
    BY <2>19 DEF ScanDone, Goto
  <2>20. CASE Recheck(t)
    BY <2>20 DEF Recheck, Goto, LockFree
  <2>21. CASE WorldStopped(t)
    BY <2>21 DEF WorldStopped, Goto
  <2>22. CASE StopWait(t)
    BY <2>22 DEF StopWait, Goto
  <2>23. CASE StopTimeout(t)
    BY <2>23 DEF StopTimeout, Goto, LockFree
  <2>24. CASE StopEnd(t)
    BY <2>24 DEF StopEnd, Goto, LockFree
  <2>25. CASE StopReleased(t)
    BY <2>25 DEF StopReleased, Goto
  <2> QED
    BY <1>2, <2>1, <2>2, <2>3, <2>4, <2>5, <2>6, <2>7, <2>8, <2>9, <2>10, <2>11, <2>12, <2>13,
       <2>14, <2>15, <2>16, <2>17, <2>18, <2>19, <2>20, <2>21, <2>22, <2>23, <2>24, <2>25
    DEF Step, Poll, Stop, Scan
<1> QED
  BY <1>1, <1>2 DEF Next

(* A slot's state word keeps saying where its owner is, although the       *)
(* owner writes it without the lock.                                       *)
LEMMA StateStep == TypeOK /\ SlotInv /\ StopInv /\ StateInv /\ [Next]_vars => StateInv'
<1> SUFFICES ASSUME TypeOK, SlotInv, StopInv, StateInv, [Next]_vars PROVE StateInv'
  OBVIOUS
<1> USE HandshakeAssumption, NoSlotAssumption DEF HandshakeAssumption,
         NoSlotAssumption, TypeOK, Slots, States, Pcs, PollPcs, StopPcs, ActivePcs,
         LockPcs, SlotInv, StateInv, StateAt, Owned
<1>1. CASE UNCHANGED vars
  BY <1>1 DEF vars
<1>2. ASSUME NEW t \in Tasks, Step(t) PROVE StateInv'
  <2>1. CASE Register(t)
    <3>1. PICK s \in Slots : /\ state[s] = "EMPTY"
                            /\ slot' = [slot EXCEPT ![t] = s]
                            /\ state' = [state EXCEPT ![s] = "RUNNING"]
      BY <2>1 DEF Register, Goto, LockFree, FirstEmpty
    <3>2. \A u \in Tasks : Owned(u) => slot[u] # s
      BY <3>1, OwnedNotEmpty
    <3>3. ~Owned(t) /\ pc' = [pc EXCEPT ![t] = "managed"]
      BY <2>1 DEF Register, Goto, LockFree, FirstEmpty
    <3> QED
      BY <3>1, <3>2, <3>3, SMTT(30)
  <2>2. CASE Unregister(t)
    BY <2>2 DEF Unregister, Goto, LockFree, SetState
  <2>3. CASE EnterNativeSafe(t)
    BY <2>3 DEF EnterNativeSafe, Goto, LockFree, SetState
  <2>4. CASE LeaveNativeSafe(t)
    BY <2>4 DEF LeaveNativeSafe, Goto
  <2>5. CASE ReenterManaged(t)
    BY <2>5 DEF ReenterManaged, Goto, LockFree, SetState
  <2>6. CASE PollRequest(t)
    BY <2>6, SMTT(30) DEF PollRequest, Goto
  <2>7. CASE PollCollector(t)
    <3>1. pc[t] \notin StopPcs => pc'[t] = "pollState"
      BY <2>7, CollectorIsStopping, SMTT(30) DEF PollCollector, SlotInv, Owned
    <3>2. CASE pc[t] \in StopPcs
      <4>1. collector = slot[t] + 1
        BY <3>2 DEF StopInv, OneCollector
      <4> QED
        BY <2>7, <3>2, <4>1 DEF PollCollector
    <3>3. CASE pc[t] \notin StopPcs
      BY <2>7, <3>1, <3>3 DEF PollCollector
    <3> QED
      BY <3>2, <3>3
  <2>8. CASE PollState(t)
    BY <2>8, SMTT(30) DEF PollState, Goto
  <2>9. CASE PollPark(t)
    BY <2>9 DEF PollPark, Goto, SetState
  <2>10. CASE PollAck(t)
    BY <2>10 DEF PollAck, Goto
  <2>11. CASE PollWake(t)
    BY <2>11 DEF PollWake, Goto
  <2>12. CASE PollResume(t)
    BY <2>12, SMTT(30) DEF PollResume, Goto, SetState
  <2>13. CASE StopPublish(t)
    BY <2>13, SMTT(30) DEF StopPublish, Goto, LockFree, NextEpoch, EpochFresh
  <2>14. CASE StopRequest(t)
    BY <2>14 DEF StopRequest, Goto
  <2>15. CASE ScanPass(t)
    BY <2>15 DEF ScanPass, Advance, Passes
  <2>16. CASE ScanParked(t)
    BY <2>16 DEF ScanParked, Goto, Passes
  <2>17. CASE ScanAcknowledged(t)
    BY <2>17 DEF ScanAcknowledged, Goto, Advance
  <2>18. CASE ScanRefused(t)
    BY <2>18 DEF ScanRefused, ScanFails
  <2>19. CASE ScanDone(t)
    BY <2>19 DEF ScanDone, Goto
  <2>20. CASE Recheck(t)
    BY <2>20 DEF Recheck, Goto, LockFree
  <2>21. CASE WorldStopped(t)
    BY <2>21 DEF WorldStopped, Goto
  <2>22. CASE StopWait(t)
    BY <2>22 DEF StopWait, Goto
  <2>23. CASE StopTimeout(t)
    BY <2>23 DEF StopTimeout, Goto, LockFree
  <2>24. CASE StopEnd(t)
    BY <2>24 DEF StopEnd, Goto, LockFree
  <2>25. CASE StopReleased(t)
    BY <2>25 DEF StopReleased, Goto
  <2> QED
    BY <1>2, <2>1, <2>2, <2>3, <2>4, <2>5, <2>6, <2>7, <2>8, <2>9, <2>10, <2>11, <2>12, <2>13,
       <2>14, <2>15, <2>16, <2>17, <2>18, <2>19, <2>20, <2>21, <2>22, <2>23, <2>24, <2>25
    DEF Step, Poll, Stop, Scan
<1> QED
  BY <1>1, <1>2 DEF Next

(* What a step that neither begins nor ends a stop keeps: who is between   *)
(* publication and release, ...                                            *)
PlacesKept ==
    \A c \in Tasks :
        /\ pc'[c] \in ActivePcs <=> pc[c] \in ActivePcs
        /\ pc'[c] \in StopPcs <=> pc[c] \in StopPcs
        /\ pc'[c] = "publishing" <=> pc[c] = "publishing"
        /\ pc[c] \in StopPcs => seen'[c] = seen[c]

\* ... the epochs that tasks hold in a poll, unless they just read one, ...
PollsKept ==
    \A u \in Tasks :
        pc'[u] \in PollPcs
            => seen'[u] = request \/ (pc[u] \in PollPcs /\ seen'[u] = seen[u])

\* ... and the acknowledgements, unless a poll just gave one.
AcksKept ==
    \A s \in Slots :
        state'[s] # "EMPTY" =>
            /\ state[s] # "EMPTY"
            /\ \/ ack'[s] = ack[s]
               \/ \E u \in Tasks : pc[u] \in PollPcs /\ ack'[s] = seen[u]

(* Such a step keeps StopInv: an epoch that is about to be published stays *)
(* one that nobody holds.                                                  *)
LEMMA StopKept ==
  ASSUME StopInv, PlacesKept, PollsKept, AcksKept,
         UNCHANGED <<request, collector, slot>>
  PROVE  StopInv'
<1>1. StopPcs \cap PollPcs = {} /\ "publishing" \in StopPcs /\ "publishing" \notin ActivePcs
  BY DEF StopPcs, ActivePcs, PollPcs
<1>2. OneCollector'
  <2> SUFFICES ASSUME NEW c \in Tasks, pc'[c] \in StopPcs
               PROVE  /\ collector' = slot'[c] + 1
                      /\ request' = IF pc'[c] \in ActivePcs THEN seen'[c] ELSE 0
                      /\ \A t \in Tasks \ {c} : pc'[t] \notin StopPcs
    BY DEF OneCollector
  <2>1. /\ collector = slot[c] + 1
        /\ request = IF pc[c] \in ActivePcs THEN seen[c] ELSE 0
        /\ \A t \in Tasks \ {c} : pc[t] \notin StopPcs
    BY DEF StopInv, OneCollector, PlacesKept
  <2> QED
    BY <2>1 DEF PlacesKept
<1>3. ASSUME NEW c \in Tasks, pc'[c] = "publishing"
      PROVE  EpochFresh(seen[c])'
  <2>1. pc[c] = "publishing" /\ seen'[c] = seen[c]
    BY <1>1, <1>3 DEF PlacesKept
  <2>2. EpochFresh(seen[c]) /\ seen[c] # 0 /\ request = 0
    BY <1>1, <2>1 DEF StopInv, OneCollector
  <2>3. \A u \in Tasks : pc'[u] \in PollPcs => seen'[u] # seen[c]
    BY <2>2 DEF EpochFresh, PollsKept
  <2>4. \A s \in Slots : state'[s] # "EMPTY" => ack'[s] # seen[c]
    BY <2>2 DEF EpochFresh, AcksKept
  <2> QED
    BY <2>1, <2>3, <2>4 DEF EpochFresh
<1>4. /\ request' # 0 => \E c \in Tasks : pc'[c] \in ActivePcs
      /\ collector' # 0 => \E c \in Tasks : pc'[c] \in StopPcs
  BY DEF StopInv, PlacesKept
<1>5. \A c \in Tasks : pc'[c] \in ActivePcs \cup {"publishing"} => seen'[c] # 0
  BY DEF StopInv, PlacesKept, StopPcs
<1> QED
  BY <1>2, <1>3, <1>4, <1>5 DEF StopInv

(* One stop at a time: publication needs request = 0 under the lock, and   *)
(* a release withdraws the request before it clears the collector.         *)
LEMMA StopStep == TypeOK /\ LockInv /\ SlotInv /\ StateInv /\ StopInv /\ [Next]_vars => StopInv'
<1> SUFFICES ASSUME TypeOK, LockInv, SlotInv, StateInv, StopInv, [Next]_vars PROVE StopInv'
  OBVIOUS
<1> USE HandshakeAssumption, NoSlotAssumption DEF HandshakeAssumption,
         NoSlotAssumption, TypeOK, Slots, States, Pcs, PollPcs, StopPcs, ActivePcs,
         LockPcs, LockInv, SlotInv, StopInv, OneCollector, EpochFresh, Owned
<1>1. CASE UNCHANGED vars
  BY <1>1 DEF vars
<1>2. ASSUME NEW t \in Tasks, Step(t) PROVE StopInv'
  <2>1. CASE Register(t)
    BY <2>1 DEF Register, Goto, LockFree, FirstEmpty
  <2>2. CASE Unregister(t)
    BY <2>2 DEF Unregister, Goto, LockFree, SetState
  <2>3. CASE EnterNativeSafe(t)
    BY <2>3, SMTT(30) DEF EnterNativeSafe, Goto, LockFree, SetState
  <2>4. CASE LeaveNativeSafe(t)
    BY <2>4 DEF LeaveNativeSafe, Goto
  <2>5. CASE ReenterManaged(t)
    BY <2>5 DEF ReenterManaged, Goto, LockFree, SetState
  <2>6. CASE PollRequest(t)
    <3>1. PlacesKept
      BY <2>6, SMTT(30) DEF PollRequest, Goto, PlacesKept
    <3>2. PollsKept
      BY <2>6 DEF PollRequest, Goto, PollsKept
    <3>3. AcksKept
      BY <2>6 DEF PollRequest, AcksKept
    <3>4. UNCHANGED <<request, collector, slot>>
      BY <2>6 DEF PollRequest
    <3> QED
      <4> HIDE DEF StopInv, SlotInv, LockInv
      <4> QED
        BY <3>1, <3>2, <3>3, <3>4, StopKept
  <2>7. CASE PollCollector(t)
    <3>1. PlacesKept
      <4>1. pc[t] = "pollStopped" => collector = slot[t] + 1
        OBVIOUS
      <4>2. pc[t] = "pollCollector" => collector # slot[t] + 1
        BY CollectorIsStopping DEF Owned
      <4>3. pc' = [pc EXCEPT ![t] = IF pc[t] = "pollStopped" THEN "stopped" ELSE "pollState"]
        BY <2>7, <4>1, <4>2 DEF PollCollector
      <4> QED
        BY <2>7, <4>3 DEF PollCollector, PlacesKept
    <3>2. PollsKept
      BY <2>7 DEF PollCollector, PollsKept
    <3>3. AcksKept
      BY <2>7 DEF PollCollector, AcksKept
    <3>4. UNCHANGED <<request, collector, slot>>
      BY <2>7 DEF PollCollector
    <3> QED
      <4> HIDE DEF StopInv, SlotInv, LockInv
      <4> QED
        BY <3>1, <3>2, <3>3, <3>4, StopKept
  <2>8. CASE PollState(t)
    <3>1. PlacesKept
      BY <2>8, SMTT(30) DEF PollState, Goto, PlacesKept
    <3>2. PollsKept
      BY <2>8 DEF PollState, Goto, PollsKept
    <3>3. AcksKept
      BY <2>8 DEF PollState, AcksKept
    <3>4. UNCHANGED <<request, collector, slot>>
      BY <2>8 DEF PollState
    <3> QED
      <4> HIDE DEF StopInv, SlotInv, LockInv
      <4> QED
        BY <3>1, <3>2, <3>3, <3>4, StopKept
  <2>9. CASE PollPark(t)
    <3>1. PlacesKept
      BY <2>9 DEF PollPark, Goto, PlacesKept
    <3>2. PollsKept
      BY <2>9 DEF PollPark, Goto, PollsKept
    <3>3. AcksKept
      <4>1. state[slot[t]] # "EMPTY"
        BY <2>9, OwnedNotEmpty DEF PollPark, Goto
      <4>2. \A s \in Slots : s # slot[t] => state'[s] = state[s]
        BY <2>9 DEF PollPark, SetState
      <4>3. ack' = ack
        BY <2>9 DEF PollPark
      <4> QED
        BY <4>1, <4>2, <4>3 DEF AcksKept
    <3>4. UNCHANGED <<request, collector, slot>>
      BY <2>9 DEF PollPark
    <3> QED
      <4> HIDE DEF StopInv, SlotInv, LockInv
      <4> QED
        BY <3>1, <3>2, <3>3, <3>4, StopKept
  <2>10. CASE PollAck(t)
    <3>1. PlacesKept
      BY <2>10 DEF PollAck, Goto, PlacesKept
    <3>2. PollsKept
      BY <2>10 DEF PollAck, Goto, PollsKept
    <3>3. AcksKept
      <4>1. \A s \in Slots : s # slot[t] => ack'[s] = ack[s]
        BY <2>10 DEF PollAck
      <4>2. slot[t] \in Slots => ack'[slot[t]] = seen[t]
        BY <2>10 DEF PollAck
      <4>3. pc[t] \in PollPcs /\ state' = state
        BY <2>10 DEF PollAck, Goto
      <4> QED
        BY <4>1, <4>2, <4>3 DEF AcksKept
    <3>4. UNCHANGED <<request, collector, slot>>
      BY <2>10 DEF PollAck
    <3> QED
      <4> HIDE DEF StopInv, SlotInv, LockInv
      <4> QED
        BY <3>1, <3>2, <3>3, <3>4, StopKept
  <2>11. CASE PollWake(t)
    <3>1. PlacesKept
      BY <2>11 DEF PollWake, Goto, PlacesKept
    <3>2. PollsKept
      BY <2>11 DEF PollWake, Goto, PollsKept
    <3>3. AcksKept
      BY <2>11 DEF PollWake, AcksKept
    <3>4. UNCHANGED <<request, collector, slot>>
      BY <2>11 DEF PollWake
    <3> QED
      <4> HIDE DEF StopInv, SlotInv, LockInv
      <4> QED
        BY <3>1, <3>2, <3>3, <3>4, StopKept
  <2>12. CASE PollResume(t)
    <3>1. PlacesKept
      BY <2>12 DEF PollResume, Goto, PlacesKept
    <3>2. PollsKept
      BY <2>12 DEF PollResume, Goto, PollsKept
    <3>3. AcksKept
      <4>1. state[slot[t]] # "EMPTY"
        BY <2>12, OwnedNotEmpty DEF PollResume, Goto
      <4>2. \A s \in Slots : s # slot[t] => state'[s] = state[s]
        BY <2>12 DEF PollResume, SetState
      <4>3. ack' = ack
        BY <2>12 DEF PollResume
      <4> QED
        BY <4>1, <4>2, <4>3 DEF AcksKept
    <3>4. UNCHANGED <<request, collector, slot>>
      BY <2>12 DEF PollResume
    <3> QED
      <4> HIDE DEF StopInv, SlotInv, LockInv
      <4> QED
        BY <3>1, <3>2, <3>3, <3>4, StopKept
  <2>13. CASE StopPublish(t)
    BY <2>13, SMTT(30) DEF StopPublish, Goto, LockFree, NextEpoch, EpochFresh
  <2>14. CASE StopRequest(t)
    BY <2>14 DEF StopRequest, Goto
  <2>15. CASE ScanPass(t)
    BY <2>15 DEF ScanPass, Advance, Passes
  <2>16. CASE ScanParked(t)
    <3>1. PlacesKept
      BY <2>16 DEF ScanParked, Goto, PlacesKept
    <3>2. PollsKept
      BY <2>16 DEF ScanParked, Goto, PollsKept
    <3>3. AcksKept
      BY <2>16 DEF ScanParked, AcksKept
    <3>4. UNCHANGED <<request, collector, slot>>
      BY <2>16 DEF ScanParked
    <3> QED
      <4> HIDE DEF StopInv, SlotInv, LockInv
      <4> QED
        BY <3>1, <3>2, <3>3, <3>4, StopKept
  <2>17. CASE ScanAcknowledged(t)
    <3>1. PlacesKept
      BY <2>17 DEF ScanAcknowledged, Goto, PlacesKept
    <3>2. PollsKept
      BY <2>17 DEF ScanAcknowledged, Goto, PollsKept
    <3>3. AcksKept
      BY <2>17 DEF ScanAcknowledged, AcksKept
    <3>4. UNCHANGED <<request, collector, slot>>
      BY <2>17 DEF ScanAcknowledged
    <3> QED
      <4> HIDE DEF StopInv, SlotInv, LockInv
      <4> QED
        BY <3>1, <3>2, <3>3, <3>4, StopKept
  <2>18. CASE ScanRefused(t)
    <3>1. PlacesKept
      BY <2>18 DEF ScanRefused, ScanFails, PlacesKept
    <3>2. PollsKept
      BY <2>18 DEF ScanRefused, ScanFails, PollsKept
    <3>3. AcksKept
      BY <2>18 DEF ScanRefused, AcksKept
    <3>4. UNCHANGED <<request, collector, slot>>
      BY <2>18 DEF ScanRefused
    <3> QED
      <4> HIDE DEF StopInv, SlotInv, LockInv
      <4> QED
        BY <3>1, <3>2, <3>3, <3>4, StopKept
  <2>19. CASE ScanDone(t)
    BY <2>19 DEF ScanDone, Goto
  <2>20. CASE Recheck(t)
    BY <2>20 DEF Recheck, Goto, LockFree
  <2>21. CASE WorldStopped(t)
    BY <2>21 DEF WorldStopped, Goto
  <2>22. CASE StopWait(t)
    BY <2>22 DEF StopWait, Goto
  <2>23. CASE StopTimeout(t)
    BY <2>23 DEF StopTimeout, Goto, LockFree
  <2>24. CASE StopEnd(t)
    BY <2>24 DEF StopEnd, Goto, LockFree
  <2>25. CASE StopReleased(t)
    BY <2>25 DEF StopReleased, Goto
  <2> QED
    BY <1>2, <2>1, <2>2, <2>3, <2>4, <2>5, <2>6, <2>7, <2>8, <2>9, <2>10, <2>11, <2>12, <2>13,
       <2>14, <2>15, <2>16, <2>17, <2>18, <2>19, <2>20, <2>21, <2>22, <2>23, <2>24, <2>25
    DEF Step, Poll, Stop, Scan
<1> QED
  BY <1>1, <1>2 DEF Next

(* An acknowledgement of the current request is given by a task that then  *)
(* spins until the request changes; a new request is no epoch given before. *)
LEMMA AckStep == TypeOK /\ LockInv /\ SlotInv /\ StateInv /\ StopInv /\ AckMeansParked /\ [Next]_vars => AckMeansParked'
<1> SUFFICES ASSUME TypeOK, LockInv, SlotInv, StateInv, StopInv, AckMeansParked, [Next]_vars PROVE AckMeansParked'
  OBVIOUS
<1> USE HandshakeAssumption, NoSlotAssumption DEF HandshakeAssumption,
         NoSlotAssumption, TypeOK, Slots, States, Pcs, PollPcs, StopPcs, ActivePcs,
         LockPcs, LockInv, SlotInv, StateInv, StateAt, StopInv, OneCollector, EpochFresh, AckMeansParked, Owned
<1>1. CASE UNCHANGED vars
  BY <1>1 DEF vars
<1>2. ASSUME NEW t \in Tasks, Step(t) PROVE AckMeansParked'
  <2>1. CASE Register(t)
    BY <2>1 DEF Register, Goto, LockFree, FirstEmpty
  <2>2. CASE Unregister(t)
    BY <2>2 DEF Unregister, Goto, LockFree, SetState
  <2>3. CASE EnterNativeSafe(t)
    BY <2>3 DEF EnterNativeSafe, Goto, LockFree, SetState
  <2>4. CASE LeaveNativeSafe(t)
    BY <2>4 DEF LeaveNativeSafe, Goto
  <2>5. CASE ReenterManaged(t)
    BY <2>5 DEF ReenterManaged, Goto, LockFree, SetState
  <2>6. CASE PollRequest(t)
    BY <2>6 DEF PollRequest, Goto
  <2>7. CASE PollCollector(t)
    BY <2>7 DEF PollCollector
  <2>8. CASE PollState(t)
    BY <2>8 DEF PollState, Goto
  <2>9. CASE PollPark(t)
    BY <2>9 DEF PollPark, Goto, SetState
  <2>10. CASE PollAck(t)
    BY <2>10 DEF PollAck, Goto
  <2>11. CASE PollWake(t)
    BY <2>11 DEF PollWake, Goto
  <2>12. CASE PollResume(t)
    BY <2>12 DEF PollResume, Goto, SetState
  <2>13. CASE StopPublish(t)
    BY <2>13 DEF StopPublish, Goto, LockFree, NextEpoch, EpochFresh
  <2>14. CASE StopRequest(t)
    <3>1. \A u \in Tasks : slot[u] # NoSlot => ack[slot[u]] # seen[t]
      BY <2>14, OwnedNotEmpty, SMTT(30) DEF StopRequest, Goto
    <3> QED
      BY <2>14, <3>1 DEF StopRequest, Goto
  <2>15. CASE ScanPass(t)
    BY <2>15 DEF ScanPass, Advance, Passes
  <2>16. CASE ScanParked(t)
    BY <2>16, SMTT(30) DEF ScanParked, Goto, Passes
  <2>17. CASE ScanAcknowledged(t)
    BY <2>17 DEF ScanAcknowledged, Goto, Advance
  <2>18. CASE ScanRefused(t)
    BY <2>18 DEF ScanRefused, ScanFails
  <2>19. CASE ScanDone(t)
    BY <2>19 DEF ScanDone, Goto
  <2>20. CASE Recheck(t)
    BY <2>20 DEF Recheck, Goto, LockFree
  <2>21. CASE WorldStopped(t)
    BY <2>21 DEF WorldStopped, Goto
  <2>22. CASE StopWait(t)
    BY <2>22 DEF StopWait, Goto
  <2>23. CASE StopTimeout(t)
    BY <2>23 DEF StopTimeout, Goto, LockFree
  <2>24. CASE StopEnd(t)
    BY <2>24 DEF StopEnd, Goto, LockFree
  <2>25. CASE StopReleased(t)
    BY <2>25 DEF StopReleased, Goto
  <2> QED
    BY <1>2, <2>1, <2>2, <2>3, <2>4, <2>5, <2>6, <2>7, <2>8, <2>9, <2>10, <2>11, <2>12, <2>13,
       <2>14, <2>15, <2>16, <2>17, <2>18, <2>19, <2>20, <2>21, <2>22, <2>23, <2>24, <2>25
    DEF Step, Poll, Stop, Scan
<1> QED
  BY <1>1, <1>2 DEF Next

(* A slot that bmx_gc_all_stopped has passed stays stopped until the       *)
(* A step that moves no cursor keeps ScanInv if no scan begins in it and no *)
(* slot that a scan has passed ceases to be stopped.                       *)
LEMMA ScanKept ==
  ASSUME ScanInv, UNCHANGED <<slot, cursor>>,
         \A c \in Tasks :
            /\ pc'[c] \in ActivePcs => pc[c] \in ActivePcs /\ seen'[c] = seen[c]
            /\ pc'[c] \in {"stopped", "pollStopped"} => HoldsWorld(c)
            /\ pc'[c] \in {"scanAck", "recheckAck"} => pc[c] = pc'[c],
         \A c \in Tasks, s \in Slots :
            pc[c] \in ActivePcs /\ SlotStopped(s, seen[c])
               => \/ state'[s] \in {"EMPTY", "NATIVE_SAFE"}
                  \/ state'[s] = "PARKED" /\ ack'[s] = seen[c]
  PROVE  ScanInv'
BY DEF ScanInv, SlotStopped, HoldsWorld

(* request is withdrawn: nobody leaves while it is up.                     *)
LEMMA ScanStep == TypeOK /\ LockInv /\ SlotInv /\ StateInv /\ StopInv /\ AckMeansParked /\ ScanInv /\ [Next]_vars => ScanInv'
<1> SUFFICES ASSUME TypeOK, LockInv, SlotInv, StateInv, StopInv, AckMeansParked, ScanInv, [Next]_vars PROVE ScanInv'
  OBVIOUS
<1> USE HandshakeAssumption, NoSlotAssumption DEF HandshakeAssumption,
         NoSlotAssumption, TypeOK, Slots, States, Pcs, PollPcs, StopPcs, ActivePcs,
         LockPcs, SlotInv, StateInv, StateAt, StopInv, OneCollector, AckMeansParked, ScanInv, SlotStopped, HoldsWorld, Owned
<1>1. CASE UNCHANGED vars
  BY <1>1 DEF vars
<1>2. ASSUME NEW t \in Tasks, Step(t) PROVE ScanInv'
  <2>1. CASE Register(t)
    BY <2>1 DEF Register, Goto, LockFree, FirstEmpty
  <2>2. CASE Unregister(t)
    BY <2>2 DEF Unregister, Goto, LockFree, SetState
  <2>3. CASE EnterNativeSafe(t)
    BY <2>3 DEF EnterNativeSafe, Goto, LockFree, SetState
  <2>4. CASE LeaveNativeSafe(t)
    BY <2>4 DEF LeaveNativeSafe, Goto
  <2>5. CASE ReenterManaged(t)
    <3>1. request = 0 /\ \A c \in Tasks : pc[c] \notin ActivePcs
      BY <2>5 DEF ReenterManaged
    <3>2. pc' = [pc EXCEPT ![t] = "managed"] /\ UNCHANGED <<slot, cursor>>
      BY <2>5 DEF ReenterManaged, Goto
    <3> QED
      <4> HIDE DEF ScanInv, StateInv, StopInv, AckMeansParked, SlotInv, OneCollector
      <4> QED
        BY <3>1, <3>2, ScanKept
  <2>6. CASE PollRequest(t)
    BY <2>6, SMTT(30) DEF PollRequest, Goto
  <2>7. CASE PollCollector(t)
    <3>a. pc[t] = "pollCollector" => collector # slot[t] + 1
      BY CollectorIsStopping
    <3>1. \A c \in Tasks : /\ pc'[c] \in ActivePcs <=> pc[c] \in ActivePcs
                           /\ HoldsWorld(c)' => HoldsWorld(c)
                           /\ pc'[c] \notin {"scanAck", "recheckAck"} \/ pc'[c] = pc[c]
      BY <2>7, <3>a DEF PollCollector
    <3>2. \A c \in Tasks : pc[c] \in ActivePcs => seen'[c] = seen[c]
      BY <2>7 DEF PollCollector
    <3>3. UNCHANGED <<state, ack, slot, cursor>>
      BY <2>7 DEF PollCollector
    <3> QED
      BY <3>1, <3>2, <3>3
  <2>8. CASE PollState(t)
    <3>1. \A c \in Tasks : /\ pc'[c] \in ActivePcs <=> pc[c] \in ActivePcs
                           /\ HoldsWorld(c)' => HoldsWorld(c)
                           /\ pc'[c] \notin {"scanAck", "recheckAck"} \/ pc'[c] = pc[c]
      BY <2>8 DEF PollState, Goto
    <3>2. \A c \in Tasks : pc[c] \in ActivePcs => seen'[c] = seen[c]
      BY <2>8 DEF PollState, Goto
    <3>3. UNCHANGED <<state, ack, slot, cursor>>
      BY <2>8 DEF PollState, Goto
    <3> QED
      BY <3>1, <3>2, <3>3
  <2>9. CASE PollPark(t)
    <3>1. \A c \in Tasks : /\ pc'[c] \in ActivePcs => pc[c] \in ActivePcs /\ seen'[c] = seen[c]
                           /\ pc'[c] \in {"stopped", "pollStopped"} => HoldsWorld(c)
                           /\ pc'[c] \in {"scanAck", "recheckAck"} => pc[c] = pc'[c]
      BY <2>9 DEF PollPark, Goto
    <3>2. state[slot[t]] = "RUNNING"
      BY <2>9 DEF PollPark, Goto
    <3>3. \A s \in Slots : s # slot[t] => state'[s] = state[s]
      BY <2>9 DEF PollPark, SetState
    <3>4. UNCHANGED <<ack, slot, cursor>>
      BY <2>9 DEF PollPark
    <3>5. \A s \in Slots : \A e : SlotStopped(s, e) => state'[s] = state[s] /\ ack'[s] = ack[s]
      <4> HIDE DEF ScanInv, StateInv, StopInv, AckMeansParked, SlotInv, OneCollector
      <4> QED
        BY <3>2, <3>3, <3>4
    <3> QED
      <4> HIDE DEF ScanInv, StateInv, StopInv, AckMeansParked, SlotInv, OneCollector
      <4> QED
        BY <3>1, <3>4, <3>5, ScanKept
  <2>10. CASE PollAck(t)
    <3>1. \A c \in Tasks : /\ pc'[c] \in ActivePcs => pc[c] \in ActivePcs /\ seen'[c] = seen[c]
                           /\ pc'[c] \in {"stopped", "pollStopped"} => HoldsWorld(c)
                           /\ pc'[c] \in {"scanAck", "recheckAck"} => pc[c] = pc'[c]
      BY <2>10 DEF PollAck, Goto
    <3>2. pc[t] = "pollAck" /\ state[slot[t]] = "PARKED" /\ slot[t] # NoSlot
      BY <2>10 DEF PollAck, Goto
    <3>3. \A c \in Tasks : pc[c] \in ActivePcs => ack[slot[t]] # seen[c]
      <4>1. \A c \in Tasks : pc[c] \in ActivePcs => request = seen[c] /\ request # 0
        OBVIOUS
      <4>2. request # 0 => ack[slot[t]] # request
        BY <3>2
      <4> QED
        BY <4>1, <4>2
    <3>4. \A s \in Slots : s # slot[t] => ack'[s] = ack[s]
      BY <2>10 DEF PollAck
    <3>5. UNCHANGED <<state, slot, cursor>>
      BY <2>10 DEF PollAck
    <3>6. \A c \in Tasks, s \in Slots :
             pc[c] \in ActivePcs /\ SlotStopped(s, seen[c]) => s # slot[t]
      <4> HIDE DEF ScanInv, StateInv, StopInv, AckMeansParked, SlotInv, OneCollector
      <4> QED
        BY <3>2, <3>3
    <3> QED
      <4> HIDE DEF ScanInv, StateInv, StopInv, AckMeansParked, SlotInv, OneCollector
      <4> QED
        BY <3>1, <3>4, <3>5, <3>6, ScanKept
  <2>11. CASE PollWake(t)
    BY <2>11 DEF PollWake, Goto
  <2>12. CASE PollResume(t)
    <3>1. \A c \in Tasks : pc[c] \in ActivePcs => ~SlotStopped(slot[t], seen[c])
      BY <2>12, SMTT(30) DEF PollResume, Goto, SetState
    <3>2. \A c \in Tasks : /\ pc'[c] \in ActivePcs => pc[c] \in ActivePcs /\ seen'[c] = seen[c]
                           /\ pc'[c] \in {"stopped", "pollStopped"} => HoldsWorld(c)
                           /\ pc'[c] \in {"scanAck", "recheckAck"} => pc[c] = pc'[c]
      BY <2>12 DEF PollResume, Goto
    <3>3. \A s \in Slots : s # slot[t] => state'[s] = state[s]
      BY <2>12 DEF PollResume, SetState
    <3>4. UNCHANGED <<ack, slot, cursor>>
      BY <2>12 DEF PollResume
    <3>5. \A c \in Tasks, s \in Slots :
             pc[c] \in ActivePcs /\ SlotStopped(s, seen[c]) => s # slot[t]
      <4> HIDE DEF ScanInv, StateInv, StopInv, AckMeansParked, SlotInv, OneCollector, SlotStopped
      <4> QED
        BY <3>1
    <3> QED
      <4> HIDE DEF ScanInv, StateInv, StopInv, AckMeansParked, SlotInv, OneCollector
      <4> QED
        BY <3>2, <3>3, <3>4, <3>5, ScanKept
  <2>13. CASE StopPublish(t)
    BY <2>13 DEF StopPublish, Goto, LockFree, NextEpoch, EpochFresh
  <2>14. CASE StopRequest(t)
    BY <2>14 DEF StopRequest, Goto
  <2>15. CASE ScanPass(t)
    <3>1. \A c \in Tasks \ {t} : pc[c] \notin ActivePcs
      BY <2>15 DEF ScanPass, Advance, Passes
    <3>2. cursor' = [cursor EXCEPT ![t] = cursor[t] + 1] /\ cursor[t] \in Slots
      BY <2>15 DEF ScanPass, Advance, Passes
    <3>3. cursor[t] = slot[t] \/ SlotStopped(cursor[t], seen[t])
      BY <2>15 DEF ScanPass, Advance, Passes
    <3>4. UNCHANGED <<state, ack, slot, seen, pc>> /\ pc[t] \in {"scan", "recheck"}
      BY <2>15 DEF ScanPass, Advance, Passes
    <3>5. \A c \in Tasks : pc[c] \in ActivePcs => c = t
      BY <3>1
    <3>6. \A s \in Slots : s < cursor[t] + 1 => s < cursor[t] \/ s = cursor[t]
      BY <3>2
    <3>7. \A s \in Slots : s < cursor'[t] => s = slot[t] \/ SlotStopped(s, seen[t])
      BY <3>2, <3>3, <3>4, <3>6, SMTT(30)
    <3> QED
      <4> HIDE DEF StateInv, StopInv, AckMeansParked, SlotInv, OneCollector
      <4> QED
        BY <3>4, <3>5, <3>7
  <2>16. CASE ScanParked(t)
    <3>1. \A c \in Tasks \ {t} : pc[c] \notin ActivePcs
      BY <2>16 DEF ScanParked, Goto, Passes
    <3>2. cursor[t] \in Slots /\ UNCHANGED <<state, ack, slot, seen, cursor>>
      BY <2>16 DEF ScanParked, Goto, Passes
    <3>3. pc[t] \in {"scan", "recheck"}
      BY <2>16 DEF ScanParked, Goto, Passes
    <3>4. pc' = [pc EXCEPT ![t] = pc'[t]] /\ pc'[t] \in {"scanAck", "recheckAck"}
      BY <2>16 DEF ScanParked, Goto, Passes
    <3> QED
      BY <3>1, <3>2, <3>3, <3>4, SMTT(30)
  <2>17. CASE ScanAcknowledged(t)
    <3>1. \A c \in Tasks \ {t} : pc[c] \notin ActivePcs
      BY <2>17 DEF ScanAcknowledged, Goto, Advance
    <3>2. pc[t] \in {"scanAck", "recheckAck"} /\ cursor[t] \in Slots
      BY <2>17 DEF ScanAcknowledged, Goto, Advance
    <3>3. ack[cursor[t]] = request /\ request # 0 /\ seen[t] = request
      BY <2>17, <3>2 DEF ScanAcknowledged
    <3>4. SlotStopped(cursor[t], seen[t])
      <4>1. CASE state[cursor[t]] = "EMPTY"
        BY <4>1
      <4>2. CASE state[cursor[t]] # "EMPTY"
        <5>1. PICK u \in Tasks : slot[u] = cursor[t]
          BY <4>2, <3>2
        <5>2. pc[u] = "parked"
          BY <5>1, <3>2, <3>3
        <5> QED
          BY <5>1, <5>2, <3>2, <3>3
      <4> QED
        BY <4>1, <4>2
    <3>5. cursor' = [cursor EXCEPT ![t] = cursor[t] + 1]
      BY <2>17 DEF ScanAcknowledged, Goto, Advance
    <3>6. pc' = [pc EXCEPT ![t] = pc'[t]] /\ pc'[t] \in {"scan", "recheck"}
      BY <2>17 DEF ScanAcknowledged, Goto, Advance
    <3>7. UNCHANGED <<state, ack, slot, seen>>
      BY <2>17 DEF ScanAcknowledged, Goto, Advance
    <3>8. \A s \in Slots : s < cursor[t] + 1 => s < cursor[t] \/ s = cursor[t]
      OBVIOUS
    <3>9. \A s \in Slots : s < cursor'[t] => s = slot[t] \/ SlotStopped(s, seen[t])
      BY <3>2, <3>4, <3>5, <3>8, SMTT(30)
    <3> QED
      BY <3>1, <3>5, <3>6, <3>7, <3>9, SMTT(30)
  <2>18. CASE ScanRefused(t)
    BY <2>18 DEF ScanRefused, ScanFails
  <2>19. CASE ScanDone(t)
    BY <2>19 DEF ScanDone, Goto
  <2>20. CASE Recheck(t)
    BY <2>20 DEF Recheck, Goto, LockFree
  <2>21. CASE WorldStopped(t)
    BY <2>21 DEF WorldStopped, Goto
  <2>22. CASE StopWait(t)
    BY <2>22 DEF StopWait, Goto
  <2>23. CASE StopTimeout(t)
    BY <2>23 DEF StopTimeout, Goto, LockFree
  <2>24. CASE StopEnd(t)
    BY <2>24 DEF StopEnd, Goto, LockFree
  <2>25. CASE StopReleased(t)
    BY <2>25 DEF StopReleased, Goto
  <2> QED
    BY <1>2, <2>1, <2>2, <2>3, <2>4, <2>5, <2>6, <2>7, <2>8, <2>9, <2>10, <2>11, <2>12, <2>13,
       <2>14, <2>15, <2>16, <2>17, <2>18, <2>19, <2>20, <2>21, <2>22, <2>23, <2>24, <2>25
    DEF Step, Poll, Stop, Scan
<1> QED
  BY <1>1, <1>2 DEF Next

-----------------------------------------------------------------------------
(* Initially all slots are EMPTY, all words 0 and no task is inside.       *)
LEMMA InitIInv == Init => IInv
BY HandshakeAssumption, NoSlotAssumption
   DEF Init, IInv, HandshakeAssumption, NoSlotAssumption, TypeOK, LockInv,
       SlotInv, StateInv, StateAt, StopInv, OneCollector, AckMeansParked,
       ScanInv, HoldsWorld, Owned, Slots, States, Pcs, PollPcs, StopPcs,
       ActivePcs, LockPcs

(* IInv is inductive; each conjunct is preserved by its own lemma.         *)
LEMMA StepIInv == IInv /\ [Next]_vars => IInv'
BY TypeStep, LockStep, SlotStep, StateStep, StopStep, AckStep, ScanStep DEF IInv

(* IInv is an invariant of the handshake.                                  *)
THEOREM Inductive == Spec => []IInv
BY InitIInv, StepIInv, PTL DEF Spec

(* Type correctness: every word of the handshake and every local variable  *)
(* stays in its range, the epoch counter included.                         *)
THEOREM TypeCorrect == Spec => []TypeOK
<1>1. IInv => TypeOK
  BY DEF IInv
<1> QED
  BY <1>1, Inductive, PTL

(* A stale acknowledgement never satisfies bmx_gc_all_stopped.             *)
THEOREM AcknowledgementsAreCurrent == Spec => []AckMeansParked
<1>1. IInv => AckMeansParked
  BY DEF IInv
<1> QED
  BY <1>1, Inductive, PTL

(* Two stops never overlap, and the words others read name the one there is.*)
THEOREM StopsExclude == Spec => []OneCollector
<1>1. IInv => OneCollector
  BY DEF IInv, StopInv
<1> QED
  BY <1>1, Inductive, PTL

(* Where the other tasks are when the world is held: in a scanned slot a   *)
(* task is out, in native-safe code, or parked with this acknowledgement.  *)
LEMMA StoppedPlaces == IInv => NoMutatorWhileStopped
<1> SUFFICES ASSUME IInv, NEW c \in Tasks, NEW t \in Tasks, HoldsWorld(c), t # c
             PROVE  pc[t] \in {"out", "native", "leaving", "pollCollector",
                                "pollState", "parked"}
  BY DEF NoMutatorWhileStopped
<1> USE DEF IInv, HoldsWorld
<1>1. CASE ~Owned(t)
  BY <1>1 DEF SlotInv
<1>2. CASE Owned(t)
  <2>1. slot[t] \in Slots /\ slot[t] < Capacity /\ slot[t] # slot[c]
    BY <1>2, HandshakeAssumption DEF SlotInv, TypeOK, Owned, Slots, HandshakeAssumption
  <2>2. SlotStopped(slot[t], seen[c])
    BY <2>1 DEF ScanInv, HoldsWorld, ActivePcs
  <2>3. request # 0 /\ seen[c] = request /\ pc[t] \notin StopPcs
    BY DEF StopInv, OneCollector, StopPcs, ActivePcs
  <2>4. StateAt(pc[t], state[slot[t]])
    BY <1>2 DEF StateInv
  <2>5. state[slot[t]] # "EMPTY"
    BY <1>2, OwnedNotEmpty
  <2>6. CASE state[slot[t]] = "NATIVE_SAFE"
    BY <2>3, <2>4, <2>6 DEF StateAt, TypeOK, Pcs, PollPcs
  <2>7. CASE state[slot[t]] = "PARKED" /\ ack[slot[t]] = request
    BY <1>2, <2>3, <2>7 DEF AckMeansParked, Owned
  <2> QED
    BY <2>2, <2>3, <2>5, <2>6, <2>7 DEF SlotStopped
<1> QED
  BY <1>1, <1>2

(* While stop_begin's caller holds the world, no other task runs managed   *)
(* code (MULTICORE_GC_DESIGN.md, invariant 1).                             *)
THEOREM WorldIsStopped == Spec => []NoMutatorWhileStopped
BY Inductive, StoppedPlaces, PTL

(* The only way into managed code under a request is the end of a poll     *)
(* that answered an earlier one.                                           *)
LEMMA EntryStep ==
    ASSUME IInv, NEW u \in Tasks, Step(u), request # 0,
           NEW t \in Tasks, pc'[t] = "managed", pc[t] # "managed"
    PROVE  pc[t] = "waking" /\ ack[slot[t]] # request
<1>1. pc[t] \in {"out", "leaving", "waking", "releasing"} /\ t = u
  BY DEF IInv, TypeOK, Step, Poll, Stop, Scan, Goto, Register, Unregister,
         EnterNativeSafe, LeaveNativeSafe, ReenterManaged, PollRequest,
         PollCollector, PollState, PollPark, PollAck, PollWake, PollResume,
         StopPublish, StopRequest, ScanPass, ScanParked, ScanAcknowledged,
         ScanRefused, ScanDone, Recheck, WorldStopped, StopWait, StopTimeout,
         StopEnd, StopReleased
<1>2. pc[t] \notin {"out", "leaving"}
  BY <1>1 DEF Step, Poll, Stop, Scan, Goto, Register, Unregister,
         EnterNativeSafe, LeaveNativeSafe, ReenterManaged, PollRequest,
         PollCollector, PollState, PollPark, PollAck, PollWake, PollResume,
         StopPublish, StopRequest, ScanPass, ScanParked, ScanAcknowledged,
         ScanRefused, ScanFails, ScanDone, Recheck, WorldStopped, StopWait,
         StopTimeout, StopEnd, StopReleased
<1>3. pc[t] # "releasing"
  BY DEF IInv, StopInv, OneCollector, StopPcs, ActivePcs
<1>4. pc[t] = "waking"
  BY <1>1, <1>2, <1>3
<1>5. Owned(t)
  BY <1>4 DEF IInv, SlotInv
<1> QED
  BY <1>4, <1>5 DEF IInv, AckMeansParked, Owned

(* Under a request the only steps that touch a slot word are the entry     *)
(* into native-safe code and the first and the last store of a poll.       *)
LEMMA SlotWordsStep ==
    ASSUME IInv, NEW u \in Tasks, Step(u), request # 0
    PROVE  \/ state' = state
           \/ EnterNativeSafe(u)
           \/ PollPark(u)
           \/ PollResume(u)
BY DEF Step, Poll, Stop, Scan, Goto, Register, Unregister,
       LeaveNativeSafe, ReenterManaged, PollRequest,
       PollCollector, PollState, PollAck, PollWake,
       StopPublish, StopRequest, ScanPass, ScanParked, ScanAcknowledged,
       ScanRefused, ScanDone, Recheck, WorldStopped, StopWait, StopTimeout,
       StopEnd, StopReleased

(* None of the three takes or gives up a slot, and the last one is left    *)
(* from PARKED by a task whose answer is not to this request.              *)
LEMMA SlotsUnderRequest ==
    ASSUME IInv, NEW u \in Tasks, Step(u), request # 0, NEW s \in Slots
    PROVE  /\ (state'[s] = "EMPTY") = (state[s] = "EMPTY")
           /\ state'[s] = "RUNNING" /\ state[s] # "RUNNING"
                => state[s] = "PARKED" /\ ack[s] # request
<1> USE DEF IInv
<1>1. CASE state' = state
  BY <1>1
<1>2. CASE EnterNativeSafe(u)
  BY <1>2 DEF EnterNativeSafe, SetState, TypeOK
<1>3. CASE PollPark(u)
  <2>1. Owned(u) /\ StateAt(pc[u], state[slot[u]]) /\ pc[u] = "pollPark"
    BY <1>3 DEF PollPark, Goto, SlotInv, StateInv
  <2>2. state[slot[u]] = "RUNNING"
    BY <2>1 DEF StateAt, PollPcs
  <2> QED
    BY <1>3, <2>2 DEF PollPark, SetState, TypeOK
<1>4. CASE PollResume(u)
  <2>1. Owned(u) /\ StateAt(pc[u], state[slot[u]]) /\ pc[u] = "waking"
    BY <1>4 DEF PollResume, Goto, SlotInv, StateInv
  <2>2. state[slot[u]] = "PARKED"
    BY <2>1 DEF StateAt, PollPcs
  <2>3. ack[slot[u]] # request
    BY <2>1 DEF AckMeansParked, Owned
  <2> QED
    BY <1>4, <2>2, <2>3 DEF PollResume, SetState, TypeOK
<1> QED
  BY <1>1, <1>2, <1>3, <1>4, SlotWordsStep

(* No slot is taken, given up or set RUNNING and no task enters managed    *)
(* code while a stop is requested, except at the end of a poll that still  *)
(* answers an earlier request and so is not counted as stopped.            *)
THEOREM NobodyEnters == Spec => NoEntryDuringRequest
<1> DEFINE Kept ==
        request # 0 =>
          /\ \A s \in Slots :
                /\ (state'[s] = "EMPTY") = (state[s] = "EMPTY")
                /\ state'[s] = "RUNNING" /\ state[s] # "RUNNING"
                      => state[s] = "PARKED" /\ ack[s] # request
          /\ \A t \in Tasks :
                pc'[t] = "managed" /\ pc[t] # "managed"
                    => pc[t] = "waking" /\ ack[slot[t]] # request
<1>1. IInv /\ [Next]_vars => [Kept]_vars
  BY EntryStep, SlotsUnderRequest DEF Next
<1> QED
  BY <1>1, Inductive, PTL DEF Spec, NoEntryDuringRequest

-----------------------------------------------------------------------------
(* Refinement                                                              *)

(* The refinement's stopper is the task that holds the world.              *)
LEMMA StopperIs ==
    IInv => /\ \A c \in Tasks : HoldsWorld(c) => stopperBar = c
            /\ (\A c \in Tasks : ~HoldsWorld(c)) => stopperBar = NoTask
BY DEF IInv, StopInv, OneCollector, HoldsWorld, stopperBar, StopPcs, ActivePcs

(* The same of the next state.                                             *)
LEMMA StopperIsNext ==
    IInv' => /\ \A c \in Tasks : HoldsWorld(c)' => stopperBar' = c
             /\ (\A c \in Tasks : ~HoldsWorld(c)') => stopperBar' = NoTask
BY DEF IInv, StopInv, OneCollector, HoldsWorld, stopperBar, StopPcs, ActivePcs

(* While no request is up nobody holds the world.                          *)
LEMMA NoRequestNoStopper ==
    IInv /\ request = 0 => \A c \in Tasks : ~HoldsWorld(c)
BY DEF IInv, StopInv, OneCollector, HoldsWorld, StopPcs, ActivePcs

(* Initial states map to initial states of StopTheWorld.                   *)
LEMMA InitRefines == Init => World!Init
BY HandshakeAssumption
   DEF Init, World!Init, ModeOf, stopperBar, HoldsWorld, HandshakeAssumption

(* Every handshake step maps to a step of StopTheWorld or to a stutter:    *)
(* returning to managed code is Resume, the second scan's end is Grant.    *)
LEMMA StepRefines == IInv /\ IInv' /\ [Next]_vars => [World!Next]_World!vars
<1> SUFFICES ASSUME IInv, IInv', [Next]_vars PROVE [World!Next]_World!vars
  OBVIOUS
<1> DEFINE modeBar == [t \in Tasks |-> ModeOf(pc[t])]
<1> USE DEF Goto
<1>1. CASE UNCHANGED vars
  BY <1>1 DEF vars, World!vars, stopperBar, HoldsWorld
<1>2. ASSUME NEW t \in Tasks, Step(t) PROVE [World!Next]_World!vars
  <2>t. pc \in [Tasks -> Pcs] /\ pc' \in [Tasks -> Pcs]
    BY DEF IInv, TypeOK
  <2>s. stopperBar' = stopperBar \/ \E c \in Tasks : HoldsWorld(c)' # HoldsWorld(c)
    BY DEF stopperBar
  <2>m. ASSUME NEW p, pc' = [pc EXCEPT ![t] = p]
        PROVE  modeBar' = [modeBar EXCEPT ![t] = ModeOf(p)]
    BY <2>m, <2>t
  <2>1. CASE Register(t)
    <3>1. stopperBar = NoTask /\ stopperBar' = NoTask
      <4>1. \A c \in Tasks : ~HoldsWorld(c) /\ ~HoldsWorld(c)'
        BY <2>1, <2>t, NoRequestNoStopper DEF Register, HoldsWorld
      <4> QED
        BY <4>1, StopperIs, StopperIsNext
    <3>2. modeBar[t] = "out" /\ modeBar' = [modeBar EXCEPT ![t] = "run"]
      BY <2>1, <2>m DEF Register, ModeOf
    <3> QED
      BY <3>1, <3>2 DEF World!Next, World!Join, World!Become
  <2>2. CASE Unregister(t)
    <3>1. stopperBar = NoTask /\ stopperBar' = NoTask
      <4>1. \A c \in Tasks : ~HoldsWorld(c) /\ ~HoldsWorld(c)'
        BY <2>2, <2>t, NoRequestNoStopper DEF Unregister, HoldsWorld
      <4> QED
        BY <4>1, StopperIs, StopperIsNext
    <3>2. modeBar[t] = "run" /\ modeBar' = [modeBar EXCEPT ![t] = "out"]
      BY <2>2, <2>m DEF Unregister, ModeOf
    <3> QED
      BY <3>1, <3>2 DEF World!Next, World!Leave, World!Become
  <2>3. CASE EnterNativeSafe(t) \/ StopPublish(t)
              \/ (PollRequest(t) /\ pc[t] = "managed")
    <3>1. \A c \in Tasks : HoldsWorld(c)' = HoldsWorld(c)
      BY <2>3, <2>t DEF EnterNativeSafe, StopPublish, PollRequest, HoldsWorld
    <3>2. PICK p \in {"native", "publishing", "pollCollector"} :
             pc' = [pc EXCEPT ![t] = p]
      BY <2>3 DEF EnterNativeSafe, StopPublish, PollRequest
    <3>3. modeBar[t] = "run" /\ modeBar' = [modeBar EXCEPT ![t] = "held"]
      BY <2>3, <2>m, <3>2 DEF EnterNativeSafe, StopPublish, PollRequest, ModeOf
    <3> QED
      BY <2>s, <3>1, <3>3 DEF World!Next, World!Hold, World!Become
  <2>4. CASE ReenterManaged(t) \/ PollResume(t) \/ StopReleased(t)
    <3>1. stopperBar = NoTask
      <4>1. CASE request = 0
        BY <4>1, StopperIs, NoRequestNoStopper
      <4>2. CASE request # 0
        <5>1. pc[t] = "waking"
          BY <2>4, <4>2
             DEF ReenterManaged, PollResume, StopReleased, IInv, StopInv,
                 OneCollector, StopPcs, ActivePcs
        <5>2. \A c \in Tasks : ~HoldsWorld(c)
          BY <5>1, StoppedPlaces DEF NoMutatorWhileStopped, HoldsWorld
        <5> QED
          BY <5>2, StopperIs
      <4> QED
        BY <4>1, <4>2
    <3>2. \A c \in Tasks : HoldsWorld(c)' = HoldsWorld(c)
      BY <2>4, <2>t DEF ReenterManaged, PollResume, StopReleased, HoldsWorld
    <3>3. modeBar[t] = "held" /\ modeBar' = [modeBar EXCEPT ![t] = "run"]
      BY <2>4, <2>m DEF ReenterManaged, PollResume, StopReleased, ModeOf
    <3> QED
      BY <2>s, <3>1, <3>2, <3>3 DEF World!Next, World!Resume, World!Become
  <2>5. CASE WorldStopped(t)
    <3>1. HoldsWorld(t)' /\ ~HoldsWorld(t)
      BY <2>5, <2>t DEF WorldStopped, HoldsWorld
    <3>2. \A c \in Tasks \ {t} : ~HoldsWorld(c)
      BY <2>5 DEF WorldStopped, HoldsWorld, IInv, StopInv, OneCollector,
                  StopPcs, ActivePcs
    <3>3. stopperBar = NoTask /\ stopperBar' = t
      BY <3>1, <3>2, StopperIs, StopperIsNext
    <3>4. modeBar' = modeBar /\ modeBar[t] = "held"
      BY <2>5, <2>t DEF WorldStopped, ModeOf
    <3>5. \A u \in Tasks : modeBar'[u] # "run"
      <4>1. NoMutatorWhileStopped'
        BY StoppedPlaces, PTL
      <4> QED
        BY <3>1, <4>1, <2>5, <2>t
           DEF WorldStopped, NoMutatorWhileStopped, HoldsWorld, ModeOf
    <3> QED
      BY <3>3, <3>4, <3>5 DEF World!Next, World!Grant
  <2>6. CASE StopEnd(t)
    <3>1. HoldsWorld(t) /\ ~HoldsWorld(t)'
      BY <2>6, <2>t DEF StopEnd, HoldsWorld
    <3>2. \A c \in Tasks \ {t} : ~HoldsWorld(c)'
      BY <2>6, <2>t DEF StopEnd, HoldsWorld, IInv, StopInv, OneCollector,
                  StopPcs, ActivePcs
    <3>3. stopperBar = t /\ stopperBar' = NoTask
      BY <3>1, <3>2, StopperIs, StopperIsNext
    <3>4. modeBar' = modeBar
      BY <2>6, <2>t DEF StopEnd, ModeOf
    <3> QED
      BY <3>3, <3>4 DEF World!Next, World!Yield
  <2>7. CASE \/ LeaveNativeSafe(t) \/ PollCollector(t) \/ PollState(t)
             \/ PollRequest(t) /\ pc[t] # "managed"
             \/ PollPark(t) \/ PollAck(t) \/ PollWake(t) \/ StopRequest(t)
             \/ Scan(t) \/ StopWait(t) \/ StopTimeout(t)
    <3>1. modeBar' = modeBar
      BY <2>7, <2>t
         DEF LeaveNativeSafe, PollCollector, PollState, PollRequest, PollPark,
             PollAck, PollWake, StopRequest, Scan, ScanPass, ScanParked,
             ScanAcknowledged, ScanRefused, ScanFails, ScanDone, Recheck,
             StopWait, StopTimeout, ModeOf
    <3>2. \A c \in Tasks : HoldsWorld(c)' = HoldsWorld(c)
      <4>1. CASE PollCollector(t)
        <5>1. pc[t] = "pollCollector" => collector # slot[t] + 1
          BY CollectorIsStopping DEF IInv, SlotInv, StopPcs, ActivePcs
        <5>2. pc[t] = "pollStopped" => collector = slot[t] + 1
          BY DEF IInv, StopInv, OneCollector, StopPcs, ActivePcs
        <5> QED
          BY <4>1, <5>1, <5>2, <2>t DEF PollCollector, HoldsWorld
      <4>2. CASE ~PollCollector(t)
        BY <2>7, <4>2, <2>t
           DEF LeaveNativeSafe, PollState, PollRequest, PollPark,
               PollAck, PollWake, StopRequest, Scan, ScanPass, ScanParked,
               ScanAcknowledged, ScanRefused, ScanFails, ScanDone, Recheck,
               StopWait, StopTimeout, HoldsWorld
      <4> QED
        BY <4>1, <4>2
    <3> QED
      BY <2>s, <3>1, <3>2 DEF World!vars
  <2> QED
    BY <1>2, <2>1, <2>2, <2>3, <2>4, <2>5, <2>6, <2>7 DEF Step, Poll, Stop
<1> QED
  BY <1>1, <1>2 DEF Next

(* The handshake implements the abstract stop-the-world: every step is a   *)
(* step of StopTheWorld or leaves its variables unchanged.                 *)
THEOREM HandshakeImplements == Spec => ImplementsStopTheWorld
BY Inductive, InitRefines, StepRefines, PTL
   DEF Spec, World!Spec, ImplementsStopTheWorld
=============================================================================
