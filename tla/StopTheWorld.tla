---------------------------- MODULE StopTheWorld ----------------------------
(***************************************************************************)
(* What the stop-the-world handshake of the embedded runtime promises,     *)
(* without saying how: a set of tasks, each outside the runtime, running   *)
(* managed code, or held (parked at a safepoint, blocked in native-safe    *)
(* code, or inside a handshake call), and at most one of them to whom the  *)
(* world has been granted.  The grant is given only when nobody else runs, *)
(* and while it lasts nobody starts running.                               *)
(*                                                                         *)
(* MULTICORE_GC_DESIGN.md, "Non-negotiable invariants" 1 and 2, is the     *)
(* prose this module states; GCHandshake refines it.                       *)
(***************************************************************************)
CONSTANTS Tasks,       \* the execution contexts that may register
          NoTask       \* "the world is not stopped"

VARIABLES mode,        \* mode[t] \in {"out", "run", "held"}
          stopper      \* the task the world is stopped for, or NoTask

vars == <<mode, stopper>>

TypeOK == /\ mode \in [Tasks -> {"out", "run", "held"}]
          /\ stopper \in Tasks \cup {NoTask}

Init == /\ mode = [t \in Tasks |-> "out"]
        /\ stopper = NoTask

Become(t, m) == mode' = [mode EXCEPT ![t] = m]

\* A task becomes a mutator; never while the world is stopped.
Join(t) == /\ mode[t] = "out"
           /\ stopper = NoTask
           /\ Become(t, "run")
           /\ UNCHANGED stopper

Leave(t) == /\ mode[t] = "run"
            /\ Become(t, "out")
            /\ UNCHANGED stopper

\* Holding is always possible, resuming only in a world that runs.
Hold(t) == /\ mode[t] = "run"
           /\ Become(t, "held")
           /\ UNCHANGED stopper

Resume(t) == /\ mode[t] = "held"
             /\ stopper = NoTask
             /\ Become(t, "run")
             /\ UNCHANGED stopper

Grant(t) == /\ mode[t] = "held"
            /\ stopper = NoTask
            /\ \A u \in Tasks : mode[u] # "run"
            /\ stopper' = t
            /\ UNCHANGED mode

Yield(t) == /\ stopper = t
            /\ stopper' = NoTask
            /\ UNCHANGED mode

Next == \E t \in Tasks : \/ Join(t) \/ Leave(t)
                         \/ Hold(t) \/ Resume(t)
                         \/ Grant(t) \/ Yield(t)

Spec == Init /\ [][Next]_vars

(* The exclusive phase: nobody runs managed code while the world is        *)
(* stopped (MULTICORE_GC_DESIGN.md:36-37, invariants 1 and 2).             *)
Exclusive == stopper # NoTask => \A t \in Tasks : mode[t] # "run"
=============================================================================
