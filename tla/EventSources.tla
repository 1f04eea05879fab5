---------------------------- MODULE EventSources ----------------------------
(***************************************************************************)
(* The deferred-event bridge of runtime.mod/events.mod/events.bmx: a table *)
(* of registered sources named by generation-checked tokens, and the poll  *)
(* hook that drains the native queue and emits events for them.            *)
(*                                                                         *)
(* Everything but the posting runs in the owner's context, so a step lasts *)
(* from one call of foreign code to the next.  Foreign code is the handlers*)
(* that EmitEvent runs: a handler may register, release, poll again and    *)
(* throw.  The native queue is external: bounded, first in first out, and  *)
(* it drops what does not fit (bmx_embedded_event_take, _post_ex).         *)
(***************************************************************************)
EXTENDS Integers, Sequences, Functions

CONSTANTS Capacity,   \* EmbeddedEventSourceCapacity
          GenMax,     \* EmbeddedEventGenerationMask, the largest generation
          Objects,    \* what can be registered: a source and its event id
          Nil,        \* an empty slot
          QueueMax,   \* capacity of the native queue
          MaxDepth    \* bound on polls nested in handlers

ASSUME EventAssumption ==
    /\ Capacity \in Nat \ {0} /\ GenMax \in Nat \ {0}
    /\ QueueMax \in Nat /\ MaxDepth \in Nat
    /\ Nil \notin Objects

Slots == 0 .. Capacity - 1

\* generation Shl 6 | slot
Tokens == [gen : 1 .. GenMax, slot : Slots]

VARIABLES
    source,       \* _embeddedEventSources and, with the object, _embeddedEventIds
    persistent,   \* _embeddedEventPersistent
    generation,   \* _embeddedEventGenerations
    queue,        \* the native queue of tokens
    kept,         \* tokens that native state or the program still keeps
    emitting,     \* the emissions in progress, the innermost last
    polling,      \* the innermost code is the loop of a poll, not a handler
    issued,       \* history: the object a token was last issued for
    emitted,      \* history: the slot's registration has had an emission
    thrown        \* history: ... and one of them ended in an exception

tableVars == <<source, persistent, generation>>
history == <<issued, emitted, thrown>>
vars == <<tableVars, queue, kept, emitting, polling, history>>

EventTypeOK ==
    /\ source \in [Slots -> Objects \cup {Nil}]
    /\ persistent \in [Slots -> BOOLEAN]
    /\ generation \in [Slots -> 0 .. GenMax]
    /\ queue \in Seq(Tokens) /\ Len(queue) <= QueueMax
    /\ kept \subseteq Tokens
    /\ emitting \in Seq([token : Tokens, object : Objects])
    /\ polling \in BOOLEAN
    /\ issued \in [Tokens -> Objects \cup {Nil}]
    /\ emitted \in [Slots -> BOOLEAN] /\ thrown \in [Slots -> BOOLEAN]

Init ==
    /\ source = [s \in Slots |-> Nil]
    /\ persistent = [s \in Slots |-> FALSE]
    /\ generation = [s \in Slots |-> 0]
    /\ queue = << >> /\ kept = {}
    /\ emitting = << >> /\ polling = FALSE
    /\ issued = [k \in Tokens |-> Nil]
    /\ emitted = [s \in Slots |-> FALSE] /\ thrown = [s \in Slots |-> FALSE]

TokenOf(s) == [gen |-> generation[s], slot |-> s]

Innermost == emitting[Len(emitting)]

\* Mutant: the slot alone names the source.
SlotValidAlways(k) == TRUE

\* _EmbeddedEventSlotValid
SlotValid(k) == generation[k.slot] = k.gen

-----------------------------------------------------------------------------
(* Native producers                                                        *)

Post(k) ==
    /\ k \in kept
    /\ Len(queue) < QueueMax
    /\ queue' = Append(queue, k)
    /\ UNCHANGED <<tableVars, kept, emitting, polling, history>>

\* The last copy of a token that is not in the queue is overwritten.
Forget(k) ==
    /\ k \in kept
    /\ kept' = kept \ {k}
    /\ UNCHANGED <<tableVars, queue, emitting, polling, history>>

-----------------------------------------------------------------------------
(* The program, outside of a poll or in a handler                          *)

\* Mutant: the generation wraps to 0.
NextGenerationUnskipped(g) == (g + 1) % (GenMax + 1)

NextGeneration(g) == IF g = GenMax THEN 1 ELSE g + 1

(* The environment bound tokens rest on: when a slot's 26-bit generation   *)
(* comes round, nobody has kept the token of 2^26 - 1 registrations before.*)
TokenFresh(k) ==
    /\ k \notin kept \cup Range(queue)
    /\ \A i \in DOMAIN emitting : emitting[i].token # k

\* RegisterEmbeddedEventSource: the first free slot; a full table refuses.
Register(o, lasting) ==
    /\ ~polling
    /\ \E s \in Slots :
          LET k == [gen |-> NextGeneration(generation[s]), slot |-> s]
          IN /\ source[s] = Nil /\ \A r \in 0 .. s - 1 : source[r] # Nil
             /\ TokenFresh(k)
             /\ generation' = [generation EXCEPT ![s] = k.gen]
             /\ source' = [source EXCEPT ![s] = o]
             /\ persistent' = [persistent EXCEPT ![s] = lasting]
             /\ kept' = kept \cup {k}
             /\ issued' = [issued EXCEPT ![k] = o]
             /\ emitted' = [emitted EXCEPT ![s] = FALSE]
             /\ thrown' = [thrown EXCEPT ![s] = FALSE]
    /\ UNCHANGED <<queue, emitting, polling>>

\* Mutant: a release does not compare the generation.
ReleasesSlot(k) == source[k.slot] # Nil

\* ReleaseEmbeddedEventSource accepts the token.
Releases(k) == SlotValid(k) /\ source[k.slot] # Nil

ReleaseToken(k) ==
    IF Releases(k)
      THEN /\ source' = [source EXCEPT ![k.slot] = Nil]
           /\ persistent' = [persistent EXCEPT ![k.slot] = FALSE]
           /\ emitted' = [emitted EXCEPT ![k.slot] = FALSE]
           /\ thrown' = [thrown EXCEPT ![k.slot] = FALSE]
           /\ UNCHANGED <<generation, issued>>
      ELSE UNCHANGED <<tableVars, history>>

Release(k) ==
    /\ ~polling
    /\ k \in kept
    /\ ReleaseToken(k)
    /\ UNCHANGED <<queue, kept, emitting, polling>>

\* PollSystem and WaitSystem run the hook.
PollSystem ==
    /\ ~polling
    /\ Len(emitting) < MaxDepth
    /\ polling' = TRUE
    /\ UNCHANGED <<tableVars, queue, kept, emitting, history>>

-----------------------------------------------------------------------------
(* _EmbeddedPollDeferredEvents                                             *)

\* What the poll asks of a record's token.
Registered(k) == SlotValid(k) /\ source[k.slot] # Nil

Taken == polling /\ queue # << >> /\ queue' = Tail(queue)

\* Mutant: a record for nobody is looked at, but not taken.
SkipUntaken ==
    /\ polling /\ queue # << >>
    /\ ~Registered(Head(queue))
    /\ UNCHANGED vars

Skip ==
    /\ Taken
    /\ ~Registered(Head(queue))
    /\ UNCHANGED <<tableVars, kept, emitting, polling, history>>

Emit ==
    /\ Taken
    /\ Registered(Head(queue))
    /\ LET k == Head(queue)
       IN /\ emitting' = Append(emitting, [token |-> k, object |-> source[k.slot]])
          /\ emitted' = [emitted EXCEPT ![k.slot] = TRUE]
    /\ polling' = FALSE
    /\ UNCHANGED <<tableVars, kept, issued, thrown>>

\* The exception is caught outside of all but n emissions.
Unwound(n) ==
    /\ emitting' = SubSeq(emitting, 1, n) /\ polling' = FALSE
    /\ thrown' = [s \in Slots |->
                    thrown[s] \/ \E i \in n + 1 .. Len(emitting) : emitting[i].token = TokenOf(s)]

\* CreateEvent finds no memory: the record is lost, and the poll is left for
\* the innermost handler, or the program, that catches the exception.
EmitFails ==
    /\ Taken
    /\ Registered(Head(queue))
    /\ \E n \in 0 .. Len(emitting) : Unwound(n)
    /\ UNCHANGED <<tableVars, kept, issued, emitted>>

\* Mutant: the poll does not release a one-shot source.
HandlerReturnsKeeping ==
    /\ ~polling /\ emitting # << >>
    /\ emitting' = SubSeq(emitting, 1, Len(emitting) - 1)
    /\ polling' = TRUE
    /\ UNCHANGED <<tableVars, queue, kept, history>>

\* The slot's flag is read after the handlers, and may be a successor's.
HandlerReturns ==
    /\ ~polling /\ emitting # << >>
    /\ IF persistent[Innermost.token.slot]
         THEN UNCHANGED <<tableVars, history>>
         ELSE ReleaseToken(Innermost.token)
    /\ emitting' = SubSeq(emitting, 1, Len(emitting) - 1)
    /\ polling' = TRUE
    /\ UNCHANGED <<queue, kept>>

HandlerThrows ==
    /\ ~polling /\ emitting # << >>
    /\ \E n \in 0 .. Len(emitting) - 1 : Unwound(n)
    /\ UNCHANGED <<tableVars, queue, kept, issued, emitted>>

Drained ==
    /\ polling /\ queue = << >>
    /\ polling' = FALSE
    /\ UNCHANGED <<tableVars, queue, kept, emitting, history>>

-----------------------------------------------------------------------------
Loop == Skip \/ Emit \/ EmitFails \/ Drained
HandlerEnds == HandlerReturns \/ HandlerThrows

Next == \/ \E k \in Tokens : Post(k) \/ Forget(k) \/ Release(k)
        \/ \E o \in Objects, lasting \in BOOLEAN : Register(o, lasting)
        \/ PollSystem \/ Loop \/ HandlerEnds

Spec == Init /\ [][Next]_vars

\* The loop runs on and handlers end.
FairSpec == Spec /\ WF_vars(Loop) /\ SF_vars(HandlerEnds)

-----------------------------------------------------------------------------
(* Properties                                                              *)

(* An event reaches the object its token was issued for, however often the *)
(* slot was released and registered again since it was posted              *)
(* (events.bmx:40-43, 53-57).                                              *)
DeliveredToOwner ==
    \A i \in DOMAIN emitting : emitting[i].object = issued[emitting[i].token]

(* A registration that ends when a handler returns is the one-shot         *)
(* registration that the handler ran for: never a successor in its slot,   *)
(* never a persistent one (events.bmx:58).                                 *)
AutoReleaseIsOwn ==
    [][\A s \in Slots :
          source[s] # Nil /\ source'[s] = Nil /\ emitting' # emitting
              => /\ ~persistent[s]
                 /\ Innermost.token = TokenOf(s)]_vars

\* An emission for the registration that slot s holds now is in progress.
InEmission(s) == \E i \in DOMAIN emitting : emitting[i].token = TokenOf(s)

OneShot(s) == source[s] # Nil /\ ~persistent[s]

(* A one-shot source that had an event is registered only while a handler  *)
(* of it runs, or for ever if an exception ended one (events.bmx:56-58).   *)
OneShotGoneUnlessThrown ==
    \A s \in Slots : OneShot(s) /\ emitted[s] => InEmission(s) \/ thrown[s]

(* When the producers fall silent every poll comes to its end, nested ones *)
(* included, whatever the handlers did to the table.                       *)
PollsReturn ==
    <>[][\A k \in Tokens : ~Post(k)]_vars => []<>(emitting = << >> /\ ~polling)
=============================================================================
