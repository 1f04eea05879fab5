------------------------- MODULE EventSourcesProof --------------------------
(***************************************************************************)
(* Proofs about the deferred-event bridge, for tables, queues and          *)
(* generation ranges of every size and handlers nested to any depth.       *)
(***************************************************************************)
EXTENDS EventSources, SequenceTheorems, TLAPS

\* The token of a registered slot was issued for the object in it.
Named ==
    \A s \in Slots :
        source[s] # Nil => generation[s] # 0 /\ issued[TokenOf(s)] = source[s]

IInv == EventTypeOK /\ Named /\ DeliveredToOwner /\ OneShotGoneUnlessThrown

-----------------------------------------------------------------------------
(* A generation after any other is one that a token can have.              *)
LEMMA NextGenerationInRange == \A g \in 0 .. GenMax : NextGeneration(g) \in 1 .. GenMax
BY EventAssumption DEF EventAssumption, NextGeneration

(* What an exception leaves of the emissions is a prefix.                  *)
LEMMA Prefix ==
  ASSUME NEW S, NEW q \in Seq(S), NEW n \in 0 .. Len(q)
  PROVE  /\ SubSeq(q, 1, n) \in Seq(S)
         /\ DOMAIN SubSeq(q, 1, n) = 1 .. n
         /\ \A i \in 1 .. n : SubSeq(q, 1, n)[i] = q[i]
<1>1. \A i \in 1 .. n : q[i] \in S
  BY ElementOfSeq
<1> QED
  BY <1>1, SubSeqProperties

(* Taking a record leaves a queue, and gives a token.                      *)
LEMMA TakenType ==
  ASSUME EventTypeOK, Taken
  PROVE  Head(queue) \in Tokens /\ queue' \in Seq(Tokens) /\ Len(queue') <= QueueMax
BY EventAssumption, HeadTailProperties, LenProperties DEF EventAssumption, EventTypeOK, Taken

(* Posting leaves a queue within its limit.                                *)
LEMMA PostedType ==
  ASSUME EventTypeOK, NEW k \in Tokens, Post(k)
  PROVE  queue' \in Seq(Tokens) /\ Len(queue') <= QueueMax
<1>1. queue \in Seq(Tokens) /\ Len(queue) \in Nat
  BY LenProperties DEF EventTypeOK
<1>2. queue' = Append(queue, k) /\ Len(queue) < QueueMax
  BY DEF Post
<1>3. queue' \in Seq(Tokens) /\ Len(queue') = Len(queue) + 1
  BY <1>1, <1>2, AppendProperties
<1> QED
  BY <1>1, <1>2, <1>3, EventAssumption DEF EventAssumption

(* The innermost emission ends: the others stay.                           *)
LEMMA Popped ==
  ASSUME EventTypeOK, emitting # << >>,
         emitting' = SubSeq(emitting, 1, Len(emitting) - 1)
  PROVE  /\ emitting' \in Seq([token : Tokens, object : Objects])
         /\ Len(emitting) \in Nat \ {0}
         /\ DOMAIN emitting' = 1 .. Len(emitting) - 1
         /\ \A i \in DOMAIN emitting' : emitting'[i] = emitting[i]
<1>1. emitting \in Seq([token : Tokens, object : Objects])
  BY DEF EventTypeOK
<1>2. Len(emitting) \in Nat \ {0}
  BY <1>1, EmptySeq
<1> DEFINE n == Len(emitting) - 1
<1>3. n \in 0 .. Len(emitting)
  BY <1>2
<1> HIDE DEF n
<1>4. emitting' = SubSeq(emitting, 1, n)
  BY DEF n
<1> DEFINE E == [token : Tokens, object : Objects]
<1>5. emitting \in Seq(E)
  BY <1>1
<1> HIDE DEF E
<1>6. /\ SubSeq(emitting, 1, n) \in Seq(E)
      /\ DOMAIN SubSeq(emitting, 1, n) = 1 .. n
      /\ \A i \in 1 .. n : SubSeq(emitting, 1, n)[i] = emitting[i]
  BY <1>3, <1>5, Prefix
<1> QED
  BY <1>2, <1>4, <1>6 DEF n, E

(* There is an innermost emission, and it has a token.                     *)
LEMMA InnermostType ==
  ASSUME EventTypeOK, emitting # << >>
  PROVE  Len(emitting) \in DOMAIN emitting /\ Innermost.token \in Tokens
<1>1. emitting \in Seq([token : Tokens, object : Objects])
  BY DEF EventTypeOK
<1>2. Len(emitting) \in 1 .. Len(emitting) /\ DOMAIN emitting = 1 .. Len(emitting)
  BY <1>1, EmptySeq, LenProperties
<1>3. emitting[Len(emitting)] \in [token : Tokens, object : Objects]
  BY <1>1, <1>2, ElementOfSeq
<1> QED
  BY <1>2, <1>3 DEF Innermost

(* The state words stay in range.                                          *)
LEMMA TypeStep == EventTypeOK /\ Named /\ [Next]_vars => EventTypeOK'
<1> SUFFICES ASSUME EventTypeOK, Named, [Next]_vars PROVE EventTypeOK'
  OBVIOUS
<1> USE EventAssumption DEF EventAssumption, EventTypeOK, Slots, Tokens
<1>1. CASE UNCHANGED vars
  BY <1>1, SMTT(30) DEF vars, tableVars, history
<1>2. ASSUME NEW k \in Tokens, Post(k) PROVE EventTypeOK'
  <2>1. queue' \in Seq(Tokens) /\ Len(queue') <= QueueMax
    BY <1>2, PostedType
  <2> QED
    BY <1>2, <2>1 DEF Post, tableVars, history
<1>3. ASSUME NEW k \in Tokens, Forget(k) PROVE EventTypeOK'
  BY <1>3 DEF Forget, tableVars, history
<1>4. ASSUME NEW k \in Tokens, Release(k) PROVE EventTypeOK'
  BY <1>4 DEF Release, ReleaseToken, tableVars, history
<1>5. ASSUME NEW o \in Objects, NEW lasting \in BOOLEAN, Register(o, lasting) PROVE EventTypeOK'
  <2>1. PICK s \in Slots :
           LET k == [gen |-> NextGeneration(generation[s]), slot |-> s]
           IN /\ generation' = [generation EXCEPT ![s] = k.gen]
              /\ source' = [source EXCEPT ![s] = o]
              /\ persistent' = [persistent EXCEPT ![s] = lasting]
              /\ kept' = kept \cup {k}
              /\ issued' = [issued EXCEPT ![k] = o]
              /\ emitted' = [emitted EXCEPT ![s] = FALSE]
              /\ thrown' = [thrown EXCEPT ![s] = FALSE]
    BY <1>5 DEF Register
  <2> DEFINE k == [gen |-> NextGeneration(generation[s]), slot |-> s]
  <2>2. k \in Tokens
    BY NextGenerationInRange
  <2>3. k.gen = NextGeneration(generation[s]) /\ k.gen \in 1 .. GenMax
    BY NextGenerationInRange
  <2>4. UNCHANGED <<queue, emitting, polling>>
    BY <1>5 DEF Register
  <2>5. generation' \in [Slots -> 0 .. GenMax]
    BY <2>1, <2>3
  <2>6. kept' \subseteq Tokens /\ issued' \in [Tokens -> Objects \cup {Nil}]
    BY <2>1, <2>2
  <2>7. /\ source' \in [Slots -> Objects \cup {Nil}] /\ persistent' \in [Slots -> BOOLEAN]
        /\ emitted' \in [Slots -> BOOLEAN] /\ thrown' \in [Slots -> BOOLEAN]
    BY <2>1
  <2> QED
    BY <2>4, <2>5, <2>6, <2>7
<1>6. CASE PollSystem
  BY <1>6 DEF PollSystem, tableVars, history
<1>7. CASE Skip
  BY <1>7, TakenType DEF Skip, tableVars, history
<1>8. CASE Emit
  <2>1. Head(queue) \in Tokens /\ queue' \in Seq(Tokens) /\ Len(queue') <= QueueMax
    BY <1>8, TakenType DEF Emit
  <2> DEFINE e == [token |-> Head(queue), object |-> source[Head(queue).slot]]
  <2>2. source[Head(queue).slot] \in Objects
    BY <1>8, <2>1 DEF Emit, Registered
  <2>3. e \in [token : Tokens, object : Objects]
    BY <2>1, <2>2
  <2>4. emitting' \in Seq([token : Tokens, object : Objects])
    <3>1. emitting' = Append(emitting, e)
      BY <1>8 DEF Emit
    <3> HIDE DEF e
    <3> QED
      BY <2>3, <3>1, AppendProperties
  <2> QED
    BY <1>8, <2>1, <2>4 DEF Emit, tableVars
<1>9. ASSUME NEW n \in 0 .. Len(emitting), Unwound(n)
      PROVE  /\ emitting' \in Seq([token : Tokens, object : Objects])
             /\ polling' \in BOOLEAN /\ thrown' \in [Slots -> BOOLEAN]
  BY <1>9, Prefix DEF Unwound
<1>10. CASE EmitFails
  BY <1>10, <1>9, TakenType DEF EmitFails, tableVars
<1>11. CASE HandlerReturns
  <2>1. emitting' \in Seq([token : Tokens, object : Objects])
    BY <1>11, Popped DEF HandlerReturns
  <2> QED
    BY <1>11, <2>1 DEF HandlerReturns, ReleaseToken, tableVars, history
<1>12. CASE HandlerThrows
  <2>1. 0 .. Len(emitting) - 1 \subseteq 0 .. Len(emitting)
    BY LenProperties
  <2> QED
    BY <1>12, <1>9, <2>1 DEF HandlerThrows, tableVars
<1>13. CASE Drained
  BY <1>13 DEF Drained, tableVars, history
<1> QED
  BY <1>1, <1>2, <1>3, <1>4, <1>5, <1>6, <1>7, <1>8, <1>10, <1>11, <1>12, <1>13
     DEF Next, Loop, HandlerEnds

-----------------------------------------------------------------------------
(* What a registration does to the table.                                  *)
LEMMA RegisterEffect ==
  ASSUME EventTypeOK, NEW o \in Objects, NEW lasting \in BOOLEAN, Register(o, lasting)
  PROVE  \E s \in Slots : \E k \in Tokens :
            /\ k.slot = s /\ k.gen # 0 /\ TokenFresh(k)
            /\ generation' = [generation EXCEPT ![s] = k.gen]
            /\ source' = [source EXCEPT ![s] = o]
            /\ persistent' = [persistent EXCEPT ![s] = lasting]
            /\ issued' = [issued EXCEPT ![k] = o]
            /\ emitted' = [emitted EXCEPT ![s] = FALSE]
            /\ thrown' = [thrown EXCEPT ![s] = FALSE]
            /\ UNCHANGED emitting
<1>1. PICK s \in Slots :
         LET k == [gen |-> NextGeneration(generation[s]), slot |-> s]
         IN /\ TokenFresh(k)
            /\ generation' = [generation EXCEPT ![s] = k.gen]
            /\ source' = [source EXCEPT ![s] = o]
            /\ persistent' = [persistent EXCEPT ![s] = lasting]
            /\ issued' = [issued EXCEPT ![k] = o]
            /\ emitted' = [emitted EXCEPT ![s] = FALSE]
            /\ thrown' = [thrown EXCEPT ![s] = FALSE]
  BY DEF Register
<1> DEFINE k == [gen |-> NextGeneration(generation[s]), slot |-> s]
<1>2. k \in Tokens /\ k.slot = s /\ k.gen # 0
  BY NextGenerationInRange, EventAssumption DEF EventTypeOK, Tokens, EventAssumption
<1>3. UNCHANGED emitting
  BY DEF Register
<1> HIDE DEF k
<1> QED
  BY <1>1, <1>2, <1>3 DEF k

(* What a release does to the table: it empties the slot of a current      *)
(* token, or nothing.                                                      *)
LEMMA ReleaseEffect ==
  ASSUME EventTypeOK, NEW k \in Tokens, ReleaseToken(k)
  PROVE  /\ UNCHANGED <<generation, issued>>
         /\ \A s \in Slots :
               \/ source'[s] = Nil
               \/ /\ source'[s] = source[s] /\ persistent'[s] = persistent[s]
                  /\ emitted'[s] = emitted[s] /\ thrown'[s] = thrown[s]
         /\ Releases(k) => source'[k.slot] = Nil
BY DEF EventTypeOK, ReleaseToken, Tokens, tableVars, history

(* The token of a registered slot stays the one issued for its object.     *)
LEMMA NamedStep == EventTypeOK /\ Named /\ [Next]_vars => Named'
<1> SUFFICES ASSUME EventTypeOK, Named, [Next]_vars PROVE Named'
  OBVIOUS
<1>1. CASE UNCHANGED <<source, generation, issued>>
  BY <1>1 DEF Named, TokenOf
<1>2. ASSUME NEW k \in Tokens, ReleaseToken(k) PROVE Named'
  BY <1>2, ReleaseEffect DEF Named, TokenOf
<1>3. ASSUME NEW o \in Objects, NEW lasting \in BOOLEAN, Register(o, lasting) PROVE Named'
  <2>1. PICK s \in Slots, k \in Tokens :
            /\ k.slot = s /\ k.gen # 0
            /\ generation' = [generation EXCEPT ![s] = k.gen]
            /\ source' = [source EXCEPT ![s] = o]
            /\ issued' = [issued EXCEPT ![k] = o]
    BY <1>3, RegisterEffect
  <2>2. k = [gen |-> k.gen, slot |-> s] /\ issued'[k] = o
    BY <2>1 DEF Tokens, EventTypeOK
  <2>3. ASSUME NEW r \in Slots, r # s, source'[r] # Nil
        PROVE  generation'[r] # 0 /\ issued'[TokenOf(r)'] = source'[r]
    <3>1. source'[r] = source[r] /\ generation'[r] = generation[r]
      BY <2>1, <2>3 DEF EventTypeOK
    <3>2. TokenOf(r)' = TokenOf(r) /\ TokenOf(r) # k
      BY <2>1, <2>3, <3>1 DEF TokenOf
    <3> QED
      BY <2>1, <2>3, <3>1, <3>2 DEF Named, EventTypeOK
  <2>4. generation'[s] # 0 /\ issued'[TokenOf(s)'] = source'[s]
    BY <2>1, <2>2 DEF TokenOf, EventTypeOK
  <2> QED
    BY <2>3, <2>4 DEF Named
<1>4. CASE HandlerReturns
  <2>1. Innermost.token \in Tokens
    BY <1>4, InnermostType DEF HandlerReturns
  <2> QED
    BY <1>1, <1>2, <1>4, <2>1 DEF HandlerReturns, tableVars, history
<1> QED
  BY <1>1, <1>2, <1>3, <1>4
     DEF Next, vars, tableVars, history, Post, Forget, Release, PollSystem, Loop, Skip,
         Emit, EmitFails, Drained, HandlerEnds, HandlerThrows

(* Emissions in progress keep the object their token was issued for.       *)
LEMMA DeliveredStep ==
  EventTypeOK /\ Named /\ DeliveredToOwner /\ [Next]_vars => DeliveredToOwner'
<1> SUFFICES ASSUME EventTypeOK, Named, DeliveredToOwner, [Next]_vars
             PROVE  DeliveredToOwner'
  OBVIOUS
<1>1. CASE UNCHANGED <<emitting, issued>>
  BY <1>1 DEF DeliveredToOwner
<1>2. ASSUME NEW n \in 0 .. Len(emitting), Unwound(n), UNCHANGED issued
      PROVE  DeliveredToOwner'
  <2>1. emitting \in Seq([token : Tokens, object : Objects])
    BY DEF EventTypeOK
  <2>2. /\ DOMAIN emitting' = 1 .. n /\ 1 .. n \subseteq DOMAIN emitting
        /\ \A i \in 1 .. n : emitting'[i] = emitting[i]
    BY <1>2, <2>1, Prefix, LenProperties DEF Unwound
  <2> QED
    BY <1>2, <2>2 DEF DeliveredToOwner
<1>3. ASSUME NEW o \in Objects, NEW lasting \in BOOLEAN, Register(o, lasting)
      PROVE  DeliveredToOwner'
  <2>1. PICK k \in Tokens : /\ TokenFresh(k)
                            /\ issued' = [issued EXCEPT ![k] = o]
                            /\ UNCHANGED emitting
    BY <1>3, RegisterEffect
  <2> QED
    BY <2>1 DEF TokenFresh, DeliveredToOwner, EventTypeOK
<1>4. ASSUME NEW k \in Tokens, Release(k) PROVE DeliveredToOwner'
  BY <1>1, <1>4, ReleaseEffect DEF Release
<1>5. CASE Emit
  <2> DEFINE k == Head(queue)
             e == [token |-> k, object |-> source[k.slot]]
  <2>1. k \in Tokens /\ Registered(k) /\ emitting' = Append(emitting, e) /\ UNCHANGED issued
    BY <1>5, TakenType DEF Emit
  <2>2. k.slot \in Slots /\ k = TokenOf(k.slot) /\ source[k.slot] # Nil
    BY <2>1 DEF Registered, SlotValid, TokenOf, Tokens
  <2>3. e.object = issued[e.token] /\ e \in [token : Tokens, object : Objects]
    BY <2>1, <2>2 DEF Named, EventTypeOK
  <2> HIDE DEF e, k
  <2>4. /\ Len(emitting') = Len(emitting) + 1 /\ emitting'[Len(emitting) + 1] = e
        /\ \A i \in 1 .. Len(emitting) : emitting'[i] = emitting[i]
        /\ emitting' \in Seq([token : Tokens, object : Objects])
        /\ emitting \in Seq([token : Tokens, object : Objects])
    BY <2>1, <2>3, AppendProperties DEF EventTypeOK
  <2>5. /\ DOMAIN emitting' = 1 .. Len(emitting) + 1
        /\ DOMAIN emitting = 1 .. Len(emitting) /\ Len(emitting) \in Nat
    BY <2>4, LenProperties
  <2>6. ASSUME NEW i \in DOMAIN emitting'
        PROVE  emitting'[i].object = issued[emitting'[i].token]
    <3>1. i \in DOMAIN emitting \/ i = Len(emitting) + 1
      BY <2>5
    <3> QED
      BY <2>3, <2>4, <2>5, <3>1 DEF DeliveredToOwner
  <2> QED
    BY <2>1, <2>6 DEF DeliveredToOwner
<1>6. CASE HandlerReturns
  <2>1. UNCHANGED issued
    BY <1>6, InnermostType, ReleaseEffect DEF HandlerReturns, history
  <2>2. /\ DOMAIN emitting' \subseteq DOMAIN emitting
        /\ \A i \in DOMAIN emitting' : emitting'[i] = emitting[i]
    <3>1. DOMAIN emitting = 1 .. Len(emitting)
      BY LenProperties DEF EventTypeOK
    <3> QED
      BY <1>6, <3>1, Popped DEF HandlerReturns
  <2> QED
    BY <2>1, <2>2 DEF DeliveredToOwner
<1>7. CASE EmitFails
  BY <1>2, <1>7 DEF EmitFails
<1>8. CASE HandlerThrows
  <2>1. 0 .. Len(emitting) - 1 \subseteq 0 .. Len(emitting)
    BY LenProperties DEF EventTypeOK
  <2> QED
    BY <1>2, <1>8, <2>1 DEF HandlerThrows
<1> QED
  BY <1>1, <1>3, <1>4, <1>5, <1>6, <1>7, <1>8
     DEF Next, vars, tableVars, history, Post, Forget, PollSystem, Loop, Skip, Drained, HandlerEnds

-----------------------------------------------------------------------------
(* What an exception leaves of the emissions, and what it marks.           *)
LEMMA UnwoundEffect ==
  ASSUME EventTypeOK, NEW n \in 0 .. Len(emitting), Unwound(n), UNCHANGED generation
  PROVE  /\ \A s \in Slots : thrown[s] => thrown'[s]
         /\ \A s \in Slots : InEmission(s) => InEmission(s)' \/ thrown'[s]
<1> DEFINE E == [token : Tokens, object : Objects]
<1>1. emitting \in Seq(E) /\ DOMAIN emitting = 1 .. Len(emitting) /\ Len(emitting) \in Nat
  BY LenProperties DEF EventTypeOK
<1> HIDE DEF E
<1>2. /\ DOMAIN emitting' = 1 .. n
      /\ \A i \in 1 .. n : emitting'[i] = emitting[i]
  BY <1>1, Prefix DEF Unwound
<1>3. \A s \in Slots : TokenOf(s)' = TokenOf(s)
  BY DEF TokenOf
<1>4. \A s \in Slots :
         thrown'[s] = (thrown[s] \/ \E i \in n + 1 .. Len(emitting) : emitting[i].token = TokenOf(s))
  BY DEF Unwound
<1>5. ASSUME NEW s \in Slots, InEmission(s) PROVE InEmission(s)' \/ thrown'[s]
  <2>1. PICK i \in 1 .. Len(emitting) : emitting[i].token = TokenOf(s)
    BY <1>1, <1>5 DEF InEmission
  <2>2. CASE i \in 1 .. n
    BY <1>2, <1>3, <2>1, <2>2 DEF InEmission
  <2>3. CASE i \in n + 1 .. Len(emitting)
    BY <1>4, <2>1, <2>3
  <2> QED
    BY <1>1, <2>1, <2>2, <2>3
<1> QED
  BY <1>4, <1>5

(* A one-shot registration with an emission is in that emission, or one    *)
(* ended in an exception: every step keeps it so.                          *)
LEMMA OneShotStep ==
  EventTypeOK /\ OneShotGoneUnlessThrown /\ [Next]_vars => OneShotGoneUnlessThrown'
<1> SUFFICES ASSUME EventTypeOK, OneShotGoneUnlessThrown, [Next]_vars,
                    NEW s \in Slots, OneShot(s)', emitted'[s]
             PROVE  InEmission(s)' \/ thrown'[s]
  BY DEF OneShotGoneUnlessThrown
<1>1. CASE UNCHANGED <<tableVars, emitting, emitted, thrown>>
  BY <1>1 DEF OneShotGoneUnlessThrown, OneShot, InEmission, TokenOf, tableVars
<1>2. ASSUME NEW n \in 0 .. Len(emitting), Unwound(n), UNCHANGED <<tableVars, emitted>>
      PROVE  InEmission(s)' \/ thrown'[s]
  <2>1. InEmission(s) \/ thrown[s]
    BY <1>2 DEF OneShotGoneUnlessThrown, OneShot, tableVars
  <2> QED
    BY <1>2, <2>1, UnwoundEffect DEF tableVars
<1>3. ASSUME NEW k \in Tokens, ReleaseToken(k)
      PROVE  (InEmission(s) \/ thrown[s]) /\ thrown'[s] = thrown[s] /\ source'[s] = source[s]
  <2>1. /\ source'[s] = source[s] /\ persistent'[s] = persistent[s]
        /\ emitted'[s] = emitted[s] /\ thrown'[s] = thrown[s]
    BY <1>3, ReleaseEffect DEF OneShot
  <2> QED
    BY <2>1 DEF OneShotGoneUnlessThrown, OneShot
<1>4. ASSUME NEW o \in Objects, NEW lasting \in BOOLEAN, Register(o, lasting)
      PROVE  InEmission(s)' \/ thrown'[s]
  <2>1. PICK r \in Slots, k \in Tokens :
            /\ generation' = [generation EXCEPT ![r] = k.gen]
            /\ source' = [source EXCEPT ![r] = o]
            /\ persistent' = [persistent EXCEPT ![r] = lasting]
            /\ emitted' = [emitted EXCEPT ![r] = FALSE]
            /\ thrown' = [thrown EXCEPT ![r] = FALSE]
            /\ UNCHANGED emitting
    BY <1>4, RegisterEffect
  <2>2. r # s
    BY <2>1 DEF EventTypeOK
  <2>3. /\ generation'[s] = generation[s] /\ source'[s] = source[s]
        /\ persistent'[s] = persistent[s] /\ emitted'[s] = emitted[s]
        /\ thrown'[s] = thrown[s]
    BY <2>1, <2>2 DEF EventTypeOK
  <2> QED
    BY <2>1, <2>3 DEF OneShotGoneUnlessThrown, OneShot, InEmission, TokenOf
<1>5. ASSUME NEW k \in Tokens, Release(k) PROVE InEmission(s)' \/ thrown'[s]
  BY <1>3, <1>5, ReleaseEffect DEF Release, InEmission, TokenOf
<1>6. CASE Emit
  <2> DEFINE k == Head(queue)
             e == [token |-> k, object |-> source[k.slot]]
             E == [token : Tokens, object : Objects]
  <2>1. /\ k \in Tokens /\ Registered(k) /\ emitting' = Append(emitting, e)
        /\ emitted' = [emitted EXCEPT ![k.slot] = TRUE]
        /\ UNCHANGED <<tableVars, thrown>>
    BY <1>6, TakenType DEF Emit
  <2>2. k.slot \in Slots /\ k = TokenOf(k.slot) /\ source[k.slot] \in Objects
    BY <2>1 DEF Registered, SlotValid, TokenOf, Tokens, EventTypeOK
  <2>3. e \in E /\ emitting \in Seq(E) /\ e.token = k
    BY <2>1, <2>2 DEF EventTypeOK
  <2> HIDE DEF e, k, E
  <2>4. /\ DOMAIN emitting = 1 .. Len(emitting) /\ Len(emitting) \in Nat
        /\ DOMAIN emitting' = 1 .. Len(emitting) + 1
        /\ emitting'[Len(emitting) + 1] = e
        /\ \A i \in 1 .. Len(emitting) : emitting'[i] = emitting[i]
    BY <2>1, <2>3, AppendProperties, LenProperties
  <2>5. TokenOf(s)' = TokenOf(s)
    BY <2>1 DEF TokenOf, tableVars
  <2>6. CASE s = k.slot
    BY <2>2, <2>3, <2>4, <2>5, <2>6 DEF InEmission
  <2>7. CASE s # k.slot
    <3>1. InEmission(s) \/ thrown[s]
      BY <2>1, <2>7 DEF OneShotGoneUnlessThrown, OneShot, EventTypeOK, tableVars
    <3>2. InEmission(s) => InEmission(s)'
      BY <2>4, <2>5 DEF InEmission
    <3> QED
      BY <2>1, <3>1, <3>2
  <2> QED
    BY <2>6, <2>7
<1>7. CASE HandlerReturns
  <2> DEFINE k == Innermost.token
  <2>1. /\ emitting # << >> /\ k \in Tokens /\ UNCHANGED generation
        /\ source'[s] = source[s] /\ thrown'[s] = thrown[s] /\ persistent'[s] = persistent[s]
        /\ InEmission(s) \/ thrown[s]
    <3>1. emitting # << >> /\ k \in Tokens
      BY <1>7, InnermostType DEF HandlerReturns
    <3>2. CASE UNCHANGED <<tableVars, history>>
      BY <3>1, <3>2 DEF tableVars, history, OneShotGoneUnlessThrown, OneShot
    <3>3. CASE ReleaseToken(k)
      <4>1. /\ source'[s] = source[s] /\ persistent'[s] = persistent[s]
            /\ UNCHANGED generation
        BY <3>1, <3>3, ReleaseEffect DEF OneShot
      <4> QED
        BY <1>3, <3>1, <3>3, <4>1
    <3> QED
      BY <1>7, <3>2, <3>3 DEF HandlerReturns
  <2>2. k # TokenOf(s)
    <3> SUFFICES ASSUME k = TokenOf(s) PROVE FALSE
      OBVIOUS
    <3>1. k.slot = s /\ k.gen = generation[s]
      BY DEF TokenOf
    <3>2. Releases(k) /\ ~persistent[k.slot]
      BY <2>1, <3>1 DEF Releases, SlotValid, OneShot
    <3>3. ReleaseToken(k)
      BY <1>7, <3>2 DEF HandlerReturns
    <3> QED
      BY <2>1, <3>1, <3>2, <3>3, ReleaseEffect DEF OneShot
  <2>3. /\ DOMAIN emitting = 1 .. Len(emitting) /\ Len(emitting) \in Nat \ {0}
        /\ DOMAIN emitting' = 1 .. Len(emitting) - 1
        /\ \A i \in DOMAIN emitting' : emitting'[i] = emitting[i]
    <3>1. DOMAIN emitting = 1 .. Len(emitting)
      BY LenProperties DEF EventTypeOK
    <3> QED
      BY <1>7, <3>1, Popped DEF HandlerReturns
  <2>4. TokenOf(s)' = TokenOf(s)
    BY <2>1 DEF TokenOf
  <2>5. ASSUME InEmission(s) PROVE InEmission(s)'
    <3>1. PICK i \in 1 .. Len(emitting) : emitting[i].token = TokenOf(s)
      BY <2>3, <2>5 DEF InEmission
    <3>2. i # Len(emitting)
      BY <2>2, <3>1 DEF Innermost
    <3>3. i \in 1 .. Len(emitting) - 1
      <4>1. Len(emitting) \in Nat
        BY <2>3
      <4> QED
        BY <3>2, <4>1
    <3>4. i \in DOMAIN emitting'
      BY <2>3, <3>3, Zenon
    <3>5. emitting'[i] = emitting[i]
      BY <2>3, <3>4, Zenon
    <3> QED
      BY <2>4, <3>1, <3>4, <3>5, Zenon DEF InEmission
  <2> QED
    BY <2>1, <2>5
<1>8. CASE EmitFails
  BY <1>2, <1>8 DEF EmitFails
<1>9. CASE HandlerThrows
  <2>1. 0 .. Len(emitting) - 1 \subseteq 0 .. Len(emitting)
    BY LenProperties DEF EventTypeOK
  <2> QED
    BY <1>2, <1>9, <2>1 DEF HandlerThrows
<1> QED
  BY <1>1, <1>4, <1>5, <1>6, <1>7, <1>8, <1>9
     DEF Next, vars, tableVars, history, Post, Forget, PollSystem, Loop, Skip, Drained, HandlerEnds

-----------------------------------------------------------------------------
(* The empty table satisfies the invariant, and every step keeps it.       *)
LEMMA InitIInv == Init => IInv
<1> SUFFICES ASSUME Init PROVE IInv
  OBVIOUS
<1>1. EventTypeOK
  <2>1. /\ queue \in Seq(Tokens) /\ Len(queue) <= QueueMax
        /\ emitting \in Seq([token : Tokens, object : Objects])
    BY EventAssumption, EmptySeq DEF EventAssumption, Init
  <2>2. 0 \in 0 .. GenMax
    BY EventAssumption DEF EventAssumption
  <2> QED
    BY <2>1, <2>2 DEF Init, EventTypeOK
<1>2. Named /\ OneShotGoneUnlessThrown
  BY DEF Init, Named, OneShotGoneUnlessThrown, OneShot
<1>3. DeliveredToOwner
  BY EmptySeq DEF Init, DeliveredToOwner
<1> QED
  BY <1>1, <1>2, <1>3 DEF IInv

LEMMA StepIInv == IInv /\ [Next]_vars => IInv'
BY TypeStep, NamedStep, DeliveredStep, OneShotStep DEF IInv

LEMMA Invariance == Spec => []IInv
BY InitIInv, StepIInv, PTL DEF Spec

(* The table, the queue and the emissions stay what the code takes them to *)
(* be: generations in range, tokens that name slots.                       *)
THEOREM EventsTypeCorrect == Spec => []EventTypeOK
<1>1. IInv => EventTypeOK
  BY DEF IInv
<1> QED
  BY <1>1, Invariance, PTL

(* No event reaches an object other than the one its token was issued for. *)
THEOREM EventsDelivered == Spec => []DeliveredToOwner
<1>1. IInv => DeliveredToOwner
  BY DEF IInv
<1> QED
  BY <1>1, Invariance, PTL

(* A one-shot source with an event ends with its handler, or an exception  *)
(* ended one.                                                              *)
THEOREM OneShotsEnd == Spec => []OneShotGoneUnlessThrown
<1>1. IInv => OneShotGoneUnlessThrown
  BY DEF IInv
<1> QED
  BY <1>1, Invariance, PTL

(* A step that takes a registration away and changes the emissions is a    *)
(* handler's return, and the registration is that of the handler.          *)
LEMMA OwnStep ==
  IInv /\ [Next]_vars =>
    [\A s \in Slots :
          source[s] # Nil /\ source'[s] = Nil /\ emitting' # emitting
              => /\ ~persistent[s]
                 /\ Innermost.token = TokenOf(s)]_vars
<1> SUFFICES ASSUME IInv, Next, NEW s \in Slots,
                    source[s] # Nil, source'[s] = Nil, emitting' # emitting
             PROVE  ~persistent[s] /\ Innermost.token = TokenOf(s)
  OBVIOUS
<1>1. EventTypeOK
  BY DEF IInv
<1>2. HandlerReturns
  <2>1. source' # source
    OBVIOUS
  <2> QED
    BY <2>1 DEF Next, tableVars, history, Post, Forget, Release, Register, PollSystem,
                Loop, Skip, Emit, EmitFails, Drained, HandlerEnds, HandlerThrows
<1> DEFINE k == Innermost.token
<1>3. k \in Tokens
  BY <1>1, <1>2, InnermostType DEF HandlerReturns
<1>4. ~persistent[k.slot] /\ ReleaseToken(k)
  BY <1>2 DEF HandlerReturns, tableVars
<1>5. Releases(k) /\ source' = [source EXCEPT ![k.slot] = Nil]
  BY <1>4 DEF ReleaseToken, tableVars
<1>6. s = k.slot
  BY <1>1, <1>5 DEF EventTypeOK
<1>7. k = [gen |-> k.gen, slot |-> k.slot]
  BY <1>3 DEF Tokens
<1> QED
  BY <1>4, <1>5, <1>6, <1>7 DEF Releases, SlotValid, TokenOf

(* What ends with a handler is the one-shot registration it ran for.       *)
THEOREM AutoReleaseOwn == Spec => AutoReleaseIsOwn
BY OwnStep, Invariance, PTL DEF Spec, AutoReleaseIsOwn
=============================================================================
