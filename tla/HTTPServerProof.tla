-------------------------- MODULE HTTPServerProof ---------------------------
(***************************************************************************)
(* For any clients, any number of slots and any limits, the server owns    *)
(* exactly the sockets and streams of its table, and never sends another   *)
(* amount than it announced.                                               *)
(*                                                                         *)
(* The argument: a connection is in a Good state by itself (what it has    *)
(* sent and what is left of its stream add up to what it announced, and    *)
(* the buffer holds no more than is left), and the sockets and streams are *)
(* those of the slots (Owned).  Every step of Service either gives one     *)
(* slot another Good state of the same client (BecomesKeeps), closes one   *)
(* slot (EndsKeeps) or, when a handler stops the server, closes them all.  *)
(***************************************************************************)
EXTENDS HTTPServer, FiniteSetTheorems, TLAPS

-----------------------------------------------------------------------------
\* The connection x is sending a stream.
Sends(x) == x.state = 1 /\ x.response.stream

\* What is true of a response on its way.
Honest(x) ==
    /\ x.response.silent => x.sent = 0
    /\ x.response.stream =>
         /\ x.streamRemaining >= 0
         /\ x.sent + x.streamRemaining = x.response.length
         /\ x.buffered <= x.streamRemaining
    /\ ~x.response.stream =>
         /\ x.sent <= x.response.body
         /\ x.response.length >= 0 /\ ~x.response.silent => x.response.body = x.response.length

Good(x) == x \in Reading \cup Writing /\ (x \in Writing => Honest(x))

\* Every slot is free or holds a connection in a good state.
TableOK ==
    /\ connections \in [Index -> Reading \cup Writing \cup {None}]
    /\ \A i \in Occupied : Good(connections[i])

\* The sockets and the streams are those of the slots, each of one slot.
Owned ==
    /\ \A i, j \in Occupied : connections[i].client = connections[j].client => i = j
    /\ sockets = {connections[i].client : i \in Occupied}
    /\ streams = {connections[i].client : i \in {j \in Occupied : Sends(connections[j])}}

IInv == TableOK /\ Owned

-----------------------------------------------------------------------------
(* Minima.                                                                 *)

\* A set of naturals that is not empty holds its minimum.
LEMMA MinOfNats ==
  ASSUME NEW S \in SUBSET Nat, S # {}
  PROVE  Min(S) \in S /\ \A y \in S : Min(S) <= y
<1> DEFINE Less == {p \in Nat \X Nat : p[1] < p[2]}
<1>1. PICK x \in S : \A y \in S : <<y, x>> \notin Less
  <2>1. IsWellFoundedOn(Less, Nat)
    BY NatLessThanWellFounded DEF OpToRel
  <2> HIDE DEF Less
  <2> QED BY <2>1, WFMin
<1>2. ASSUME NEW y \in S, ~ x <= y PROVE FALSE
  <2>1. <<y, x>> \in Less
    BY <1>2
  <2> QED BY <1>1, <2>1
<1> QED BY <1>2 DEF Min

LEMMA MinOfPair ==
  ASSUME NEW a \in Int, NEW b \in Int
  PROVE  Min({a, b}) = IF a <= b THEN a ELSE b
<1>1. \E x \in {a, b} : \A y \in {a, b} : x <= y
  OBVIOUS
<1>2. Min({a, b}) \in {a, b} /\ Min({a, b}) <= a /\ Min({a, b}) <= b
  BY <1>1 DEF Min
<1> QED BY <1>2

-----------------------------------------------------------------------------
(* The connections of the table, one by one.                               *)

\* A connection has a client, and either state has its own fields.
LEMMA GoodTypes ==
  ASSUME NEW x, Good(x)
  PROVE  /\ x # None /\ x.client \in Clients
         /\ x.state = 0 => x \in Reading /\ x \notin Writing
         /\ x.state = 1 => x \in Writing /\ Honest(x)
         /\ x.state \in {0, 1}
BY NullAssumption DEF Good, Reading, Writing

\* The connection whose step it is.
LEMMA TheStep ==
  ASSUME TableOK, Stepping
  PROVE  /\ slot \in Occupied /\ slot \in Index
         /\ conn = connections[slot] /\ Good(conn)
<1>1. Waiting \subseteq Occupied /\ Occupied \subseteq Index /\ Index \subseteq Nat
  BY ServerAssumption DEF Waiting, Occupied, Index
<1>2. slot \in Waiting
  BY <1>1, MinOfNats DEF Stepping, slot
<1> QED BY <1>1, <1>2 DEF TableOK, conn

\* One slot x is given another state y of its client, or of a new client.
LEMMA SlotGiven ==
  ASSUME IInv, NEW s \in Index, NEW x, Good(x),
         connections' = [connections EXCEPT ![s] = x],
         s \in Occupied => x.client = connections[s].client,
         s \notin Occupied => x.client \notin sockets,
         s \in Occupied => (Sends(connections[s]) => Sends(x)),
         sockets' = sockets \cup {x.client},
         streams' = IF Sends(x) THEN streams \cup {x.client} ELSE streams
  PROVE  IInv'
<1> DEFINE T == Reading \cup Writing \cup {None}
<1>1. connections \in [Index -> T]
  BY DEF IInv, TableOK
<1>2. x \in T /\ x # None
  BY GoodTypes DEF Good
<1>3. /\ connections' \in [Index -> T]
      /\ connections'[s] = x
      /\ \A i \in Index : i # s => connections'[i] = connections[i]
  BY <1>1, <1>2
<1> HIDE DEF T
<1>4. Occupied' = Occupied \cup {s} /\ Occupied \subseteq Index
  BY <1>2, <1>3 DEF Occupied
<1>5. TableOK'
  <2>1. \A i \in Occupied' : Good(connections'[i])
    BY <1>3, <1>4 DEF IInv, TableOK
  <2> QED BY <1>3, <2>1 DEF TableOK, T, Good, Honest, Index, Reading, Writing
<1>6. \A i \in Occupied : connections[i].client \in sockets
  BY DEF IInv, Owned
<1>7. ASSUME NEW i \in Occupied', NEW j \in Occupied',
             connections'[i].client = connections'[j].client
      PROVE  i = j
  <2>1. ASSUME NEW k \in Occupied, k # s PROVE connections[k].client # x.client
    <3>1. CASE s \in Occupied
      BY <2>1, <3>1 DEF IInv, Owned
    <3>2. CASE s \notin Occupied
      BY <2>1, <3>2, <1>6
    <3> QED BY <3>1, <3>2
  <2> QED BY <1>3, <1>4, <1>7, <2>1 DEF IInv, Owned
<1>8. sockets' = {connections'[i].client : i \in Occupied'}
  <2>1. sockets = {connections[i].client : i \in Occupied}
    BY DEF IInv, Owned
  <2>2. ASSUME NEW c \in sockets' PROVE \E i \in Occupied' : connections'[i].client = c
    <3>1. CASE c = x.client
      BY <3>1, <1>3, <1>4
    <3>2. CASE c # x.client
      <4>1. PICK i \in Occupied : c = connections[i].client
        BY <2>1, <2>2, <3>2
      <4>2. i # s
        BY <4>1, <3>2
      <4> QED BY <4>1, <4>2, <1>3, <1>4
    <3> QED BY <3>1, <3>2
  <2>3. ASSUME NEW i \in Occupied' PROVE connections'[i].client \in sockets'
    BY <1>3, <1>4, <1>6
  <2> QED BY <2>2, <2>3
<1>9. streams' = {connections'[i].client : i \in {j \in Occupied' : Sends(connections'[j])}}
  <2>1. streams = {connections[i].client : i \in {j \in Occupied : Sends(connections[j])}}
    BY DEF IInv, Owned
  <2>2. ASSUME NEW c \in streams'
        PROVE  \E i \in Occupied' : Sends(connections'[i]) /\ connections'[i].client = c
    <3>1. CASE c \in streams
      <4>1. PICK i \in Occupied : Sends(connections[i]) /\ c = connections[i].client
        BY <2>1, <3>1
      <4>2. CASE i = s
        BY <4>1, <4>2, <1>3, <1>4
      <4>3. CASE i # s
        BY <4>1, <4>3, <1>3, <1>4
      <4> QED BY <4>2, <4>3
    <3>2. CASE c \notin streams
      BY <2>2, <3>2, <1>3, <1>4
    <3> QED BY <3>1, <3>2
  <2>3. ASSUME NEW i \in Occupied', Sends(connections'[i])
        PROVE  connections'[i].client \in streams'
    <3>1. CASE i = s
      BY <2>3, <3>1, <1>3
    <3>2. CASE i # s
      BY <2>1, <2>3, <3>2, <1>3, <1>4
    <3> QED BY <3>1, <3>2
  <2> QED BY <2>2, <2>3
<1> QED BY <1>5, <1>7, <1>8, <1>9 DEF IInv, Owned

\* One slot is closed, and with it the socket and the stream of its client.
LEMMA SlotClosed ==
  ASSUME IInv, NEW s \in Occupied,
         connections' = [connections EXCEPT ![s] = None],
         sockets' = sockets \ {connections[s].client},
         streams' = streams \ {connections[s].client}
  PROVE  IInv'
<1> DEFINE T == Reading \cup Writing \cup {None}
<1>1. connections \in [Index -> T] /\ s \in Index
  BY DEF IInv, TableOK, Occupied
<1>2. None \in T
  OBVIOUS
<1>3. /\ connections' \in [Index -> T]
      /\ connections'[s] = None
      /\ \A i \in Index : i # s => connections'[i] = connections[i]
  BY <1>1, <1>2
<1> HIDE DEF T
<1>4. Occupied' = Occupied \ {s} /\ Occupied \subseteq Index
  BY <1>3 DEF Occupied
<1>5. TableOK'
  <2>1. \A i \in Occupied' : Good(connections'[i])
    BY <1>3, <1>4 DEF IInv, TableOK
  <2> QED BY <1>3, <2>1 DEF TableOK, T, Good, Honest, Index, Reading, Writing
<1>6. \A i, j \in Occupied : connections[i].client = connections[j].client => i = j
  BY DEF IInv, Owned
<1>7. \A i, j \in Occupied' : connections'[i].client = connections'[j].client => i = j
  BY <1>3, <1>4, <1>6
<1>8. sockets' = {connections'[i].client : i \in Occupied'}
  <2>1. sockets = {connections[i].client : i \in Occupied}
    BY DEF IInv, Owned
  <2>2. ASSUME NEW c \in sockets' PROVE \E i \in Occupied' : connections'[i].client = c
    <3>1. PICK i \in Occupied : c = connections[i].client
      BY <2>1, <2>2
    <3> QED BY <2>2, <3>1, <1>3, <1>4
  <2>3. ASSUME NEW i \in Occupied' PROVE connections'[i].client \in sockets'
    BY <2>1, <1>3, <1>4, <1>6
  <2> QED BY <2>2, <2>3
<1>9. streams' = {connections'[i].client : i \in {j \in Occupied' : Sends(connections'[j])}}
  <2>1. streams = {connections[i].client : i \in {j \in Occupied : Sends(connections[j])}}
    BY DEF IInv, Owned
  <2>2. ASSUME NEW c \in streams'
        PROVE  \E i \in Occupied' : Sends(connections'[i]) /\ connections'[i].client = c
    <3>1. PICK i \in Occupied : Sends(connections[i]) /\ c = connections[i].client
      BY <2>1, <2>2
    <3> QED BY <2>2, <3>1, <1>3, <1>4
  <2>3. ASSUME NEW i \in Occupied', Sends(connections'[i])
        PROVE  connections'[i].client \in streams'
    BY <2>1, <2>3, <1>3, <1>4, <1>6
  <2> QED BY <2>2, <2>3
<1> QED BY <1>5, <1>7, <1>8, <1>9 DEF IInv, Owned

\* Everything is closed.
LEMMA AllClosed ==
  ASSUME connections' = [i \in Index |-> None], sockets' = {}, streams' = {}
  PROVE  IInv'
<1>1. Occupied' = {}
  BY DEF Occupied, Index
<1> QED BY <1>1 DEF IInv, TableOK, Owned, Index, Reading, Writing

-----------------------------------------------------------------------------
(* The step of a connection.                                               *)

\* A connection that stays alive.
LEMMA BecomesKeeps ==
  ASSUME IInv, Stepping, NEW x, Good(x), x.client = conn.client, NEW a, Becomes(x, a),
         Sends(conn) => Sends(x),
         streams' = IF Sends(x) THEN streams \cup {x.client} ELSE streams
  PROVE  IInv'
<1>1. slot \in Occupied /\ slot \in Index /\ conn = connections[slot]
  BY TheStep DEF IInv
<1>2. connections' = [connections EXCEPT ![slot] = x] /\ sockets' = sockets
  BY DEF Becomes
<1>3. x.client \in sockets
  BY <1>1 DEF IInv, Owned
<1>4. sockets' = sockets \cup {x.client}
  BY <1>2, <1>3
<1> QED BY <1>1, <1>2, <1>4, SlotGiven

\* One that stays as it was for the streams.
LEMMA BecomesSame ==
  ASSUME IInv, Stepping, NEW x, Good(x), x.client = conn.client, NEW a, Becomes(x, a),
         Sends(conn) <=> Sends(x), UNCHANGED streams
  PROVE  IInv'
<1>1. slot \in Occupied /\ conn = connections[slot]
  BY TheStep DEF IInv
<1>2. Sends(x) => x.client \in streams
  BY <1>1 DEF IInv, Owned
<1>3. streams' = IF Sends(x) THEN streams \cup {x.client} ELSE streams
  BY <1>2
<1> QED BY <1>3, BecomesKeeps

\* One that is closed.
LEMMA EndsKeeps ==
  ASSUME IInv, Stepping, Ends
  PROVE  IInv'
<1>1. slot \in Occupied /\ conn = connections[slot]
  BY TheStep DEF IInv
<1>2. /\ connections' = [connections EXCEPT ![slot] = None]
      /\ sockets' = sockets \ {connections[slot].client}
      /\ streams' = streams \ {connections[slot].client}
  BY <1>1 DEF Ends, StreamsAfterClosing
<1> QED BY <1>1, <1>2, SlotClosed

\* The open streams are of clients.
LEMMA StreamsOfClients ==
  ASSUME IInv
  PROVE  streams \subseteq Clients
<1>1. \A i \in Occupied : connections[i].client \in Clients
  BY GoodTypes DEF IInv, TableOK
<1> QED BY <1>1 DEF IInv, Owned

\* Closing all the clients' streams leaves none.
LEMMA NoStreams ==
  ASSUME IInv, streams' = StreamsAfterClosing(Clients)
  PROVE  streams' = {}
BY StreamsOfClients DEF StreamsAfterClosing

\* What _Prepare makes of a response, before anything is sent.
LEMMA PreparedIsGood ==
  ASSUME conn.client \in Clients, NEW head \in BOOLEAN, NEW y \in Answers[head]
  PROVE  /\ Good(Started(y))
         /\ Started(y).client = conn.client
         /\ Started(y).state = 1 /\ Started(y).response = y
<1> DEFINE x == Started(y)
<1>1. PICK r \in Responses : y = Prepared(r, head)
  BY DEF Answers
<1>2. /\ r.body \in Nat /\ r.stream \in BOOLEAN /\ r.noBody \in BOOLEAN
      /\ r.streamLength \in Nat \cup {-1} /\ MaxResponse \in Nat
  BY ServerAssumption DEF Responses
<1>3. /\ y \in Answer
      /\ y.stream => y.length >= 0
      /\ ~y.stream /\ y.length >= 0 /\ ~y.silent => y.body = y.length
  <2> DEFINE refused == r.stream /\ r.streamLength < 0
             dropped == ~r.stream /\ r.body > MaxResponse
             noBody == r.noBody /\ ~refused /\ ~dropped
             stream == r.stream /\ ~refused
             body == IF dropped \/ stream THEN 0 ELSE r.body
             length == IF noBody THEN 0 ELSE IF r.stream THEN r.streamLength ELSE body
  <2>1. /\ noBody \in BOOLEAN /\ stream \in BOOLEAN /\ body \in Nat
        /\ length \in Nat \cup {-1}
    BY <1>2
  <2>2. /\ stream => length >= 0
        /\ ~stream /\ length >= 0 /\ ~noBody => body = length
    BY <1>2
  <2>3. y = [body |-> body, stream |-> stream, silent |-> noBody \/ head, length |-> length]
    BY <1>1 DEF Prepared
  <2> HIDE DEF refused, dropped, noBody, stream, body, length
  <2> QED BY <2>1, <2>2, <2>3 DEF Answer
<1>4. x = [client |-> conn.client, state |-> 1, output |-> 1, response |-> y,
           streamRemaining |-> y.length, buffered |-> 0, sent |-> 0]
  BY DEF Started
<1>5. /\ y.body \in Nat /\ y.length \in Nat \cup {-1}
      /\ y.stream \in BOOLEAN /\ y.silent \in BOOLEAN
  BY <1>3 DEF Answer
<1> HIDE DEF x
<1>6. x \in Writing
  BY <1>3, <1>4, <1>5 DEF Writing
<1>7. Honest(x)
  <2>1. /\ x.response = y /\ x.streamRemaining = y.length
        /\ x.buffered = 0 /\ x.sent = 0
    BY <1>4
  <2> QED BY <1>3, <1>5, <2>1 DEF Honest
<1> QED BY <1>4, <1>6, <1>7 DEF Good, x

\* The handler, the file or the error page that answers a reading connection.
LEMMA RespondKeeps ==
  ASSUME IInv, Stepping, conn.state = 0, NEW heads \in SUBSET BOOLEAN, Respond(heads)
  PROVE  IInv'
<1>1. Good(conn) /\ conn.client \in Clients
  BY TheStep, GoodTypes DEF IInv
<1>2. PICK head \in heads : \E y \in Answers[head] :
        \/ /\ Becomes(Started(y), TRUE)
           /\ streams' = IF y.stream THEN streams \cup {conn.client} ELSE streams
        \/ Ends
        \/ /\ connections' = [i \in Index |-> None]
           /\ sockets' = {}
           /\ streams' = StreamsAfterClosing(Clients)
  BY DEF Respond
<1>3. PICK y \in Answers[head] :
        \/ /\ Becomes(Started(y), TRUE)
           /\ streams' = IF y.stream THEN streams \cup {conn.client} ELSE streams
        \/ Ends
        \/ /\ connections' = [i \in Index |-> None]
           /\ sockets' = {}
           /\ streams' = StreamsAfterClosing(Clients)
  BY <1>2
<1>4. CASE /\ Becomes(Started(y), TRUE)
           /\ streams' = IF y.stream THEN streams \cup {conn.client} ELSE streams
  <2> DEFINE x == Started(y)
  <2>1. /\ Good(x) /\ x.client = conn.client
        /\ x.state = 1 /\ x.response = y
    BY <1>1, PreparedIsGood
  <2>2. streams' = IF Sends(x) THEN streams \cup {x.client} ELSE streams
    BY <1>4, <2>1 DEF Sends
  <2>3. ~ Sends(conn)
    BY DEF Sends
  <2>4. Becomes(x, TRUE)
    BY <1>4
  <2> HIDE DEF x
  <2> QED BY <2>1, <2>2, <2>3, <2>4, BecomesKeeps
<1>5. CASE Ends
  BY <1>5, EndsKeeps
<1>6. CASE /\ connections' = [i \in Index |-> None]
           /\ sockets' = {}
           /\ streams' = StreamsAfterClosing(Clients)
  BY <1>6, NoStreams, AllClosed
<1> QED BY <1>3, <1>4, <1>5, <1>6

\* What is received leaves a connection that reads, of the same client.
LEMMA ReceivedIsReading ==
  ASSUME conn \in Reading, NEW x \in Received
  PROVE  x \in Reading /\ x.client = conn.client
<1>1. PICK y \in Read : x \in IF y.headerEnd >= 0 THEN {y}
                               ELSE Parsed(y) \cup {z \in {y} : z.inputCount < MaxHeader}
  BY DEF Received
<1>2. conn.inputCount \in Nat
  BY DEF Reading
<1>3. y \in Reading /\ y.client = conn.client
  <2>1. PICK n \in 1 .. MaxHeader + MaxBody - conn.inputCount :
          y = [conn EXCEPT !.inputCount = @ + n]
    BY <1>1 DEF Read
  <2>2. conn.inputCount + n \in Nat
    BY <1>2, ServerAssumption
  <2> QED BY <2>1, <2>2 DEF Reading
<1>4. CASE x \in Parsed(y)
  <2>1. PICK h \in conn.inputCount + 1 .. Min({y.inputCount, MaxHeader}), n \in 0 .. MaxBody :
          x = Parse(y, h, n)
    BY <1>4 DEF Parsed
  <2>2. h \in Nat /\ n \in Nat
    <3>1. y.inputCount \in Nat
      BY <1>3 DEF Reading
    <3>2. Min({y.inputCount, MaxHeader}) \in Int
      BY <3>1, ServerAssumption, MinOfPair
    <3> QED BY <3>2, <1>2, ServerAssumption
  <2> QED BY <1>3, <2>1, <2>2 DEF Parse, Reading
<1> QED BY <1>1, <1>3, <1>4

LEMMA ReadingKeeps ==
  ASSUME IInv, StepReading
  PROVE  IInv'
<1>1. Stepping /\ conn.state = 0
  BY DEF StepReading
<1>2. Good(conn) /\ conn \in Reading
  BY <1>1, TheStep, GoodTypes DEF IInv
<1>3. CASE Fail
  BY <1>1, <1>3, RespondKeeps DEF Fail
<1>4. CASE Dispatch
  BY <1>1, <1>4, RespondKeeps DEF Dispatch
<1>5. CASE Blocked
  BY <1>1, <1>2, <1>5, BecomesSame DEF Blocked
<1>6. CASE Ends
  BY <1>1, <1>6, EndsKeeps
<1>7. ASSUME NEW x \in Received, Becomes(x, x.headerEnd >= 0), UNCHANGED streams
      PROVE  IInv'
  <2>1. x \in Reading /\ x.client = conn.client
    BY <1>2, ReceivedIsReading
  <2>2. Good(x) /\ ~ Sends(x) /\ ~ Sends(conn)
    BY <1>1, <2>1 DEF Good, Sends, Reading, Writing
  <2> QED BY <1>1, <1>7, <2>1, <2>2, BecomesSame
<1> QED BY <1>3, <1>4, <1>5, <1>6, <1>7 DEF StepReading

-----------------------------------------------------------------------------
(* Writing: what each piece leaves.                                        *)

\* A piece of the interim response or of the header leaves.
LEMMA HeaderSent ==
  ASSUME NEW x \in Writing, Honest(x), x.output > 0
  PROVE  LET y == [x EXCEPT !.output = @ - 1]
         IN  Good(y) /\ y.client = x.client /\ (Sends(x) <=> Sends(y))
<1> DEFINE y == [x EXCEPT !.output = @ - 1]
<1>1. x.output - 1 \in {0, 1}
  BY DEF Writing
<1>2. y \in Writing
  BY <1>1 DEF Writing
<1>3. /\ y.client = x.client /\ y.response = x.response /\ y.sent = x.sent
      /\ y.state = x.state
      /\ y.streamRemaining = x.streamRemaining /\ y.buffered = x.buffered
  BY DEF Writing
<1> HIDE DEF y
<1>4. Honest(y)
  BY <1>3 DEF Honest
<1> QED BY <1>2, <1>3, <1>4 DEF Good, Sends, y

\* The buffer is filled from the stream.
LEMMA BufferFilled ==
  ASSUME NEW x \in Writing, Honest(x), ~ Finished(x), x.output = 0, NEW y \in Filled(x)
  PROVE  /\ y \in Writing /\ Honest(y) /\ ~ y.response.silent
         /\ y.client = x.client /\ (Sends(x) <=> Sends(y))
<1>1. ~ x.response.silent
  BY DEF Finished
<1>2. CASE x.response.stream /\ x.buffered = 0
  <2>1. PICK n \in 0 .. ReadAmount(x) : y = [x EXCEPT !.buffered = n]
    BY <1>2 DEF Filled
  <2>2. x.streamRemaining \in Nat /\ BufferSize \in Nat
    BY <1>2, ServerAssumption DEF Honest, Writing
  <2>3. n \in Nat /\ n <= x.streamRemaining
    BY <2>2, MinOfPair DEF ReadAmount
  <2>4. y \in Writing
    BY <2>1, <2>3 DEF Writing
  <2>5. /\ y.client = x.client /\ y.response = x.response /\ y.sent = x.sent
        /\ y.state = x.state
        /\ y.streamRemaining = x.streamRemaining /\ y.buffered = n
    BY <2>1 DEF Writing
  <2> QED BY <1>1, <2>3, <2>4, <2>5 DEF Honest, Sends
<1>3. CASE ~ (x.response.stream /\ x.buffered = 0)
  BY <1>1, <1>3 DEF Filled
<1> QED BY <1>2, <1>3

\* A piece of a body leaves.
LEMMA BodySent ==
  ASSUME NEW x \in Writing, Honest(x), ~ x.response.silent, ~ x.response.stream,
         NEW n \in 1 .. x.response.body - x.sent
  PROVE  LET y == [x EXCEPT !.sent = @ + n]
         IN  Good(y) /\ y.client = x.client /\ (Sends(x) <=> Sends(y))
<1> DEFINE y == [x EXCEPT !.sent = @ + n]
<1>1. x.sent \in Nat /\ x.response.body \in Nat
  BY DEF Writing, Answer
<1>2. n \in Nat /\ x.sent + n \in Nat /\ x.sent + n <= x.response.body
  BY <1>1
<1>3. y \in Writing
  BY <1>2 DEF Writing
<1>4. /\ y.client = x.client /\ y.response = x.response
      /\ y.state = x.state /\ y.sent = x.sent + n
  BY DEF Writing
<1> HIDE DEF y
<1>5. Honest(y)
  BY <1>2, <1>4 DEF Honest
<1> QED BY <1>3, <1>4, <1>5 DEF Good, Sends, y

\* A piece of a stream leaves the buffer.
LEMMA StreamSent ==
  ASSUME NEW x \in Writing, Honest(x), ~ x.response.silent, x.response.stream,
         NEW n \in 1 .. x.buffered
  PROVE  LET y == [x EXCEPT !.sent = @ + n, !.streamRemaining = @ - n, !.buffered = @ - n]
         IN  Good(y) /\ y.client = x.client /\ (Sends(x) <=> Sends(y))
<1> DEFINE y == [x EXCEPT !.sent = @ + n, !.streamRemaining = @ - n, !.buffered = @ - n]
<1>1. x.sent \in Nat /\ x.buffered \in Nat /\ x.streamRemaining \in Nat
  BY DEF Writing, Honest
<1>2. /\ n \in Nat /\ x.sent + n \in Nat
      /\ x.streamRemaining - n \in Nat /\ x.buffered - n \in Nat
  BY <1>1 DEF Honest
<1>3. y \in Writing
  <2> DEFINE a == [x EXCEPT !.sent = @ + n]
             b == [a EXCEPT !.streamRemaining = @ - n]
  <2>1. a \in Writing /\ a.streamRemaining = x.streamRemaining /\ a.buffered = x.buffered
    BY <1>2 DEF Writing
  <2> HIDE DEF a
  <2>2. b \in Writing /\ b.buffered = x.buffered
    BY <1>2, <2>1 DEF Writing
  <2> HIDE DEF b
  <2>3. [b EXCEPT !.buffered = @ - n] \in Writing
    BY <1>2, <2>2 DEF Writing
  <2>4. y = [b EXCEPT !.buffered = @ - n]
    BY DEF a, b, Writing
  <2> QED BY <2>3, <2>4
<1>4. /\ y.client = x.client /\ y.response = x.response
      /\ y.state = x.state /\ y.sent = x.sent + n
      /\ y.streamRemaining = x.streamRemaining - n /\ y.buffered = x.buffered - n
  BY DEF Writing
<1> HIDE DEF y
<1>5. Honest(y)
  <2>1. x.response.length \in Int
    BY DEF Writing, Answer
  <2> QED BY <1>1, <1>2, <1>4, <2>1 DEF Honest
<1> QED BY <1>3, <1>4, <1>5 DEF Good, Sends, y

LEMMA WritingKeeps ==
  ASSUME IInv, StepWriting
  PROVE  IInv'
<1>1. Stepping /\ conn.state = 1
  BY DEF StepWriting
<1>2. Good(conn) /\ conn \in Writing /\ Honest(conn)
  BY <1>1, TheStep, GoodTypes DEF IInv
<1>3. CASE Ends
  BY <1>1, <1>3, EndsKeeps
<1>4. CASE Blocked
  BY <1>1, <1>2, <1>4, BecomesSame DEF Blocked
<1>5. CASE conn.output > 0 /\ Becomes([conn EXCEPT !.output = @ - 1], TRUE) /\ UNCHANGED streams
  <2> DEFINE y == [conn EXCEPT !.output = @ - 1]
  <2>1. Good(y) /\ y.client = conn.client /\ (Sends(conn) <=> Sends(y))
    BY <1>2, <1>5, HeaderSent
  <2>2. Becomes(y, TRUE)
    BY <1>5
  <2> HIDE DEF y
  <2> QED BY <1>1, <1>5, <2>1, <2>2, BecomesSame
<1>6. ASSUME conn.output = 0, ~ Finished(conn), NEW x \in Filled(conn),
             ~ (x.response.stream /\ x.buffered = 0),
             \/ Becomes(x, FALSE) /\ UNCHANGED streams
             \/ SendPiece(x)
      PROVE  IInv'
  <2>1. /\ x \in Writing /\ Honest(x) /\ ~ x.response.silent /\ x.response.stream \in BOOLEAN
        /\ x.client = conn.client /\ (Sends(conn) <=> Sends(x))
    <3>1. /\ x \in Writing /\ Honest(x) /\ ~ x.response.silent
          /\ x.client = conn.client /\ (Sends(conn) <=> Sends(x))
      BY <1>2, <1>6, BufferFilled
    <3> QED BY <3>1 DEF Writing, Answer
  <2>2. CASE Becomes(x, FALSE) /\ UNCHANGED streams
    <3>1. Good(x)
      BY <2>1 DEF Good
    <3> QED BY <1>1, <2>1, <2>2, <3>1, BecomesSame
  <2>3. CASE SendPiece(x) /\ ~ x.response.stream
    <3>1. PICK n \in 1 .. x.response.body - x.sent :
            Becomes([x EXCEPT !.sent = @ + n], TRUE) /\ UNCHANGED streams
      BY <2>3 DEF SendPiece
    <3> DEFINE y == [x EXCEPT !.sent = @ + n]
    <3>2. Good(y) /\ y.client = x.client /\ (Sends(x) <=> Sends(y))
      BY <2>1, <2>3, BodySent
    <3>3. Becomes(y, TRUE)
      BY <3>1
    <3> HIDE DEF y
    <3> QED BY <1>1, <2>1, <3>1, <3>2, <3>3, BecomesSame
  <2>4. CASE SendPiece(x) /\ x.response.stream
    <3>1. PICK n \in 1 .. x.buffered :
            /\ Becomes([x EXCEPT !.sent = @ + n, !.streamRemaining = @ - n,
                                 !.buffered = @ - n], TRUE)
            /\ UNCHANGED streams
      BY <2>4 DEF SendPiece
    <3> DEFINE y == [x EXCEPT !.sent = @ + n, !.streamRemaining = @ - n, !.buffered = @ - n]
    <3>2. Good(y) /\ y.client = x.client /\ (Sends(x) <=> Sends(y))
      BY <2>1, <2>4, StreamSent
    <3>3. Becomes(y, TRUE)
      BY <3>1
    <3> HIDE DEF y
    <3> QED BY <1>1, <2>1, <3>1, <3>2, <3>3, BecomesSame
  <2> QED BY <1>6, <2>1, <2>2, <2>3, <2>4
<1>7. conn.output > 0 \/ conn.output = 0
  BY <1>2 DEF Writing
<1>8. CASE conn.output > 0
  <2>1. \/ Ends \/ Blocked
        \/ Becomes([conn EXCEPT !.output = @ - 1], TRUE) /\ UNCHANGED streams
    BY <1>8 DEF StepWriting
  <2> QED BY <1>3, <1>4, <1>5, <1>8, <2>1
<1>9. CASE conn.output = 0
  <2>1. ~ conn.output > 0
    BY <1>9
  <2>2. \/ Ends
        \/ /\ ~ Finished(conn)
           /\ \E x \in Filled(conn) :
                IF x.response.stream /\ x.buffered = 0 THEN Ends
                ELSE \/ Becomes(x, FALSE) /\ UNCHANGED streams
                     \/ Ends
                     \/ SendPiece(x)
    BY <2>1 DEF StepWriting
  <2> QED BY <1>3, <1>6, <1>9, <2>2
<1> QED BY <1>7, <1>8, <1>9

-----------------------------------------------------------------------------
(* The inductive invariant.                                                *)

\* A waiting client is accepted into the first free slot, or turned away.
LEMMA AcceptKeeps ==
  ASSUME IInv, NEW c \in Clients, Accept(c)
  PROVE  IInv'
<1>1. CASE /\ connections' = [connections EXCEPT ![Min(Free)] = New(c)]
           /\ sockets' = sockets \cup {c}
           /\ UNCHANGED streams
  <2>1. Free \in SUBSET Nat /\ Free # {} /\ Free \subseteq Index
    BY ServerAssumption DEF Accept, Accepting, Free, Index
  <2>2. Min(Free) \in Index /\ Min(Free) \notin Occupied
    BY <2>1, MinOfNats DEF Free
  <2> DEFINE x == New(c)
  <2>3. Good(x) /\ x.client = c /\ ~ Sends(x)
    <3>1. x \in Reading
      BY DEF New, Reading
    <3> QED BY <3>1 DEF Good, Sends, New, Reading, Writing
  <2>4. c \notin sockets
    BY DEF Accept
  <2>5. connections' = [connections EXCEPT ![Min(Free)] = x]
    BY <1>1
  <2> HIDE DEF x
  <2> QED BY <1>1, <2>2, <2>3, <2>4, <2>5, SlotGiven
<1>2. CASE UNCHANGED <<connections, sockets, streams>>
  BY <1>2 DEF IInv, TableOK, Owned, Occupied, Good, Honest, Sends, Index, Reading, Writing
<1> QED BY <1>1, <1>2 DEF Accept

\* The table, its sockets and its streams hold together.
THEOREM TableInductive == Spec => []IInv
<1>1. Init => IInv
  <2> SUFFICES ASSUME Init PROVE IInv
    OBVIOUS
  <2>1. Occupied = {}
    BY DEF Init, Occupied, Index
  <2> QED BY <2>1 DEF Init, IInv, TableOK, Owned, Index, Reading, Writing
<1>2. IInv /\ [Next]_vars => IInv'
  <2> SUFFICES ASSUME IInv, [Next]_vars PROVE IInv'
    OBVIOUS
  <2>1. CASE UNCHANGED <<connections, sockets, streams>>
    BY <2>1 DEF IInv, TableOK, Owned, Occupied, Good, Honest, Sends, Index, Reading, Writing
  <2>2. CASE Start
    BY <2>1, <2>2 DEF Start
  <2>3. CASE Stop
    BY <2>3, NoStreams, AllClosed DEF Stop
  <2>4. ASSUME NEW c \in Clients, Expire(c) PROVE IInv'
    BY <2>1, <2>4 DEF Expire
  <2>5. CASE ServiceBegin
    BY <2>1, <2>5 DEF ServiceBegin
  <2>6. ASSUME NEW c \in Clients, Accept(c) PROVE IInv'
    BY <2>6, AcceptKeeps
  <2>7. CASE AcceptEnd
    BY <2>1, <2>7 DEF AcceptEnd
  <2>8. CASE StepReading
    BY <2>8, ReadingKeeps
  <2>9. CASE StepWriting
    BY <2>9, WritingKeeps
  <2>10. CASE ServiceReturns
    BY <2>1, <2>10 DEF ServiceReturns
  <2>11. CASE UNCHANGED vars
    BY <2>1, <2>11 DEF vars
  <2> QED BY <2>2, <2>3, <2>4, <2>5, <2>6, <2>7, <2>8, <2>9, <2>10, <2>11
          DEF Next, ServiceStep
<1> QED BY <1>1, <1>2, PTL DEF Spec

-----------------------------------------------------------------------------
(* As many connections live as slots are occupied, for no two slots share  *)
(* one.                                                                    *)
LEMMA OneEach ==
  ASSUME IInv
  PROVE  Cardinality(Live) = Cardinality(Occupied)
<1> DEFINE f == [i \in Occupied |-> connections[i]]
<1>1. \A i, j \in Occupied : connections[i].client = connections[j].client => i = j
  BY DEF IInv, Owned
<1>2. f \in [Occupied -> Live]
  BY DEF Live
<1>3. \A i, j \in Occupied : f[i] = f[j] => i = j
  BY <1>1
<1>4. \A x \in Live : \E i \in Occupied : f[i] = x
  BY DEF Live
<1> HIDE DEF f
<1>5. ExistsBijection(Occupied, Live)
  <2>1. f \in Bijection(Occupied, Live)
    BY <1>2, <1>3, <1>4 DEF Bijection, Injection, Surjection, IsInjective
  <2> QED BY <2>1 DEF ExistsBijection
<1>6. IsFiniteSet(Occupied)
  <2>1. IsFiniteSet(Index)
    BY FS_Interval, ServerAssumption DEF Index
  <2> QED BY <2>1, FS_Subset DEF Occupied
<1> QED BY <1>5, <1>6, FS_Bijection

(* The open sockets and streams are those of the table's connections, one  *)
(* each, for any clients, slots and limits: no exception, timeout,         *)
(* disconnection or Stop leaves one behind, and none is closed before its  *)
(* connection is (httpserver.bmx:391-412, 657-663).                        *)
THEOREM SocketsAndStreamsOwned == Spec => []ResourcesOwned
<1>1. IInv => ResourcesOwned
  <2> SUFFICES ASSUME IInv PROVE ResourcesOwned
    OBVIOUS
  <2>1. sockets = {x.client : x \in Live}
    BY DEF IInv, Owned, Live
  <2>2. \A x, y \in Live : x.client = y.client => x = y
    BY DEF IInv, Owned, Live
  <2>3. streams = {x.client : x \in {y \in Live : y.state = 1 /\ y.response.stream}}
    BY DEF IInv, Owned, Live, Sends
  <2> QED BY <2>1, <2>2, <2>3, OneEach DEF ResourcesOwned
<1> QED BY <1>1, TableInductive, PTL

(* No connection that announces a length sends more than it, none of them  *)
(* is finished with less, and a silent response sends nothing, whatever    *)
(* bodies and streams the handler sets, and whatever the sizes of the      *)
(* buffer and of the pieces (httpserver.bmx:422-461, 713-755).             *)
THEOREM ResponsesAreHonest == Spec => []ResponseHonest
<1>1. IInv => ResponseHonest
  <2> SUFFICES ASSUME IInv, NEW x \in Live, x.state = 1
               PROVE  /\ x.response.silent => x.sent = 0
                      /\ x.response.length >= 0 => x.sent <= x.response.length
                      /\ x.response.length >= 0 /\ ~x.response.silent /\ Finished(x) =>
                           x.sent = x.response.length
    BY DEF ResponseHonest
  <2>1. x \in Writing /\ Honest(x)
    <3>1. Good(x)
      BY DEF IInv, TableOK, Live
    <3> QED BY <3>1, GoodTypes
  <2>2. /\ x.sent \in Nat /\ x.response.length \in Int /\ x.streamRemaining \in Int
        /\ x.response.body \in Nat
        /\ x.response.stream \in BOOLEAN /\ x.response.silent \in BOOLEAN
    BY <2>1 DEF Writing, Answer
  <2>3. x.response.silent => x.sent = 0
    BY <2>1 DEF Honest
  <2>4. ASSUME x.response.length >= 0 PROVE x.sent <= x.response.length
    BY <2>1, <2>2, <2>4 DEF Honest
  <2>5. ASSUME x.response.length >= 0, ~x.response.silent, Finished(x)
        PROVE  x.sent = x.response.length
    BY <2>1, <2>2, <2>5 DEF Honest, Finished
  <2> QED BY <2>3, <2>4, <2>5
<1> QED BY <1>1, TableInductive, PTL
=============================================================================
