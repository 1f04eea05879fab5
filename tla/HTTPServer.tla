---------------------------- MODULE HTTPServer ------------------------------
(***************************************************************************)
(* The connections of network.mod/httpserver.mod/httpserver.bmx: Service   *)
(* accepts clients into free slots and gives each connection a step, which *)
(* reads a piece of the request, runs the handler when the request is      *)
(* complete, or writes a piece of the response.  What the wire carries is  *)
(* abstracted to amounts; parsing and routing are a choice of outcomes.    *)
(* Clients, handlers, files and the clock are the environment: a socket    *)
(* operation may take or give any amount, block or fail at any time.       *)
(***************************************************************************)
EXTENDS Integers, FiniteSets, FiniteSetsExt

CONSTANTS
    Clients,      \* each has at most one open connection; it may come again
    Slots,        \* Len(connections) = Slots
    MaxSteps,     \* the argument of Service
    MaxHeader,    \* maxHeaderBytes
    MaxBody,      \* maxBodyBytes
    MaxResponse,  \* maxResponseBodyBytes
    BufferSize,   \* ioBufferBytes
    Bodies,       \* lengths of the bodies that handlers choose from, and
    Lengths,      \* the lengths that they give for streams
    MaxFailures,  \* bound on the connections for which there is no memory
    None

ASSUME ServerAssumption ==
    /\ {Slots, MaxSteps, MaxHeader, BufferSize} \subseteq Nat \ {0}
    /\ {MaxBody, MaxResponse, MaxFailures} \subseteq Nat
    /\ Bodies \cup Lengths \subseteq Nat
    /\ None \notin Clients

VARIABLES
    listening,    \* listener # Null
    connections,  \* slot -> connection or None
    sockets,      \* clients whose socket on this side is open
    streams,      \* clients whose response stream is open
    late,         \* clients whose current deadline has passed
    failures,     \* accepts that failed for lack of memory
    call          \* the Service call in progress: its done and i, or None

vars == <<listening, connections, sockets, streams, late, failures, call>>

Index == 0 .. Slots - 1

\* A connection that reads, and one that writes its response; None is neither.
Reading == [client : Clients, state : {0},
            inputCount : Nat, headerEnd : Nat \cup {-1}, expectedBody : Nat]
\* What it has to write: the body, or an open stream (then no body), or nothing
\* when silent, and the length that it announces.
Answer == [body : Nat, stream : BOOLEAN, silent : BOOLEAN, length : Nat \cup {-1}]
Writing == [client : Clients, state : {1}, output : {0, 1}, response : Answer,
            streamRemaining : Nat \cup {-1}, buffered : Nat, sent : Nat]

ASSUME NullAssumption == None \notin Reading \cup Writing

New(client) == [client |-> client, state |-> 0,
                inputCount |-> 0, headerEnd |-> -1, expectedBody |-> 0]

Init ==
    /\ listening = FALSE
    /\ connections = [i \in Index |-> None]
    /\ sockets = {} /\ streams = {} /\ late = {}
    /\ failures = 0
    /\ call = None

-----------------------------------------------------------------------------
\* Mutant: _Close leaves the stream of the response open.
StreamsAfterClosingSockets(C) == streams

\* The open streams after _Close of the connections of the clients C.
StreamsAfterClosing(C) == streams \ C

Occupied == {i \in Index : connections[i] # None}
Free == Index \ Occupied

Start ==
    /\ call = None
    /\ ~listening
    /\ listening' = TRUE
    /\ UNCHANGED <<connections, sockets, streams, late, failures, call>>

\* Stop, between two calls of Service.
Stop ==
    /\ call = None
    /\ listening
    /\ listening' = FALSE
    /\ connections' = [i \in Index |-> None]
    /\ sockets' = {} /\ late' = {}
    /\ streams' = StreamsAfterClosing(Clients)
    /\ UNCHANGED <<failures, call>>

\* The clock reaches the deadline that the connection of c has now.
Expire(c) ==
    /\ c \in sockets \ late
    /\ late' = late \cup {c}
    /\ UNCHANGED <<listening, connections, sockets, streams, failures, call>>

-----------------------------------------------------------------------------
(* Service: first the accepts, then a step for each slot, at most MaxSteps *)
(* in all.                                                                 *)

ServiceBegin ==
    /\ call = None /\ listening
    /\ call' = [done |-> 0, i |-> -1]
    /\ UNCHANGED <<listening, connections, sockets, streams, late, failures>>

Accepting == call # None /\ call.i = -1 /\ call.done < MaxSteps /\ Free # {}

\* A waiting client; when there is no memory for it, its socket is closed.
Accept(c) ==
    /\ Accepting
    /\ c \notin sockets
    /\ \/ /\ connections' = [connections EXCEPT ![Min(Free)] = New(c)]
          /\ sockets' = sockets \cup {c}
          /\ UNCHANGED failures
       \/ /\ failures < MaxFailures
          /\ failures' = failures + 1
          /\ UNCHANGED <<connections, sockets>>
    /\ call' = [call EXCEPT !.done = @ + 1]
    /\ UNCHANGED <<listening, streams, late>>

\* No client, no slot, or no step left: on to the connections.
AcceptEnd ==
    /\ call # None /\ call.i = -1
    /\ call' = [call EXCEPT !.i = 0]
    /\ UNCHANGED <<listening, connections, sockets, streams, late, failures>>

\* The slots that may still have their step in this call.
Waiting == {i \in Occupied : call # None /\ 0 <= call.i /\ call.i <= i /\ call.done < MaxSteps}

ServiceReturns ==
    /\ call # None /\ call.i >= 0
    /\ Waiting = {}
    /\ call' = None
    /\ UNCHANGED <<listening, connections, sockets, streams, late, failures>>

\* The next one has it; empty slots are passed over.
Stepping == Waiting # {}
slot == Min(Waiting)
conn == connections[slot]
Advance == call' = [done |-> call.done + 1, i |-> slot + 1] /\ UNCHANGED failures

\* The step ends with the connection as x, alive; active: lastActivity is now.
Becomes(x, active) ==
    /\ Advance
    /\ connections' = [connections EXCEPT ![slot] = x]
    /\ late' = IF active THEN late \ {conn.client} ELSE late
    /\ UNCHANGED <<listening, sockets>>

\* The step ends in state 3, by itself or by an exception: _Close.
Ends ==
    /\ Advance
    /\ connections' = [connections EXCEPT ![slot] = None]
    /\ sockets' = sockets \ {conn.client} /\ late' = late \ {conn.client}
    /\ streams' = StreamsAfterClosing({conn.client})
    /\ UNCHANGED listening

-----------------------------------------------------------------------------
(* Reading.                                                                *)

(* What a handler, a static file or the error page leaves in the response: *)
(* a body (of no bytes: none), a stream with the length that was given for *)
(* it (-1: none was), or both; noBody: its status is one without a body.   *)
Responses == [body : Bodies \cup {0}, stream : BOOLEAN,
              streamLength : Lengths \cup {-1}, noBody : BOOLEAN]

(* _Prepare, with the request's method as head.  A stream without length   *)
(* is closed; its -1 is announced, and a body that was set beside it stays *)
(* and is sent.  A body alone is dropped when it is over the limit.  Both  *)
(* set the status to 500, which is one with a body.                        *)
Prepared(r, head) ==
    LET refused == r.stream /\ r.streamLength < 0
        dropped == ~r.stream /\ r.body > MaxResponse
        noBody == r.noBody /\ ~refused /\ ~dropped
        stream == r.stream /\ ~refused
        body == IF dropped \/ stream THEN 0 ELSE r.body
        length == IF r.stream THEN r.streamLength ELSE body
    IN [body |-> body, stream |-> stream, silent |-> noBody \/ head,
        length |-> IF noBody THEN 0 ELSE length]

Answers == [head \in BOOLEAN |-> {Prepared(r, head) : r \in Responses}]

\* The connection as it begins to write.
Started(y) == [client |-> conn.client, state |-> 1, output |-> 1, response |-> y,
               streamRemaining |-> y.length, buffered |-> 0, sent |-> 0]

(* The response of a handler or of the error page, to a request that is a  *)
(* HEAD or not; either may throw, also after it has opened a stream, and   *)
(* may stop the server as the last thing it does.                          *)
Respond(heads) ==
    \E head \in heads : \E y \in Answers[head] :
      \/ /\ Becomes(Started(y), TRUE)
         /\ streams' = IF y.stream THEN streams \cup {conn.client} ELSE streams
      \/ Ends
      \/ /\ Advance
         /\ listening' = FALSE
         /\ connections' = [i \in Index |-> None]
         /\ sockets' = {} /\ late' = {}
         /\ streams' = StreamsAfterClosing(Clients)

\* The handler of a route, or the error page for none.
Dispatch == Respond(BOOLEAN)

\* The error page; before there is a request, it is not answering a HEAD.
Fail == Respond(IF conn.headerEnd >= 0 THEN BOOLEAN ELSE {FALSE})

\* TryRecv gives some bytes.
Read == {[conn EXCEPT !.inputCount = @ + n] : n \in 1 .. MaxHeader + MaxBody - conn.inputCount}

\* _Parse of a header that ends at h: the request has a body of n bytes.
Parse(x, h, n) == [x EXCEPT !.headerEnd = h, !.expectedBody = n]

\* The header may end at any of the new bytes, up to the limit.
Parsed(x) ==
    {Parse(x, h, n) : h \in conn.inputCount + 1 .. Min({x.inputCount, MaxHeader}),
                      n \in 0 .. MaxBody}

\* _Read: how the connection may be with the new bytes, when they are not refused.
Received ==
    UNION {IF x.headerEnd >= 0 THEN {x}
           ELSE Parsed(x) \cup {y \in {x} : y.inputCount < MaxHeader} : x \in Read}

\* The request is complete when its body is.
Complete(x) == x.headerEnd >= 0 /\ x.inputCount - x.headerEnd >= x.expectedBody

Timeout == conn.client \in late

Blocked == Becomes(conn, FALSE) /\ UNCHANGED streams

(* What comes before the end of the header may be refused: a line or a     *)
(* header that is too long, or one that _Parse does not accept.  While the *)
(* header is incomplete, the deadline stays the one of the accept.         *)
StepReading ==
    /\ Stepping /\ conn.state = 0
    /\ IF Timeout THEN Fail
       ELSE \/ Blocked
            \/ Ends
            \/ conn.headerEnd < 0 /\ Fail
            \/ \E x \in Received :
                 ~Complete(x) /\ Becomes(x, x.headerEnd >= 0) /\ UNCHANGED streams
            \/ (\E x \in Received : Complete(x)) /\ Dispatch

-----------------------------------------------------------------------------
(* Writing.                                                                *)

\* Mutant: a full buffer is read from the stream whatever was announced.
ReadAmountFull(x) == BufferSize

ReadAmount(x) == Min({BufferSize, x.streamRemaining})

\* All of the stream or of the body that the code will send has been sent.
Finished(x) ==
    /\ x.output = 0
    /\ \/ x.response.silent
       \/ x.response.stream /\ x.streamRemaining <= 0
       \/ ~x.response.stream /\ x.sent = x.response.body

\* A piece of the body leaves; unsent parts of the buffer are kept for later.
SendPiece(x) ==
    IF x.response.stream
      THEN \E n \in 1 .. x.buffered :
             /\ Becomes([x EXCEPT !.sent = @ + n, !.streamRemaining = @ - n,
                                  !.buffered = @ - n], TRUE)
             /\ UNCHANGED streams
      ELSE \E n \in 1 .. x.response.body - x.sent :
             Becomes([x EXCEPT !.sent = @ + n], TRUE) /\ UNCHANGED streams

\* The stream gives at most what is asked for, or nothing when it is shorter.
Filled(x) ==
    IF x.response.stream /\ x.buffered = 0
      THEN {[x EXCEPT !.buffered = n] : n \in 0 .. ReadAmount(x)} ELSE {x}

\* Mutant: the write timeout is not looked at.
WriteTimeoutIgnored == FALSE

WriteTimeout == conn.client \in late

StepWriting ==
    /\ Stepping /\ conn.state = 1
    /\ IF WriteTimeout THEN Ends
       ELSE IF conn.output > 0
         THEN \/ Blocked \/ Ends
              \/ Becomes([conn EXCEPT !.output = @ - 1], TRUE) /\ UNCHANGED streams
       ELSE IF Finished(conn) THEN Ends
       ELSE \E x \in Filled(conn) :
              IF x.response.stream /\ x.buffered = 0 THEN Ends
              ELSE \/ Becomes(x, FALSE) /\ UNCHANGED streams
                   \/ Ends
                   \/ SendPiece(x)

-----------------------------------------------------------------------------
ServiceStep ==
    \/ ServiceBegin \/ (\E c \in Clients : Accept(c)) \/ AcceptEnd
    \/ StepReading \/ StepWriting \/ ServiceReturns

Next ==
    \/ Start \/ Stop
    \/ \E c \in Clients : Expire(c)
    \/ ServiceStep

Spec == Init /\ [][Next]_vars

(* The application calls Service again and again, as long as the server    *)
(* runs, and time passes.                                                  *)
FairSpec == Spec /\ WF_vars(ServiceStep) /\ \A c \in Clients : WF_vars(Expire(c))

-----------------------------------------------------------------------------
(* Properties                                                              *)

Live == {connections[i] : i \in Occupied}

(* The open sockets are those of the table's connections, one each, and an *)
(* open stream belongs to one of them that is sending it: no exception,    *)
(* timeout, disconnection or Stop, not even inside a handler, leaves one   *)
(* behind (httpserver.bmx:391-412, 657-663; README.md of the module:       *)
(* "Stop() closes all active sockets and streams").  A handler that stops  *)
(* the server does so last: a stream that it gives the response after that *)
(* is of a connection outside the table, and is not covered.               *)
ResourcesOwned ==
    /\ sockets = {x.client : x \in Live}
    /\ Cardinality(Live) = Cardinality(Occupied)
    /\ \A x, y \in Live : x.client = y.client => x = y
    /\ streams = {x.client : x \in {y \in Live : y.state = 1 /\ y.response.stream}}

(* A connection that announces a length never sends more than it, and is   *)
(* finished only when it has sent all of it, however the stream and the    *)
(* socket cut it into pieces and whatever body was set beside a stream; a  *)
(* silent response sends none.  (For the -1 that is announced for a stream *)
(* without length, see NothingUnannounced.)                                *)
(* httpserver.bmx:422-461, 713-755.                                        *)
ResponseHonest ==
    \A x \in Live :
        x.state = 1 =>
            /\ x.response.silent => x.sent = 0
            /\ x.response.length >= 0 => x.sent <= x.response.length
            /\ x.response.length >= 0 /\ ~x.response.silent /\ Finished(x) =>
                 x.sent = x.response.length

(* No response sends bytes beyond the length that it announces (README.md: *)
(* 12 of the module: "Responses include `Content-Length`").  The code does *)
(* when a handler sets a body and a stream without length (the page of an  *)
(* error handler always has a body, httpserver.bmx:417): it announces -1   *)
(* (433, 443) and sends the body (744-751), also one over the limit.       *)
NothingUnannounced ==
    \A x \in Live : x.state = 1 => x.sent <= Max({x.response.length, 0})

(* Every connection ends, whatever its client does, with the timeouts that *)
(* the code has, provided that a call of Service has steps for all slots   *)
(* and for as many accepts as may come before the last of them             *)
(* (MaxSteps >= 2 * Slots - 1) and accepts do not fail for ever: else new  *)
(* clients in the first slots, or for whom there is no memory, can keep    *)
(* the last slot from ever being looked at (httpserver.bmx:614-664).       *)
ConnectionsEnd ==
    \A i \in Index : \A c \in Clients :
        (connections[i] # None /\ connections[i].client = c)
            ~> (connections[i] = None \/ connections[i].client # c)
=============================================================================
