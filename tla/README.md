# embedded.mod, specified in TLA+

BlitzMax NG programs for microcontrollers run on the runtime in this
repository: an arena allocator, an exact mark-and-sweep collector, one optional
managed worker on a second core, and modules written in BlitzMax for events,
I/O and networking. This directory holds TLA+ models of the parts that keep
state and of the text algorithms, TLC runs that check them on small instances,
and TLAPS proofs of what matters most for instances of every size.

Line numbers refer to the sources of this repository; `embedded_runtime.c` and
`embedded_gc_handshake.c` are in `src/runtime.mod/native/`.

## 1. The system

| Part | State it keeps | Operations | What is hard | What makes it correct |
|---|---|---|---|---|
| GC handshake (`embedded_gc_handshake.c`) | registry spin lock; epoch; request and collector words; a state and an acknowledgement per slot | register, unregister, native-safe enter/leave, poll, stop begin/end | the poll and the first scan take no lock; stops time out and are retried at once; the epoch wraps | while a task holds the world nobody else executes managed code; every stop ends |
| Managed worker (`embedded_runtime.c` 296-449) | a state word, entry and context, the target's task | start, trampoline, exit loop, join | the worker registers and leaves while the owner collects | nothing of a joined worker is left; slot = context number; results tell the truth |
| Heap allocator (633-815, 1072-1149, 2334-2385) | block headers linked in address order, LIFO free list, arena offset, live counters | allocate, release, extend, sweep, buffer check | merging in place, splits at the limit, 32-bit sizes, `bbMemExtend` between two locks | allocations never overlap; links, free list and counters are exact |
| Collector (797-815, 1731-1754, 1869-2121, 2152-2406) | mark epoch, mark queue, pending and finalized flags, active and retry flags | collect, audit, allocate with collection, abort | finalizers run outside the stop, allocate, resurrect, throw; exceptions leave a collection in the middle | nothing live is reclaimed; each finalizer once; garbage goes in the end |
| Exception and root frames (1610-1849) | a chain of each per context, with totals | enter, leave, throw, snapshot and restore | a throw leaves by `longjmp` past frames that are never left, and may end a collection | the chains are the frames on the C stack; a collection is active while it is on it |
| Type services, closures, interfaces | none (descriptors are constant) | lookups | - | - |
| Strings, integer and float conversion, UTF-8 | none beyond managed blocks | pure functions | results are measured in one pass and written, unchecked, in a second; limits of parsing and encoding | the passes agree, operations invert each other, bytes from outside decode to legal text |
| Arrays, enums, incbin, DefData | a data cursor | allocation, slices, names of values, lookups | array construction may throw or collect; enumeration items overlap | values that convert are read back from their names; allocation is part of Collector |
| Deferred events (`events.bmx`) | a slot table with generations; a native token queue | register, release, emit from the poll hook | handlers poll, release and register inside an emission; they throw | no event reaches a later registration; one shot means once |
| Buffered UART (`buffereduart.bmx`) | controller number, native ring | read, write, flush, close | waiting dispatches events that may close it again | no call on a closed controller |
| HTTP server (`httpserver.bmx`) | per connection: state, buffers, deadline | start, stop, service, respond | a step budget, deadlines, partial sends, handlers that throw, stop the server or announce wrong lengths | nothing stays open, a response is as long as announced, every connection ends |
| Wi-Fi, Ethernet, BLE | handles to native drivers | wrappers | operations end when the driver says so | - |
| GPIO, I2C, SPI, UART, PWM, ADC, watchdog | none | wrappers of functions a target implements | - | - |
| Device, power, time, random | one generator word | wrappers and a pure generator | - | - |

How they interact. Compiled code calls the allocator; an allocation that finds
the arena full calls the collector and tries again. The collector stops the
world through the handshake, marks from the root frames of both contexts, ends
the stop, and either sweeps (still stopped) or runs finalizers (not stopped).
Compiled code polls the handshake at loop back edges and every target call that
may block is bracketed by native-safe enter and leave. The worker's trampoline
registers its task in the handshake before its context has any root, and
unregisters after the last. Events come from native queues and are emitted by a
hook that the same polls run, so a handler can be entered wherever a program
waits; the buffered UART and the network modules wait that way.

## 2. Modules

    StopTheWorld <-------- (refines) ---- GCHandshake <--- WorkerLifecycle
         ^                                    |                 |
         | (INSTANCE: world actions)      MCGCHandshake   MCWorkerLifecycle
     Collector -- MCCollector
    ArenaContract <-- (refines) -- HeapAllocator -- MCHeapAllocator
    EventSources -- MCEventSources
    FrameStacks -- MCFrameStacks
    HTTPServer -- MCHTTPServer
    Strings <--- Enums; Strings, Unicode, IntegerText, Enums -- MCText

The theorems about a module `M` are in `MProof`, which extends it; those about
the abstract specifications are where they are used, in `CollectorProof` and
`HeapAllocatorProof`, and those about the text algorithms in `TextProof`, which
extends `MCText`.
`WorkerLifecycleProof` extends `GCHandshakeProof` too, because the worker's
lifecycle is a behaviour of the handshake.

### StopTheWorld - the promise of the handshake

`mode[t]` (outside the runtime, running, held) and `stopper`. A grant is given
only when nobody runs; while it lasts nobody starts running. `GCHandshake`
implements it, and `Collector` is built on it, so that the collector's runs need
not interleave the single atomics of the handshake.

### GCHandshake - the protocol, one atomic access at a time

| Variable | Code |
|---|---|
| `lock` | `registry_lock`, `NoTask` when clear |
| `epoch`, `request`, `collector` | `epoch`, `request_epoch`, `collector_slot_plus_one` |
| `state`, `ack` | `state[slot]`, `acknowledgement[slot]` |
| `pc` | where the task is; `seen`, `cursor`, `budget` are the local variables of poll, `bmx_gc_all_stopped` and `stop_begin` |

A poll is the actions `PollRequest`, `PollCollector`, `PollState`, `PollPark`,
`PollAck`, `PollWake`, `PollResume`: its three loads, two stores, the spin and
the last store. `stop_begin` is `StopPublish`, `StopRequest`, the scan
(`ScanPass`, `ScanParked`, `ScanAcknowledged`, `ScanRefused`, `ScanDone`), the
second scan under the lock (`Recheck` and the same scan), `WorldStopped`, or
`StopWait` and `StopTimeout`. `stop_end` is `StopEnd` and `StopReleased`. A
critical section with one access that others can see without the lock is one
step. Calls that are refused change nothing and are stuttering steps.

C11 acquire loads and release stores are modelled as sequentially consistent.
All words involved are atomics, and the code pairs each release with an acquire
of the same word; reorderings between different words that C11 would still
allow are not explored.

`EpochFresh` is the one thing assumed of the environment: when the 32-bit epoch
comes round, no slot still carries the value about to be reused. A task would
have to stay in one poll, or in its slot without answering, for 2^32 - 1 stops.
`Init` is the state after `init` (the words are zero).

### WorkerLifecycle - the worker over the handshake

`wstate` is `bmx_embedded_worker_state`, `thread` the place of the worker's
native task in `bmx_embedded_gc_worker_trampoline`, `starting` the window
between the compare-and-swap of start and the target's answer. Every step is a
handshake step of one of the two tasks, a lifecycle step, or both at once
(`WorkerRegister` is `Register(Worker)` and the trampoline's progress). Creating
and joining the native task is the target's work: creation may fail, and a join
succeeds when the entry function has returned. A registration may be refused in
any state (`RefusedCondition`): while a stop is requested, and also because the
target's bind hook fails, which is the target's to decide.

### ArenaContract, HeapAllocator - the arena

`ArenaContract` says what callers may rely on: extents do not overlap and stay
until they are released. `HeapAllocator` keeps headers (`block`, with their
`prev` and `next` links as stored, not as derived), `first`, `last`, the free
list `free` in its order, `offset`, the live counters, and the `bbMemExtend`
that is under way. Allocation is first fit over the free list (`Reuse`, with
`Split`) or growth of the arena (`Grow`); `Release` merges with both neighbours
and pushes the result; `Sweep` merges runs of free and dead blocks in place and
rebuilds the list in descending order. Sizes are taken modulo the word as in
the code (`AlignSize`). It is the multicore build: each allocation is atomic
under the allocator lock, and `bbMemExtend` takes that lock three times.
`IntegrityValid` is the runtime's own walk over headers, high-water mark, counters
and free list; `BufferStable` is the check of a native-safe buffer with all its
refusals: NULL, a buffer or an arena that reaches past the last address
(`AddressMax`), no arena in place.

### Collector - marking, finalizing, sweeping

`type`, `refs`, `flag` and `mark` are the blocks; `roots` what the root frames
of a context refer to; `phase` is where `bmx_embedded_collect_objects` is;
`wants` says on whose behalf it runs (a call, an audit, the first or second try
of an allocation). The owner collects; the worker changes roots and references
and allocates whenever `StopTheWorld` lets it. `MarkBlock` takes one block from
the queue, so a trace callback that throws can do so after any prefix.
`QueueFinalizers` ends the stop, `FinalizeNext` enters one finalizer, and until
`FinalizerReturns` or `FinalizerThrows` the owner runs as an ordinary program:
it may link, root and allocate. `Abort` is `bmx_embedded_abort_collection`. An
exception takes some of the owner's roots with it (`Unwind`), which ones is up
to the program. The constant `Multicore` selects the build: without it there is
no worker, the stop is granted at once, and an array is counted only after its
initializer has returned (`building`, `Built`).

A reference in a root slot that is no block (`Foreign`) makes the collection
refuse itself, as the code does (`InvalidExit`).

### EventSources - the deferred events

| Variable | Code |
|---|---|
| `source` | `_embeddedEventSources` and, as part of the object, `_embeddedEventIds` |
| `persistent`, `generation` | `_embeddedEventPersistent`, `_embeddedEventGenerations` |
| `queue` | the native queue, by the tokens of its records |
| `kept` | tokens that a peripheral or the program still holds and may post or release |
| `emitting`, `polling` | the nested polls: `emitting` has the token and object of each emission in progress (the `token` and `slot` locals of its poll), `polling` says whether the innermost code is a poll's loop or a handler |

Everything but `Post` runs in the owner's context, so a step lasts from one call
of foreign code to the next: `Emit` is the loop body up to `EmitEvent`,
`HandlerReturns` what follows it, with the slot read again as the code does.
Between the two the handlers run: `Register`, `Release`, `PollSystem` (a nested
poll) or an exception, which a handler further out or the program catches
(`Unwound`). A record that does not fit is dropped by the native queue, which
changes nothing. Registering at a full table, releasing a stale token and
arguments that are refused change nothing either.

`TokenFresh` is assumed of the environment: when a slot's generation comes
round, nobody has kept the token of 2^26 - 1 registrations of that slot before.
`issued`, `emitted` and `thrown` are history variables; no action reads them.

### FrameStacks - root and exception frames

`stack[c]` is what the C stack of a context really holds (functions with a root
frame, handlers, a collection that is running callbacks); `frame[c]` the frame
structures in it, by address, and `context` the runtime's pointers and totals.
An address is a position in the stack, so a frame that is gone is overwritten by
the next one, as on the machine. `RootEnter`, `RootLeave`, `TryEnter`,
`TryLeave` are the four functions, applied in the nesting that compiled code
has; `Throw` takes the top handler, cuts the stack there and restores the
chains from its snapshot; it ends a collection (`Escapes`) when that handler is
the one that was on top when the collection began. `Unhandled` is the
description of an object nobody catches, under a handler of its own, which
ends in the panic. `Collector` abstracts all this to a set of roots per context.

### HTTPServer - the connections

| Variable | Code |
|---|---|
| `connections` | the table; a connection is its client, `state`, amounts received and sent, and what is announced |
| `sockets`, `streams` | what is open: sockets by client, response streams by client |
| `late` | connections whose current deadline (`started`, `lastActivity` and a timeout) has passed |
| `call` | the `Service` call in progress: `done` and `i` |

A step of `Service` is one accept or one connection's turn, from the test of its
deadline to the `_Close` after it. What requests and routes say is a choice of
outcomes (`Parse`, `Respond`); what the wire carries is amounts. A socket may
take or give any amount, block or fail; a stream may end early; a handler may
answer with any response, throw after opening a stream, or stop the server.
A response has a body, a stream, or both (`Answer`): `Prepared` is what `_Prepare`
announces and what `_Write` then has to send, which is the whole body when a stream
without length was set beside it, under a length of -1 (finding 3). A handler that
stops the server does so as its last act.

### Strings, Unicode, IntegerText, Enums - the text algorithms

Operators on sequences of units, bytes and numbers. Where the code goes over a
text twice, to measure a result and to write it, there is a definition for each
pass (`JoinLength` and `Joined`, `PartCount` and `SplitAt`, `Utf8Length` and
`ToUtf8`, `Count` and `Parts`), because nothing in the code checks the second
against the first. An enumeration value is the set of its bits; the three loops
over a descriptor's items (to names, from names, and whether a number is a
value) are three definitions of `Enums`, which must agree also when items
overlap. Scans are recursive functions, not `RECURSIVE` operators, so
that theorems can be stated over these modules. `MCText` makes each sample a
state and each family of laws an invariant.

Case and hash take the case tables as an argument: `Uninstalled`, where the
runtime folds ASCII only, or tables that a program has installed, which the mappers
of `embedded_unicode.c` search after their ASCII shortcut. An array is its element
type and its items, because concatenation and slices refuse types that differ.

The laws of the conversions leave two places to the findings. The encoders replace
a surrogate without its other half, except a high one at the very end of a text
(`EndsHalf`; finding 2). And the decoder masks a first byte of F8 or more to three
bits (`embedded_runtime.c:3025`), so that F8 90 80 80, which no version of UTF-8 has
as U+10000, is read as U+10000; no document says what it should become, so that there
is no finding, and `DecodesSafely` speaks of the one legal spelling only for
first bytes below F8.

## 3. Runs

| Run | Question | Instance |
|---|---|---|
| `handshake` | are the tasks excluded at every interleaving of single accesses? does it implement `StopTheWorld`? does every stop end, every waiting task return, a rendezvous with an unbounded budget succeed? | 2 tasks, 2 slots, `EpochMax` 2, budgets 0, 1 and unbounded |
| `worker` | is nothing left of a joined worker, is the result honest, is the exit loop's panic unreachable unless there are more collections than attempts, does a started job become joinable? | owner and worker, 4 stops, 1 retry |
| `heap` | are links, free list, counters, extension and buffer check exact, does the runtime's own integrity check always pass, and is the contract implemented? | 16 bytes, header 2, alignment 2, words of 5 bits, requests 0, 1, 4, 31; the arena at 2, at 5 or missing in 20 addresses, every buffer in them |
| `collector` | multicore build: is nothing live lost, are the books right (`Bookkeeping`), does every collection return, does garbage go? | owner and worker, 2 blocks, 1 reference per block, 2 roots per task, `EpochMax` 1 |
| `collector_single` | single-core build with its late array counter: is marking exact, nothing live lost, each finalizer entered once? | 3 blocks, symmetric, 1 reference, 1 root, `EpochMax` 1 |
| `all_live_doc` | violated, see finding 1 | 2 arrays, single core |
| `events` | does an event reach the object its token was issued for, does only the one-shot source of a handler end with it, does every poll end? | 1 slot, generations 1 to 3, 2 objects, 2 records, 3 nested polls |
| `frames` | do the chains and totals describe the C stack after any nesting of enters, leaves and throws, and is a collection active exactly while it is on it? | owner 4 deep, worker 2 deep, one slot per root frame |
| `text` | do the text operations agree with each other and with their inverses, and second passes with first ones? | texts of 4 over 3 letters with separators and replacements of 2; 4 bytes of 13; 4 units of 5; integers of 3 and 5 bits, arrays of 2; numerals of 4 over 8 characters; enumerations of 3 items and 3 bits; no case tables, and four of up to 4 pairs |
| `utf8_doc` | violated, see finding 2 | as `text` |
| `http` | does nothing stay open, is what was announced sent and no more, does every connection end? | 2 clients, 2 slots, 3 steps per call; headers of 2, bodies of requests 1; bodies of 1 and 2 with a limit of 1, streams announced as 2 or as unknown, a buffer of 2 |
| `response_length_doc` | violated, see finding 3 | as `http` |

Why the bounds are enough for what they are meant to show. The handshake has
two slots in the code (`BMX_EMBEDDED_GC_HANDSHAKE_CAPACITY`) and two tasks use
it; a third, which would be refused, and every other number are covered by the
proofs. Two epochs let the counter wrap at every second stop, while a task still
answers an earlier one. Budgets 0 and 1 let a stop be withdrawn before and
after a second scan. The arena of 16 bytes holds four smallest blocks, so a
release can have free neighbours on none, either or both sides, the split limit
(capacity equal to, and one alignment step below, request + header +
`MaxAlign`) is met, and a 5-bit word makes a request of 31 wrap when it is
aligned. An arena at 5 ends with its end at 21, past the last address, one at 2 fits
with addresses on either side, and 0 stands for none. Two blocks make cycles, resurrection and a finalizable block that
refers to garbage; the third of the single-core run makes a chain whose middle
is unmarked. `EpochMax` 1 makes the mark epoch wrap at every collection. Three
generations let a token be used again after two registrations; three nested
polls let an inner emission release and register again the slot of an outer
one. Four frames are a handler, a collection, a handler inside it and a root
frame, in every order, and the description of an unhandled object on top of
two. Texts of four units have a match at the start, at the end, next to another
and overlapping another; four bytes are one whole longest sequence, and every
truncation of it. The letters are a blank, and a letter in both cases; bytes and
units are the borders of the ranges the code compares with. Unicode keeps its
real numbers, and integers are scaled: 5 bits where the code accumulates in 64,
3 where it cuts to a smaller type. In the server, a header of 2 may come whole or
in two pieces, the first of which may be refused; a body of 2 exceeds the response
limit unless a stream is set beside it; a stream of 2 fills the buffer or comes in
two pieces; two clients on two slots let one slot be reused while the other
connection goes on.

`ConnectionsEnd` needs `MaxSteps >= 2 * Slots - 1`: with 2 steps for 2 slots, TLC
finds a client that comes again and again into the first slot and takes both
steps of each call, so that a connection in the second is never looked at and
its timeouts never noticed. The code's default of 4 steps (`httpserver.bmx:611`)
is enough for 2 connections, and not for the 3 or 4 that may be configured
(`httpserver.bmx:312`).

## 4. Fairness

`GCHandshake!FairSpec`: a task inside a handshake call keeps executing it, and
managed code reaches a safepoint again and again, because the compiler polls at
loop back edges and the runtime polls in allocation and exception entry points.
The collector finishes its collection (`StopEnd`): marking and sweeping are
loops over the arena with no callback that waits. The registry lock is a
test-and-set spin lock; strong fairness on the steps that take it says that a
task spinning on a lock that is free again and again gets it in the end.
Nobody is obliged to register, to stop the world or to unregister. A native
call need not return, except where a property is about its return.

`LeaveReturns` (in `WaitingTasksResume`) is stated for programs whose stops end at some point: the loop of
`leave_native_safe` wants an idle handshake at the moment it holds the lock, so
back-to-back stops can keep it waiting. That is what the code does, and the
property says no more than it gives.

`WorkerLifecycle!LifeFairSpec` adds that the job ends and that the target runs
what it created. `Collector!FairSpec` uses strong fairness for the rendezvous
(`RendezvousSucceeds` of the handshake, for a worker that is stopped again and
again, or the timeout) and weak fairness for the collector's own steps and for
the end of finalizers. A program is not obliged to collect: `GarbageReclaimed`
supposes that it does, again and again, and that its collections do not all end
in finalizers, audits, refusals or exceptions.

`EventSources!FairSpec`: the loop of a poll runs on, and handlers end (a handler
that polls ends after its poll: strong fairness, because handler ends are
disabled while a nested poll runs). `PollsReturn` supposes that the producers
fall silent: the loop has no bound of its own, and an interrupt that posts
faster than handlers run keeps it going.

`HTTPServer!FairSpec`: the application calls `Service` again and again, a call
goes on, and the clock reaches every deadline. Clients, sockets and streams are
not obliged to anything. That memory is lacking for a new connection only
finitely often is the bound `MaxFailures`.

## 5. Proofs

`GCHandshakeProof` proves the safety properties of the handshake for every
number of tasks and slots, every epoch range and every set of budgets, from
`HandshakeAssumption` and `NoSlotAssumption` alone. The properties are not
inductive; the invariant `IInv` that is proved is

- `TypeOK`;
- `LockInv`: the lock is held by the task whose `pc` is in a critical section;
- `SlotInv`: two tasks never have the same slot, and a slot that no task has is
  empty (so a write to `state[slot[t]]` is never a write to somebody else's);
- `StateInv`: `state[slot[t]]` is a function of `pc[t]` (a task that is
  `parked` or `waking` has PARKED, one in native-safe code NATIVE_SAFE, ...);
- `StopInv`: one task at most is between publication and release, and the
  shared words name it;
- `AckMeansParked`: an acknowledgement equal to the request belongs to a task
  that is spinning in the poll that gave it. Without it a scan could count an
  old acknowledgement, and it is here that `EpochFresh` is needed;
- `ScanInv`: while a request is up, every slot before the cursor of its scan is
  the collector's own, empty, native-safe, or parked with the current epoch. It
  holds although the first scan takes no lock, because a slot leaves each of
  these states only by a step that needs the request withdrawn; when the cursor
  has passed the last slot it says that the world is stopped.

From it follow `TypeCorrect`, `AcknowledgementsAreCurrent`, `StopsExclude`,
`WorldIsStopped`, the action property `NobodyEnters` (under a request no slot is
taken, given up or becomes RUNNING, but for the end of a poll that answered an
earlier one), and `HandshakeImplements`:
each step of the handshake is a step of `StopTheWorld` or a stutter, under the
refinement mapping at the end of `GCHandshake`. What users of the two abstract
modules rely on is proved as well: the exclusive phase (`WorldIsExclusive`, in
`CollectorProof`) and that live allocations share no byte
(`AllocationsDisjoint`, in `HeapAllocatorProof`).

`HeapAllocatorProof` proves every property of the allocator's run for any arena,
header, alignment, word size and requests, from `HeapAssumption` (headers and
arena are multiples of the alignment, the alignment divides the word's range,
the arena's size fits in a word). Its invariant `IInv`:

- `Tiled`: the blocks fill the arena up to its offset without a gap, and each
  link is the one this tiling calls for. The links are therefore the same
  whichever way the blocks came about, which is why growing, splitting and taking over
  a successor can each be proved by itself (`GrowStep`, `SplitTiles`,
  `AbsorbTiles`);
- `Labelled`, `Merged`: what is free requests nothing, what is used requests
  something that fits, and no two free blocks are neighbours. Between the two
  merges of a release this does not hold; `ReleaseStep` carries the only exception,
  the freed block and its predecessor;
- `Lists`: the free list is injective and names the free blocks;
- `CountersValid`, and `ExtendInv`: the blocks of a pending `bbMemExtend` are raw
  and as large as they were.

What a step does to allocations is `Granted` (one more, the others as they
were) or `Keeps` (some fewer); counters, extension and refinement need only
that. The sweep is a recursive function of the address; `PassInv` says what
holds when the pass has come to an address (the list names the free blocks
below it, and none of them is followed by another), and `SetInduction`,
explained below, carries it over the arena (`SweepStep`). The sums of the
counters are recursive in the same way. `IntegrityAlwaysPasses`,
`FreeListIsExact`, `ExtendStaysInBounds`, `HeapTypeCorrect` and
`BufferCheckIsExact` follow, and `HeapImplementsArena`: each step grants, drops
or changes no allocation of `ArenaContract`.

`EventSourcesProof` proves the properties of `EventSources` for tables,
generation ranges and queues of every size and polls nested to any depth, from
`EventAssumption`. `DeliveredToOwner` needs `Named`: the current token of a
registered slot is the one that was issued for the object in it. A record is
emitted only if its token is the slot's current one, so its object is the one it
was issued for; later registrations change `issued` at fresh tokens only.
`OneShotsEnd` is inductive by itself: the handler's return compares its own token
with the slot, so whichever registration survives it has another token and its
emissions, if any, are further out. `AutoReleaseOwn` is an action property proved
from the same invariant.

`WorkerLifecycleProof` first shows that every step of the lifecycle is a
step of the handshake by the owner or the worker, or none
(`LifecycleIsHandshake`), so that the handshake's `IInv` and its theorems hold
of the worker (`WorkerIsStopped`). On top of it `LInv` says where each task is
in the handshake at each place of the trampoline, what the state word implies,
and what a result stands for. `PanicNeedsStops` needs an account of the exit
loop: an attempt that was refused is charged to the stop that refused it, and
the worker returns to the loop only when that stop is over, so each attempt has
a stop of its own. That holds for every budget of attempts; the bound on the
number of stops (`MaxStops`, which `LifecycleAssumption` keeps within the epoch range)
is what makes the stops countable, as the epoch does not come round.

`CollectorProof` proves the collector's safety in both builds, for every set of
blocks and contexts and every epoch range. Its invariant `CInv`:

- `WorldInv`: while there is marking the owner has stopped the world, so roots and
  references stand still;
- `HeapClosed`: roots and references lead to allocated blocks. This is what a
  sweep has to leave behind for the finalizers and the next collection;
- `MarkInv`: no block bears an epoch later than the current one (a wrap clears
  all marks), and while there is marking the queued blocks are marked, the
  roots are marked, and what a marked block off the queue refers to is marked;
- `FlagInv`: a finalizer has been entered exactly if the flag says finalized.

An empty queue then leaves a marked set that is closed and holds the roots, so
it is what is reachable (`MarkingIsExact`), and `LiveBlocksStay` and
`FinalizersComeOnceAndFirst` follow as properties of steps. The counters are
32-bit words, so that they are exact (`BooksAreInOrder`) needs the hypothesis
`Countable`: the build is multicore, and there are not more blocks than the
counters can count. The code justifies it: every block has a header in an arena
whose offset is a 32-bit word too (`embedded_runtime.c:740-745`). The hypothesis
`Multicore` is necessary; in the other build an array under construction is
not counted, which is finding 1. `EarlyReturnIsRight` is the other side of that
finding: in a multicore build the comment at `embedded_runtime.c:2257` is right.

`FrameStacksProof`: what the runtime keeps is a function of the C stack.
`ContextOf(s)` is the context that a stack `s` calls for, and the invariant says
that the frame at each address was filled from `ContextOf` of the stack below
it. A push changes `ContextOf` as enter changes the context, and cutting the
stack at a handler leaves the stack its snapshot was taken from. The slot
totals are a recursive function, whose values need an induction. `SetInduction`
(a set of naturals that holds 0 and the successors of its members holds them
all, from the library's theorem that `<` on the naturals is well founded) gives
it as a fact about a set, without an operator as a parameter.

`HTTPServerProof`: each connection is in a good state by itself (what it
has sent of a stream and what is left of it add up to what it announced, the buffer
holds no more than is left, of a body no more was sent than there is, a length that is
announced for a body is the body's, and silent responses send nothing), and the open sockets and streams are those of the
slots (`Owned`). `SocketsAndStreamsOwned` and `ResponsesAreHonest` follow for any
clients, slots, limits and sizes of buffers.

`TextProof` proves `TextsCompare`, `ConversionsKeep` and `SplitsKeep` for samples
of any size over any units and bytes, from `SampleAssumption`. A recursive function of TLA+ is
a `CHOOSE`: it has the value its equation says only if there is such a function.
`Recursion` proves, once, that there is one for every body that asks for arguments
of a smaller measure only, by `SetInduction` over the measure. It is used for the
binary search of the case tables, where the measure is the size of the range
(`SearchExists`, `MappedIs`), for `Walk`, where it is what is left to walk, and for
the library's `FlattenSeq` and `SumFunction`.

- Comparing: the comparisons are the lexicographic order `Before`
  (`CompareOrders`, `CompareCaseOrders`), which is transitive; a search is the
  least or the greatest of the `Places` of a text (`FindIs`, `FindLastIs`), and
  places are mirrored by reversing (`PlacesMirrored`).
- Converting one code point: decoding what was encoded gives it back, wherever it
  stands (`DecodeEncoded`), and what is decoded and not replaced was encoded so
  (`DecodeLawful`), by arithmetic on the bits of the bytes.
- Converting a text: `WalkRest` says that a pass over a text is its first step and
  a pass over what is left, so that the code points of encoded scalar values are
  those values, whatever follows (`DecodedPrefix`, for UTF-8; `UnitsAgain`, for
  UTF-16). From here `BytesSurvive` follows. For any units the code points are
  scalar values, and then perhaps a high surrogate at the very end (`AllEnd`),
  which gives `BackFromUtf8` and `BackFromUtf32`.
- Measuring: a sum over a sequence does not depend on the order in which
  `SumFunction` takes the summands (`SumAny`), so that the measuring passes add up
  what the writing passes write (`SumOfLengths`). A bounded buffer ends after the
  last code point that fits (`FittingIs`, `BuffersKept`).
- Splitting and joining: the scans are compared as functions of the position in one
  fixed text, by induction from its end (`DownInduction`). Split's second pass
  finds as many parts as the first has counted, each next one behind a match
  (`SplitParts`); with such bounds the steps of join and of replace are cuts of the
  text that meet (`JoinedBack`, `ReplacedBack`), and a match in a part would have
  been found (`PartsFree`). Words are treated in the same way (`SplitsIntoWords`);
  their bounds are unique (`WordsUnique`), so that the words of a trimmed text and the
  non-empty parts between its blanks are shown to be the words by bounding them
  (`TrimmedWords`, `SpacedWords`). That no text is longer than `MaxLength` is needed,
  as slices and joins that are longer come out empty.

Only model-checked: all liveness (it needs fairness and ENABLED), and of the text
algorithms those that write integers and enumeration values as text and read them
again (`ValuesSurvive`).

## 6. Findings

1. The shortcut for an all-live heap miscounts in the single-core build. The
   comment at `embedded_runtime.c:2257` says that nothing can be finalized or
   reclaimed when every managed allocation is reachable; the test after it
   (2259) compares with `live_arrays`, which that build increments after the
   array's initializer (942-947). When the initializer throws, the array is
   never counted: the shortcut takes the heap to be all live although the array
   is garbage, and once a later sweep frees it the counter wraps below zero.
   Run `all_live_doc`.
2. The UTF-8 that is reported is not always UTF-8. `docs/runtime-integration.md:66-67`
   says: "An uncaught String is reported as bounded UTF-8 without allocating." The
   bounded conversion (`embedded_runtime.c:3134`) asks whether a unit follows a high
   surrogate before it decides that it stands alone, so that one at the very end of
   the text is neither paired nor replaced: it becomes the three bytes ED A0..AF xx,
   which the runtime's own decoder does not accept either (3034). The measuring and the
   allocating pass (3095, 3161) do the same, so that lengths agree. Run `utf8_doc`.
3. A response may announce a length of -1. The README.md of the module says in line
   12 that responses include `Content-Length`. For a stream of unknown length
   `_Prepare` closes the stream and answers 500 (`httpserver.bmx:433`), but leaves the
   length at -1, which it announces (446), and leaves a body that was set beside the stream,
   which `_Write` sends (744-751) without regard to the response limit. The page
   that `_Fail` prepares for the error handler has a body (417). Run
   `response_length_doc`.

Two more disagreements with what documents say are stated by what holds in their
place, and have no run of their own.

- `join` reports -1 for a job that never ran, where `docs/multicore-apps.md:36` says of
  -1 that an uncaught worker exception ended the job: when a collection is in
  progress as the worker's task starts, its registration is refused and the trampoline
  stores FAILED (`embedded_runtime.c:338`). What holds is `NormalResultMeansRan`.
- A one-shot source outlives a handler that throws, where `events.bmx:70-71` says
  that it is released after its first event is emitted: the release at line 58 is
  reached only when `EmitEvent` returns. What holds is `OneShotGoneUnlessThrown`.

## 7. Not modelled

- Trace callbacks that allocate or collect, and cumulative statistics (peak
  bytes, totals): no decision depends on the statistics, and a trace callback
  that collects contradicts its documented contract.
- Strings as a type of their own in the collector: they are blocks without
  references and without a finalizer, like an array of numbers.
- The single-core variants of the allocator, which differ in locking only.
- The target's side (task creation, arena acquisition, clocks, drivers): not in
  this repository. The models take the nondeterminism the runtime is prepared for.
- Type services, closures, embedded files, DefData: lookups in constant tables.
- Floating-point conversion: out of reach of TLC and TLAPS.
- A join whose parts change while its result is allocated
  (`embedded_runtime.c:2940-2957`): the operators of `Strings` have no state.
- `Service` called again from a handler, and a stream opened in a handler after
  it has stopped the server: the first needs a stack of calls, the second leaves
  a stream to the collector.
- What requests and routes say: their parsing decides which outcome of `Parse`
  and `Respond` is taken, and every outcome is explored whatever they say.
- The buffered UART, GPIO events, Wi-Fi, Ethernet and BLE: their state is kept by
  native code of the target; what is here forwards to it.
- Tests, benchmarks and examples.

## 8. Plan

What remains is to prove the last family of text laws, that integers and
enumeration values survive the way into text and back: a numeral is a recursive
function of its value, read by another that wraps at the width of its type.
`Recursion` and the sums of `TextProof` are the lemmas it needs first.
