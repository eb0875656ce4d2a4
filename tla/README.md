# A verification project for libslirc

libslirc is a C++ library for IRC clients: events with a queue of ids, an event
manager that queues and dispatches them, and a connection that runs on an
asio io thread and reports what happens as events. This directory holds TLA+
models of all parts that keep state, the TLC runs over them, and proofs, checked
by TLAPS, of what matters most about them.

* [The system](#the-system): components, state, operations, interactions
* [What is hard](#what-is-hard)
* [The modules](#the-modules) and how they correspond to the code
* [The runs](#the-runs): what they show, bounds, fairness
* [The proofs](#the-proofs)
* [What the models found](#what-the-models-found)
* [Not modelled](#not-modelled) and [the plan](#the-plan)

Paths are relative to the repository. `connection.cpp` and `event_manager.cpp`
are `src/modules/...`; `apis/x.hpp` and `modules/x.hpp` are in `include/slirc/`.

## The system

| component | state | operations |
|---|---|---|
| event queue (`event_manager.cpp`) | `queue`, `queue_consumers`, `queue_consumer_index` under `queue_mutex`; per wait a `returning_wait_event_consumer_data` with a mutex of its own | `queue`, `wait_event()`, `wait_event(timeout)`, `wait_event(callback)`, `try_unqueue`, the tail of `handle` |
| event handling (`event_manager.cpp`, `apis/event_manager.hpp`) | `signals`: per id the connected handlers by priority; the `handle_afterwards` component and `current_id` of the event | `connect`, `handle`, `handle_as`, `afterwards`, `connection::disconnect` |
| event ids (`event.cpp`, `event.hpp`) | `queued_ids`, `next_id_index` | `queue_as` (one id, a range), `unqueue`, `pop_next_queued_id`, `is_queued_as` |
| connection (`connection.cpp`) | `impl::curstate`, the socket (`socket` or `ssl`), `resolver`, `resolve_iterator`, send and receive buffers, all under `impl::mutex` | `set_endpoint`, `connect`, `disconnect`, `send`, `send_raw`, the destructor; the handlers of resolve, connect, handshake, read and write |
| network service (`network.cpp`) | `current_service`, `service_thread`, `internal_service_work`, `internal_service_stopping` under `service_mutex` | `service()`, `service(external_service)`, the destructor of the static object |
| modules of a context (`irc.hpp`, `irc.cpp`) | `modules_`, one module by api type, the cached `event_manager_` | `load`, `unload`, `find`, `get`, the destructor |
| component container (`component_container.hpp`) | components by base type | `at`, `at_or_insert`, `set`, `find`, `remove` |
| id types (`event.hpp`) | - | construction, `==`, order and hash of `id_type` |

How they interact:

* The handlers of a connection run on the io thread. What they see they post
  with `irc.event_manager().queue(event)`; the state events of the connection
  do so while `impl::mutex` is held.
* The main loop of a client (`example/example.minibot.cpp`) calls
  `wait_event()` and `handle(event)`. `handle` pops one id after the other from
  the event and calls the handlers connected to it, which may queue more ids
  on the event, nest `handle_as`, and put events into `afterwards`; these end
  up at the front of the queue when the event has been handled.
* Lock order: `impl::mutex` (connection), then `queue_mutex`, then the
  `data->mutex` of a wait. A wait takes the last two the other way round, which
  is the subject of `LockOrder`.
* A connection asks the network service for the io_service when its endpoint is
  set and when it connects. The first request starts the io thread; at the end
  of the program the destructor of the static service drops the work object and
  joins the thread, which goes on as long as a connection has an operation.
* An `irc` context owns the modules. The event manager is the one every other
  module uses: it is loaded first and unloaded last.
* The client calls a connection from any thread; a handler that is already
  queued in the io_service when the connection is destroyed finds its
  `weak_ptr` to `impl` expired.

What makes each component correct:

* *Event queue*: every posted event is handed to exactly one of the calls
  that ask for one, front first; a wait does not sleep on a queue that has an
  event for it; a timeout does not lose an event that was accepted for the
  wait; the mutexes are never waited for in a circle.
* *Event ids*: the vector and its index behave as the double-ended queue of the
  comments, whichever slots are reused; the index never passes the end.
* *Event handling*: handlers run in priority order; `current_id` is back to its
  value after any nesting, exceptions included; ids queued while finishing are
  handled before `finished_handling`.
* *Connection*: an attempt ends in connected or disconnected; connected means
  an open socket with one read under way; disconnected means a closed one;
  nothing of an aborted attempt affects the next; nothing happens in the name
  of a destroyed module.
  The lines emitted are the lines of the bytes received, however they arrive;
  what `set_endpoint` takes a text for is what it means.
* *Network service*: one io thread at most; an operation has a thread to run its
  handler, and the end of the program does not wait for nothing.
* *Modules*: at most one module of an api, each destroyed exactly once, the event
  manager last, and the cached pointer to it never stale.
* *Components*: a reference stays good until the component is removed.
* *Id types, connection objects*: `==`, the order and the hash agree, so that both
  can be keys of maps.

## What is hard

`PROJECT.json` lists each hazard at its line. In short:

* posting calls hold `queue_mutex` and take `data->mutex`; waits do the
  opposite; a timeout may fall anywhere between the two;
* a consumer survives the wait it belongs to: it sits in `queue_consumers`, or
  is being called, when the frame its `event` refers to is gone;
* `queue_consumer_index` is kept from call to call;
* `next_id_index` has to agree with a vector that is compacted on some paths
  and overwritten in place on others;
* a completion handler knows only the state of the connection, not which
  attempt it was started for, and runs an unknown time after `cancel()`;
* several asio calls throw where the code expects them to do nothing, in the
  middle of a change of state;
* handlers of events are client code: they throw, and call back into the
  library, where they connect and disconnect handlers of the signal that calls them;
* constructors and destructors of modules are client code too, and load and
  unload modules in the middle of a `load` or an `unload`;
* bytes arrive in chunks that end anywhere, a line break and a `\r\n` included.

## The modules

| module | models | notes |
|---|---|---|
| `EventQueueAbs` | what the queue promises: `Post`, `PostBatch`, `Take`, `GiveUp` | abstract specification |
| `EventQueue` | the queue half of `event_manager.cpp`, one step per critical section | implements `EventQueueAbs` (`ApiSpec`) |
| `MCEventQueue` | constants of the instances | |
| `EventQueueProofs` | inductive invariant and theorems | |
| `IdSequences` | the ids that occur in a sequence, and `std::remove` | used by both modules of ids |
| `EventIdsAbs` | the double-ended queue of ids the comments of `event.hpp` describe, but for item 10 below | abstract specification |
| `EventIds` | `queued_ids` and `next_id_index` | implements `EventIdsAbs` (`ApiSpec`) |
| `MCEventIds` | the ranges of the instances | |
| `EventIdsProofs` | inductive invariant, theorems and the refinement | |
| `EventHandling` | `handle`, `handle_as`, `afterwards`, the handlers and the main loop | uses the queue and the ids as their abstract specifications promise them |
| `EventHandlingProofs` | inductive invariants and theorems | |
| `EventIdType` | `event::id_type` with its comparisons and hash | used by `Signals` |
| `Signals` | `connect`, connection objects, `handle_as` and the handlers it calls | |
| `MCSignals` | the hash and the symmetry of the instance | |
| `SignalsProofs` | inductive invariant, theorems about keys and about calls | |
| `Connection` | the state machine, the socket and the asynchronous operations of `connection.cpp` | |
| `ConnectionProofs` | inductive invariants and theorems | |
| `SendBuffers` | `send_raw`, `append`, `send`, `clear` and the write handler, with the bytes | |
| `SendBuffersProofs` | inductive invariant and theorems | |
| `RecvLines` | the loop of `recv` over `recv_buffer`, beside the lines of a whole stream | functions, used by `Session` |
| `Endpoint` | the parsing of `set_endpoint`, beside what an endpoint means | functions, used by `Session` |
| `NetworkService` | `network.cpp` | used by `Session` |
| `Session` | `Connection`, `NetworkService`, `RecvLines` and `Endpoint` together | composition |
| `MCSession` | the endpoints of the instance | |
| `SessionProofs` | inductive invariants and theorems about the thread, the end, the endpoints and the lines | |
| `Components` | the component container | used by `Context` |
| `Context` | the modules of an `irc` context | composition with `Components` |
| `MCContext` | the types of the instance | |
| `ContextProofs` | inductive invariant and theorems | |

Operators whose comment begins with *Variant* are forms the code does not have
- an index not reset, a check dropped. They are used by no specification; each
is there to confirm that a property notices the difference.

### EventQueue

Every call is a process that runs once; an event is named after the call of
`queue` that posts it, or is in the `Batch` of a call of `handle`. `pc` is where
a call is:

* posting calls: `start`, `unqueue` (in the loop of `try_unqueue`), `offer` (a
  consumer has locked its `weak_ptr` and wants `data->mutex`), `done`;
* waits: `start`, `prepare` (first look done), `recheck` (holds `data->mutex`,
  wants `queue_mutex`), `registered`, `waiting` (in `condvar.wait`, mutex
  released), `returning`, `done`;
* callbacks: `start`, `registered`, `done`.

`queueLock` is the posting call inside `try_unqueue`; the critical sections of
the waits contain no other lock or wait and are one step. `data->mutex` has no
variable: the wait holds it exactly in `recheck` and `registered` (`HoldsData`),
a posting call only within `Offer`. The acceptance of an event and the
`pop_front` that follows are one step, as both happen under `queue_mutex` and
only `awaits_event`, `ep` and the notification are visible outside of it; those
change at the beginning, and the `pop_front` is all that is left.
Spurious wake-ups of the condition variable evaluate the predicate and go back
to sleep, which changes nothing. An expired `weak_ptr` is `pc[w] = "done"`: up to
its return the wait holds the shared pointer. `notify_all` reaches only a wait
that is already asleep; a wait that blocks later reads `awaits_event` first.

Abstractions: the callback of `wait_event(callback)` accepts or refuses, returns,
and does not call the event manager (it would be called under `queue_mutex`).
`SLIRC_ASSERT(!data->event)` in the consumer is what the conjunct
`EventIffAccepted` of the proof's invariant shows to hold.

### EventIds

`queue_as` of a range is a loop of `prepare_append_queue` (`RejectInvalid`,
`Discard`, `Replace`, `Accept`) and one `append_to_queue_unchecked`
(`AppendToQueue`); a single id is a range of one. `AppendAtFront` has the two
layouts of the code, the popped slots reused or a new vector. Whether
`AppendAtBack` reorganises depends on the vector's capacity; the model leaves
it open. After `unqueue` of popped ids the index can be past the end, and the
search in `queue_as` starts at an invalid iterator; the model has no step there.
`UnqueueConsumed` keeps the two uses apart: with FALSE, `unqueue` is called
only for ids not popped so far and everything holds; with TRUE it loses ids.

### EventHandling

A worker is a thread with the main loop of the minibot (`TakeEvent`). `stack` holds
its calls in progress: frames of `handle`, with the place in the function (`at`),
and of `handle_as`, with the id and the value `scoped_swap` restores. The
frame on top takes the next step.

| action | code |
|---|---|
| `BeginHandling`, `HandleNextId`, `FinishingHandling`, `FinishedHandling` | the body of `handle`, up to the next `handle_as` |
| `QueueAfterwards`, `ReturnFromHandle` | its tail: the batch to the front, then, the mutex released, the component removed |
| `CallHandleAs`, `ReturnFromHandleAs` | `event::handle_as` |
| `Throw` | an exception from a handler; a handler further up may catch it |
| `QueueAs`, `Afterwards`, `NestedHandleAs`, `NestedHandle` | what a handler does, with the event it handles |
| `Queue`, `TakeEvent` | `event::queue` from anywhere, the main loop |

Abstractions: which handlers are connected to an id, and their order, are in
`Signals`; here, between the call and the return of `handle_as` anything a handler can do is
done any number of times. `pending` is the queue of `EventIdsAbs`, `queue` that of
`EventQueueAbs`. `started`, `posts`, `under`, `late` and `failed` are histories,
and `dirty` marks a frame in which an id was handled since the last
`finishing_handling`. An event is queued or registered once, except, with
`SelfAfterwards`, by its own handlers. `NoneLostOrDoubled` is a balance of cardinalities
of sets of positions (`PlacesOf`), so that it can be proved.

### EventIdType and Signals

An id is an enum type and a value; `Equal`, `Less` and `Hash` are the three
definitions of the code, `AreKeys` the laws of a key of `std::map` and of
`std::unordered_map`, which the lemma `AllAreKeys` proves. `Signals` finds the handlers
of an id by the hash and that equality, as `impl::signals` does; no map of the library
is ordered by `Less`, clients may have one. The
n-th handler connected is the number n; `signals` keeps the connected handlers
of each id in calling order (`InsertAt` puts a handler behind those of its priority,
`RemoveAt` takes it out), `objects` the connection objects of the program and
`calls` the calls of `handle_as` in progress, with what is left of the handlers
they began with.

| action | code |
|---|---|
| `Connect` | `connect` and `make_connection` |
| `Disconnect`, `Copy` | `connection::disconnect`, assignment of connection objects |
| `HandleAs`, `CallNext`, `ReturnFromHandler`, `ReturnFromHandleAs`, `Throw` | `handle_as` up to the call of the signal, the signal's loop, its end, an exception |

`boost::signals2` is external: a call goes through the handlers the signal had when
it began and leaves out what has been disconnected since. One thread; two threads
in `impl::signals` are a data race, not a behaviour.

### Connection

One step per call of the client and per handler, as each holds `impl::mutex`
from end to end; taking the handler from the io_service and locking its
`weak_ptr` (`RunNextHandler`) is a step before, so that a client's call,
the destructor included, can come in between. Operations are records with
the number of the attempt they belong to, which the code does not store: it
serves the properties. Closing the socket completes what is under way on it
with an error; a completed operation keeps its result. A lookup is not cancelled
by closing the socket.

| action | code |
|---|---|
| `SetEndpoint`, `SetInvalid` | `set_endpoint`, `set_invalid` |
| `Connect`, `Disconnect`, `SendRaw`, `Destroy` | the client's calls |
| `ResolveHandler`, `ConnectHandler`, `HandshakeHandler`, `ReadHandler`, `WriteHandler` | the completion handlers |
| `ConnectTryNext`, `ConnectOptSslHandshake`, `ConnectSuccess`, `Recv`, `ClearResolver` | the helpers of the same name |
| `DoUnscheduledDisconnect`, `DoDisconnect` | the helpers of the same name |
| `StartOnSocket`, `StartConnect`, `CloseSocket`, `Complete` | asio, as the code uses it |

About exceptions: `sock.cancel()`, in the overload without an error code, throws
for a socket that is not open, and `get_socket()` throws without an endpoint.
In a call of the client this reaches the client; on the io thread it leaves
`io_service::run()`, and in a destructor it leaves the destructor: both end the
program (`terminated`). Where `set_invalid` has left neither socket nor
ssl (`transport = "none"`), a handler of an earlier attempt may still take the connection to
connected, and `recv` dereferences an empty optional, which is undefined; the model takes it
for a read that fails.

Left out: the lines received and the endpoint (in `Session`), the bytes sent
(`send_job_running` is kept), the events that are posted, more than one io thread.

### SendBuffers

Bytes are numbered as they are given to `send_raw`; a buffer is a sequence of
numbers and `current_send_state`, an iterator of the code, its distance from
`send_buffer.begin()`. A thread inside `append` or `send` takes the steps
`AppendBytes`, `StartJob`, `Swap`, `Start`; a handler that only looks at the state
is one step. The operation under way is `write`; `CompleteWrite` sends a part of
it, at least one byte, or fails; `Disconnected` aborts it. A completed write keeps
its `result` until the handler runs. With `OneThread` the client runs the
io_service itself, as `network.hpp` allows, and a call is never inside another;
without it `send_raw`, which takes no mutex, interleaves with the handlers at
these steps (a data race inside a `std::vector` is not modelled). A write
that begins past the end of the buffer is undefined: the model sets `wild` and stops.
`StrayWriteIsFirst` says which write that can be.

Left out: the states on the way to connected, the socket (in `Connection`),
sending while not connected, which `append` excludes.

### RecvLines, Endpoint, NetworkService and Session

`Cut` is the loop of `recv` over the buffer: the lines it emits and what it leaves.
`Lines` is the definition it is compared with, which sees the whole stream: each line
break ends a line, if there is text since the last one; the line begins at that text
(`LineBegin`) and goes up to the line break, or a `\r` before it (`Line`). A byte is one
of a line's text, a blank, `\r` or `\n`. `Parse` is `set_endpoint` with its searches; a character stands for a letter, a digit or is one of the delimiters.
`Number` is the value of the digits: that `strtol` stops at the greatest `long`, and that the
result is narrowed to `unsigned`, is left out.
`Written` is the text a client puts together from the parts of an endpoint,
`WellFormed` says of which form the parts are, and `Meant` what the comments of
`modules/connection.hpp:132-178` say of it. That a client writes well-formed
endpoints is an assumption on the constant (`SessionAssumption`).
`NetworkService` has the static object of `network.cpp`: `GetService`, `SetService`,
and its end in three steps, `Destruct` (up to `join`), `RunReturns`, `Joined`.

`Session` takes each step of `Connection` but `SendRaw`, which touches nothing of what
is composed here, together with its effect on the other three. `CompleteWithBytes` gives a read a chunk of the server's bytes, `HandlerRuns`
cuts the lines out when the handler runs; `SetEndpointTo` parses the text, then
asks for the service, which may be refused (`Refused`) when the destructor of
the service has begun; `ConnectRefused` is `connect` in that case; `NextHandler`
needs the thread. `Leave` and the handlers clear the buffers where the state
changes (`BuffersFollow`). Restrictions: the endpoint is set before the first
attempt, the service is chosen before the endpoint, and the server speaks no ssl.

### Components and Context

A component is stored under its base type; `contents` has the type of what is
stored under each base, `answer` what the last call returned or threw. `Context` has the modules as numbers in order
of construction. `calls` is the stack of constructors and destructors under way:
`Load` begins a constructor, `FinishConstruct` is `load_` with its assertions compiled
out, `ThrowInConstructor` the exception; `Unload` takes the module out of the map and
begins its destructor, as `map::erase` does. `order` is the order of
`std::type_index`, any. `~irc()` is the loops `FirstLoop` and `SecondLoop` with the
iterator `begin`. Restriction: destructors that run inside of `~irc()` or `load_`
call nothing.

## The runs

| run | instance | shows |
|---|---|---|
| `event_queue` | 1 `queue`, 1 `handle` with a batch of 2, 1 untimed and 2 timed waits, 1 callback | no circle of mutexes, no sleeping consumer, no accept into a dead frame, and `EventQueueAbs`: no event lost or doubled; accepted events are returned; posting calls and timed waits end |
| `event_ids` | two ids, every range up to two, vector up to 5 | `EventIdsAbs`, the documented queue but for item 10 below; index in bounds |
| `event_ids_unqueue` | the same, `unqueue` without restriction | a disagreement, see below |
| `event_handling` | one worker, 3 events, one id besides those of `handle`, 3 acts of handlers, 4 calls deep, exceptions, events registered after themselves | `current_id` is right for every handler; `finishing_handling` follows every id; only ids queued by handlers of `finished_handling` are left (item 11 below); events registered for afterwards come next; none is lost or doubled; `handle` ends |
| `connection` | TCP and SSL, 4 attempts, 3 addresses, failing lookups, a client that does not wait | one reader, closed when disconnected, never stuck connecting over TCP, connected by its own handlers only with an open socket, quiet when destroyed, attempts over TCP end |
| `connection_stale` | the smallest instance | a disagreement, see below |
| `send_buffers` | one thread, up to 5 bytes in chunks of 0 to 2, two connections | bytes leave once and in order; none waits without a job; at most the first write after a reconnect begins outside of the buffer; otherwise all is sent or the connection ends |
| `send_buffers_race` | the same with two threads | a disagreement, see below |
| `send_buffers_reconnect` | the same with one thread | a disagreement, see below |
| `signals` | 2 enums with 2 values each, all in one bucket; priorities `first` and `normal`; 3 calls of `connect`, 2 connection objects, 2 nested calls | who is called and in which order; a handler is found under its id, once, and under no other; connection objects are keys |
| `context` | 3 apis, 2 event managers, 4 modules constructed, 2 nested constructors or destructors, a component base with two derived types | the cached pointer, ownership, what is replaced, the order and the end of `~irc()`, references to components |
| `session` | 2 attempts, 1 address, 5 bytes a session in chunks of 1 or 2, 432 endpoints of a URL and 19 others, with and without a port argument | the lines are those of the stream; every operation has a thread; only the end of the program leaves connecting behind; endpoints mean what they say; the end comes |

**Bounds.** The hazards of the queue need a posting call, a wait, and a third
party that takes the event in between; two events in a batch show its order,
a post the order between the batch and the rest; a second timed wait gives an expired consumer
in front of a live one, and the callback may refuse. With these each
action and each disjunct of the next-state relation occurs. In `EventIds`, five
slots allow two pops, an insert of two over them, and an insert that does not
fit; ids repeat, so that discard and replace have something to find. In
`Connection`, two attempts suffice to confuse a handler of the first with the
second; the calls of the client are bounded by `MaxConnects` only. Attempts over SSL are
in the run, as those that `disconnect` ends leave handlers behind for the next one, but
`ConnectingHasWork` and `AttemptEnds` do not speak of them (item 5 below). In
`EventHandling`, three events are a batch of two and an unrelated one, or a chain of
two registrations; three acts are enough to queue an id during
`finishing_handling` inside a nested `handle`; the depth counts frames, and four
are a `handle` inside a handler of a `handle`. In `SendBuffers`, five bytes in
chunks of two give a buffer being sent in two parts while another one fills, and
a third after the swap. In `Signals`, the ids differ in enum, in value and in both, and one has the value of
the invalid id; `OneBucket` leaves it to `==` to tell them apart; connection objects are
interchangeable, hence the symmetry; three handlers are two of one priority and one of
another, or one that is connected while the first is called; two connection objects
are an object and a copy of it. In `Context`, depth two is a `load` or `unload` inside
of a constructor or destructor; four modules let the event manager be replaced and
unloaded with another module beside it. In `Session`, five bytes are a `\r\n` split
between two reads with text on both sides, and three bytes of a session that is
cut off in a line, followed by another session.

**Fairness.** `EventQueue`: each posting call keeps running, and so does each
wait once it has looked at the queue for the first time (`FairSpec`, with
`Timeout` counted as running for a timed wait: `wait_for` returns). Weak fairness
of each step suffices for the mutexes because every call runs once: a mutex is
taken away from a given call only finitely often. No call has to be made, no
callback has to accept anything. `Connection`: the io thread runs its handlers
(`io_service::run` on the internal thread), and a lookup, an attempt to connect
and a handshake end, by the timeouts of the system. Reads and writes need not
end and the client need not do anything. `EventHandling`: a worker inside `handle`
keeps running and handlers return or throw; what handlers do besides is bounded
by `MaxActs`, as a handler that queues an id each time keeps `handle` going for ever.
Nobody has to take events. `SendBuffers`: calls and handlers keep running, the io
thread runs handlers, and a write ends: with a part sent or with an error, as TCP
times out. `AllSent` is then about the code alone.
`Context`: a destructor that has begun goes on. `Session`: the io thread runs handlers,
lookups and attempts end, and `run` and `join` return when they can; nobody has
to destroy a connection, and `ExitEnds` is about those that are destroyed.

**Deadlock.** `EventQueue`, `EventHandling`, `Connection`, `SendBuffers`, `Context` and
`Session` run with `CHECK_DEADLOCK FALSE`: when
all calls are made a wait may be left sleeping, and a terminated or destroyed
connection or context does nothing. That calls are not stuck is `CallsFinish`,
`HandleEnds`, `AttemptEnds`, `AllSent`, `DestructionEnds` and `ExitEnds`.

## The proofs

`EventQueueProofs` proves, for any sets of calls, any batches and any number
of events, that `Spec` implies

* `TypeCorrect`: `[]TypeOK`, which contains the bound of the consumer index;
* `NoLockCycle`: `[]LockOrder`;
* `NoLostWakeup`: `[]NoIdleConsumer`;
* `NoWriteToDeadFrame`: `[]NoDanglingAccept`;
* `UntimedWaitReturnsEvent`: `[]UntimedWaitGetsEvent`;
* `ImplementsApi`: `ApiSpec`, the refinement of `EventQueueAbs`.

Assumptions: the kinds of call are disjoint, `None` is none of them
(`CallsAssumption`), and no event is in two batches or twice in one
(`BatchAssumption`). No finiteness is assumed.

None of the properties is inductive. `IInv` adds what relates the parts of the
state: who is inside `try_unqueue` holds `queue_mutex` (`LockHeld`), an offer is
made to a wait with an event at the front (`OfferInProgress`), consumers
belong to calls past their registration and are distinct (`Registered`,
`ConsumersDistinct`), a callback not reached was not called
(`CallbacksUncalled`), `awaits_event` implies a live frame (`AwaitsWhileAlive`)
and, together with `pc`, determines whether `ep` holds an event
(`EventIffAccepted`), an untimed wait leaves only with an event
(`OnlyTimedGivesUp`), and what is returned is `ep` (`ReturnedIsEp`). The proof has
a lemma per action; two lemmas about registering a consumer and about a wait
that leaves are shared. `NoLockCycle` follows from `Registered` together with
`ConsumersDistinct`: the consumer being offered an event is registered, hence
its wait is past `recheck`. The refinement maps a step of a posting call that
takes `queue_mutex` to `Post` or `PostBatch`, each acceptance to `Take`, each
refusal of a callback and each timeout without an event to `GiveUp`, and every
other step to a stutter.

`EventIdsProofs` proves, for any ids, any ranges and a vector of any length, of a
client that does not call `unqueue` for ids it has popped (`~UnqueueConsumed`; the run
`event_ids_unqueue` is the counterexample without it),

* `InBounds`: `[]IndexInBounds`;
* `UnqueuesMatching`: `UnqueueRemovesMatching`;
* `ImplementsApi`: `ApiSpec`, the refinement of `EventIdsAbs`.

The difficulty is a range: the code queues it id by id, the abstract queue in
one operation. `HalfDone` in the invariant says what a call half-way through its range
has done: what it replaced is gone from the ids queued before (`Without(before,
Replaced)`), what it collected is the part of the range looked at without the ids
refused, and each result is the one the abstract operation gives (`Result`). The steps
of the loop then are stutters, and the last one is the operation. `Result` looks at
the ids queued before the call only: what is replaced on the way does not change the
verdict on the ids that follow. `Without` is a recursive function on positions; that the function exists, and that it
does what its equation says, is proved by induction over sets of numbers and of
sequences (`LeastElement`, from well-foundedness of `<`).

`ConnectionProofs` proves, for any number of attempts and addresses and any
client,

* `Closed`: `[]DisconnectedIsClosed`, TCP and SSL;
* `Quiet`: `QuietAfterDestroy`, TCP and SSL, in the presence of handlers that had
  locked their `weak_ptr` before the destructor ran;
* `TypeCorrect`: `[]TypeOK`, TCP and SSL;
* `OneReader`: `[]ConnectedHasOneReader`, TCP and SSL;
* `GetsSomewhere`: `[]ConnectingHasWork`: without ssl, which may have been the transport of
  an attempt before (with ssl a failed handshake is the counterexample, item 5 below);
* `Established`: `EstablishedByOwnAttempt`, TCP and SSL; of handlers of an earlier attempt
  `connection_stale` shows the opposite.

None of them has an assumption about the client or the endpoints.

The first two rest on `IInv`: nothing is under way on a closed socket
(`ClosedIsIdle`), the socket is closed before the state becomes disconnected
(`DisconnectedNotOpen`), and the destructor leaves a state in which every handler
returns at once, or the program has ended (`DestroyedIsInert`). Handlers of aborted
attempts need no case of their own there.

The others are about just those handlers, and need `Order`: handlers become ready
in the order of their attempts, and only those of the last attempt and the one
before it are left (`InOrder`), as a `connect` succeeds only from disconnected, with
all operations of the socket completed; a name lookup, which survives the closing of
the socket, leaves the state other than disconnected (`LookupFirst`), so that a handler of an
earlier attempt never runs beside the lookup's own successor (`StaleFirst`); of one
attempt there is at most one operation of the chain lookup, connect, handshake, read
(`OneChain`, `OneRead`); and who is connected has the read (`Reads`). A handler of an
earlier attempt takes the present one for its own, which may bring the wrong state
about, but neither a second read nor none. `TypeCorrect` is not an easy
theorem here: that no address past the last is tried follows from the order.
`Work` (of the current attempt, without ssl) and `OpenWhenDone` (a connect or handshake of the
current attempt that has succeeded has an open socket) are added for the last two.

`SendBuffersProofs` proves for any lengths, bounds and numbers of connections, assuming
`OneThread`,

* `TypeCorrect`, `InOrder` (`[]SentInOrder`), `NothingWaitsWithoutJob`
  (`[]NoJobMeansAllSent`), `OneWritePerJob` (`[]JobHasOneWrite`) and
  `StrayWriteOnlyFirst` (`[]StrayWriteIsFirst`).

The assumption is needed: the run `send_buffers_race` is the counterexample without. The invariant says
that what was given to the connection is what was sent, followed by the rest of
`send_buffer` and by `fill_buffer` (`Stream`, `Buffered`; position by position, with
a completed write whose handler has not run yet counted as sent), that a write
is that rest (`WriteIsRest`), that the job is exactly one of a thread in `send`, a
write and a due handler (`JobState`, `OneCall`), and that it does not end early
(`NothingLeft`). After a connection that has ended in the middle of its buffer all this
holds until the next one's first write, which begins outside of the buffer
(`send_buffers_reconnect`) and after which the model stops: `Astray` describes that last state,
in which nothing was sent and `fill_buffer` has all that was given.

`EventHandlingProofs` proves, for any number of threads, events, ids, calls and any
depth,

* `HandlingTypesCorrect`: `[]TypeOK`;
* `FinishingAlwaysFollows`: `[]FinishingFollowsIds`;
* `CurrentIdRestored`: `[]CurrentIdIsInnermost`;
* `LateIdsStay`: `OnlyLateIdsStay`;
* `EachTakenOnce`: `[]NoneLostOrDoubled`;
* `AfterwardsComeFirst`: `[]AfterwardsBeforeNext`;

the last four assuming `OneThread`: that there is one worker. Two that handle one event
share its `current_id` and its ids, one may handle an event again while the other is about
to remove its batch (item 9 below), and another thread takes the next event while
the first is still in `handle`.

The invariant `IInv` has the types of the data and `Sound` of each stack of calls:
`handle` is at the bottom, leaves room for the `handle_as` it makes, and after
`finishing_handling` has nothing left to be followed by another one. `Nesting` says that
the stack of the thread is of one event, that each `handle_as` remembers the id that was current
below it (`IdAt`), that the innermost one's id is current, and that the ids of all other
events are invalid. Every step of a call is a `Moves`: a new stack, sound, with the
ids of the event nested as before; the lemmas `PushHandleAs`, `PushHandle`, `PopFrame` and
`ReplaceTop` say so of the four ways a stack changes. An exception pops two
frames; `PopFrame` is used twice.

Each of the other three adds an invariant of its own. `Leftover`: an event has no id twice,
and where a `handle` is past its loop, all ids of the event are late ones, and what
runs above it is `finished_handling`. `Books`: an event was posted as often as it
was taken, waits in the queue and is in a batch (`Balanced`), where the batch of a
`handle` that has queued it and not yet removed it does not count; this can be the
innermost call only (`Settled`), so that no handler adds to a batch that is about to be
removed. `Lines`: what an event was registered under is `under` of the event
that registered it, and that event; along the queue these sets only shrink, and
the first one is contained in that of the event taken last (`Lineage`), which makes the
queue a stack of batches; what is taken from the front then ends the descendants of an event
before anything else comes (`InTime`). A batch belongs to the event being handled,
or to one whose handling an exception ended.

`SignalsProofs` proves, for any enums, values and hash functions, any number of
handlers, and calls nested to any depth, `ObjectsAreAlwaysKeys` (`[]ObjectsAreKeys`),
`AlwaysFoundUnderItsId` (`[]FoundUnderItsId`), `CallsInOrder` (`[]CalledInOrder`) and
`CallsAreComplete` (`CallsWhoWasThere`). The first follows from the types of what is
connected and assigned (`KeyTypesCorrect`). The others need that an id finds itself (`KeyIsId`,
from `AllAreKeys`), that the slots of an id are in calling
order and have all of its connected handlers (`Slots`) and no other (`SlotsConnected`; none
twice, as the order is strict), and of each call in progress
(`CallsSound`) that what it has called comes before what is left to it, that both are
handlers of its id, and that a handler that was there when it began and is still
connected is in one of the two. Handlers connected during the call have greater numbers
(`known`), and what connects and disconnects only adds handlers and clears `connected`
(`Grown`).

`ContextProofs` proves, for any finite set of module types, any component types and
any depth, `TypeCorrect`, `CacheIsCoherent` (`[]CacheCoherent`), `EveryModuleIsOwned`
(`[]Owned`), `ModulesNotReplaced` (`NotReplaced`), `EventManagerLast` (`ManagerLast`) and
`ComponentReferencesStay` (`ReferencesStay`). The invariant: the types (`Types`), a
module is alive exactly while it has a place, and has one place only (`Places`), the
constructors and destructors under way are of different modules, later ones inside
(`Nested`), `event_manager_` is the content of its slot (`Cached`), and the iterator of
`~irc()` has nothing behind it but the event manager (`Behind`). `NotReplaced` is where
`Nested` matters: what a constructor that ends replaces was constructed after it began.

`SessionProofs` proves, for any endpoints, bytes and bounds,

* `OperationsHaveThread`: `[]WorkHasThread`;
* `StrandedByExit`: `[]OnlyExitStrands`;
* `EndpointsTakenAsMeant`: `[]EndpointAsMeant`;
* `LinesAreOfStream`: `[]LinesOfStream`.

The first adds `ThreadStays`: until the destructor begins, a running
thread has the work object, and `run` has returned only after that, when requests are refused;
with the work object gone `run` returns only without an operation. The second is
`GetsSomewhere` carried over to the composition: each step of a session takes a step of
`Connection` (there are none of `SendRaw`) or leaves it alone, or a request is refused, and once it is (`Stranded`) it
stays so. The third rests on a lemma about the parser: for every well-formed
endpoint that is not in `Misread`, of names and numbers of any length, `Parse` of
what is written is what is meant (`ParsesAsMeant`), which comes down to where the first and last
delimiter of a concatenation are. `Number` is left as it is: both sides apply it to the same
digits.

The fourth is about functions first. What a stream leaves unfinished (`Unfinished`: what
follows its last line break, without the blanks in front) is all that later bytes need to
know of it: `LinesConcat` says that the lines of `s \o t` are those of `s`, then those of
`Unfinished(s) \o t`, and that both leave the same unfinished. It is proved byte by byte
(`AppendInduction`), from what one more byte does to the lines and to what is unfinished.
`CutIs` says that the loop of `recv` computes just this: the lines of its buffer, and what they leave
unfinished. Its recursion runs from a position to later ones, so it is proved from the
end of the buffer on, with the rest of the buffer as a stream of its own. The
invariant then is `Stream`: there are `consumed` bytes whose lines are out and whose
unfinished part is `recv_buffer`, and what the server has sent is these and the chunk whose read
handler has not run yet (`Unread`), of which there is only one. That comes from `OneChain` of
`ConnectionProofs`, as does the fact that no handler with bytes survives into a new session.
Where the service was refused, the connection has nothing under way, and a handler of the
attempt before can still take it to connected: no bytes come then (`StrandedIdle`). TLC agrees
that the invariant holds on the instance of the run.

`TypeOK` of `EventQueue`, `EventHandling`, `SendBuffers`, `Connection` and `Context`,
`UntimedWaitGetsEvent` and `JobHasOneWrite` are proved; those that are in no run are left
out of the runs because TLC would have nothing to add. `Signals`, `EventIds` and
`Session` have no type invariant of their own; `KeyTypesCorrect`, `InBounds` and the
first conjuncts of the invariants above are the parts that matter.

Every safety property of the passing runs has a theorem. Only model-checked: the
liveness properties, `AcceptedIsReturned`, `CallsFinish`, `HandleEnds`, `AttemptEnds`, `AllSent`,
`DestructionEnds` and `ExitEnds`, which rest on fairness and so on ENABLED, which the
prover does not do. Nor does it take the library's induction theorems, whose parameter is
an operator: induction is over a set of numbers or of sequences here (`Induction`,
`AppendInduction`, `LeastElement`), and what recurses in the models is a recursive function,
whose existence is proved each time. The theorems of `EventHandling` that assume `OneThread` say nothing of several threads, and
no run has two: several threads are in the models of the queue, which is where the library has a
mutex.

## What the models found

Four have a run that ends in a counterexample, and an entry under `findings`
with the line of documentation it disagrees with.

1. `unqueue` searches popped ids too and leaves `next_id_index` alone: every
   popped id it erases hides one pending id (`event.cpp:62`; `event_ids_unqueue`).
2. A handler of an attempt that `disconnect` ended takes a later attempt for its
   own, and reports it as connected on a closed socket (`connection.cpp:403`;
   `connection_stale`).
3. `send_raw` appends without the mutex: bytes appended while the io thread is
   about to end the job are sent with the next `send_raw` only
   (`connection.cpp:649`; `send_buffers_race`).
4. `clear` leaves `current_send_state` where it was: when a connection ends in the
   middle of a buffer, the next one's first write starts at the old distance in the
   new, empty buffer (`connection.cpp:147`, used at 162; `send_buffers_reconnect`).
   `StrayWriteIsFirst` says that no other write goes astray; `AllSent` and the other
   properties of `SendBuffers` end with it.

The others are in the models, named by an exception in a property or its comment, or kept
out of the passing runs by a constant:

5. After a failed SSL handshake the connection stays `connecting` for ever
   (`connection.cpp:436`). `ConnectingHasWork` and `AttemptEnds` are violated without
   `transport # "ssl"`.
6. A failed name lookup throws on the io thread, as the socket is not open
   yet and `sock.cancel()` throws for such a one (`connection.cpp:481`). By the same
   line `disconnect` during the lookup leaves the state `disconnecting` for good, and a
   destructor throws. `Connection` has all three: with `LookupFails = TRUE` a failed
   lookup ends in `terminated`, and with `Connection.cfg` its `DisconnectingNotReported`
   is violated.
7. An endpoint with a port and a path keeps the port in the host name, since the search
   for the port begins at the delimiter of the path (`connection.cpp:281`); the
   brackets of an IPv6 address stay in the host name; `::1` is taken for the
   host `:` with port 1. `modules/connection.hpp:137-157` documents all three
   forms. `Misread` in `Endpoint` names them, `EndpointAsMeant` holds of the rest.
8. A connect that the service refuses at the end of the program leaves
   `connecting` (`connection.cpp:336`), and a `set_endpoint` the new host and port
   (`connection.cpp:303`). Both are exceptions in `OnlyExitStrands` and
   `EndpointAsMeant`.
9. A handler that throws skips the tail of `handle`: what it registered with
   `afterwards` is never queued (`failed` in `AfterwardsBeforeNext`). With two workers
   and `SelfAfterwards`, `NoneLostOrDoubled` fails: between the release of
   `queue_mutex` and `components.remove` another thread may handle the same event.

10. `queue_as` of one invalid id returns `invalid` (`event.cpp:50-59`), where `event.hpp:481`
   says that it throws `exceptions::invalid_event_id` and `event.hpp:148-149` that `invalid`
   is used for the callbacks of ranges only. `EventIdsAbs` returns it, as the code does, so
   `ApiSpec` does not show the documented exception.
11. Ids that handlers of `finished_handling` queue stay in the queue of the event, as
   `apis/event_manager.hpp:184` says (`event_manager.cpp:157` pops none of them), whereas
   `event.hpp:435` says of `handle` that the queue of ids will be empty when it returns.
   `OnlyLateIdsStay` is the former; the latter fails in the run `event_handling` with the
   first id so queued.
12. Handlers of priority `first` are called in the order they were connected
   (`event_manager.cpp:132-136`), where `apis/event_manager.hpp:212` says last come, first
   serve. `CalledInOrder` states the code's order, for `first` as for the others; the
   documented one would violate it.
13. `load` inside of a constructor of a module of the same api inserts a module that the
   outer `load` then replaces, against the assertion at `irc.cpp:64` and against
   `irc.hpp:113`, which says that a loaded module is not replaced. `NotReplaced` has it as
   its exception.

Two more were met while reading and are not in the models: `handle_as` of an invalid
id handles the event under that id (`event.cpp:45`), where `event.hpp:450` says that it throws;
and a destructor that `~irc()` runs may unload the module the iterator stands at
(`irc.cpp:41`).

## Not modelled

* The utilities (`scoped_swap` is part of `EventHandling`), exceptions, strings, example,
  tests and build files: they keep no state of their own. The main loop of the minibot is
  `TakeEvent` of `EventHandling`.
* The body of a handler that is not the library's: what clients do is limited to the
  calls the actions name.
* Data races inside of containers (`impl::signals`, the vectors of `send_raw`) and memory
  ordering: data is accessed under the mutexes the models show. What OpenSSL
  does with a used session.
* The destruction of the event manager while threads wait for events, consumers
  that throw or call back into the event manager, and a service that changes between
  `set_endpoint` and `connect`: the code gives these no meaning to state.
* In `set_endpoint`, the query and fragment of a URL, which end the server part like a
  path does.

## The plan

Done: `EventQueue`, `EventIds`, `EventHandling`, `Connection` and `SendBuffers`, then
`Signals`, `RecvLines`, `Endpoint`, `NetworkService`, `Session`, `Components` and `Context`,
each with its run, and the proofs above. What could follow:

1. A composition of `Connection`, `EventQueue` and the main loop: a state event
   reaches the client in the order of the changes of state. Both halves hold by
   themselves: events are posted under `impl::mutex`, and `EventQueueAbs` keeps their order.
2. Proofs: the refinement of `EventQueueAbs` by what `EventHandling` does with the queue.

A run has one instance and one question; properties that share an instance share the
run, so that the whole can be checked in minutes.
