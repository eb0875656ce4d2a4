----------------------------- MODULE EventQueue -----------------------------
(***************************************************************************)
(* The event queue of slirc::modules::event_manager, one step per critical *)
(* section: queue(), the three wait_event() overloads and the tail of      *)
(* handle() that puts a handle_afterwards batch at the front.              *)
(*                                                                         *)
(* Every call is a process of its own that runs once.  A posting call      *)
(* holds queue_mutex ("unqueue", "offer") while it offers events to the    *)
(* registered consumers; a wait has a second mutex, data->mutex, that the  *)
(* consumer it registers has to take.                                      *)
(***************************************************************************)
EXTENDS Naturals, Sequences, Functions

CONSTANTS
    Posts,      \* calls of queue(e); the event is named after its call
    Finishers,  \* calls of handle(e) that end with a handle_afterwards batch
    Batch,      \* handle_afterwards::events of each finisher
    Waits,      \* calls of wait_event()
    TimedWaits, \* calls of wait_event(timeout)
    Callbacks,  \* calls of wait_event(callback)
    None        \* a null event::pointer; the holder of a free mutex

Posters == Posts \cup Finishers
Waiters == Waits \cup TimedWaits
Takers  == Waiters \cup Callbacks
Calls   == Posters \cup Takers
Events  == Posts \cup UNION {Range(Batch[h]) : h \in Finishers}

\* The kinds of call are told apart, and no call or event is the null value.
ASSUME CallsAssumption ==
    /\ Posts \cap Finishers = {}
    /\ Waits \cap TimedWaits = {}
    /\ Waiters \cap Callbacks = {}
    /\ Posters \cap Takers = {}
    /\ None \notin Calls \cup Events

\* Every event is posted once: the batches and Posts share no event.
ASSUME BatchAssumption ==
    /\ DOMAIN Batch = Finishers
    /\ \A h \in Finishers :
        /\ Batch[h] \in Seq(Range(Batch[h]))
        /\ Range(Batch[h]) \cap Posts = {}
        /\ \A i, j \in 1..Len(Batch[h]) : Batch[h][i] = Batch[h][j] => i = j
        /\ \A k \in Finishers \ {h} : Range(Batch[h]) \cap Range(Batch[k]) = {}

VARIABLES
    pc,                   \* where each call is
    queueLock,            \* the posting call that holds queue_mutex, or None
    queue,                \* impl::queue
    queue_consumers,      \* impl::queue_consumers, each named after its call
    queue_consumer_index, \* impl::queue_consumer_index
    awaits_event,         \* data->awaits_event of each wait
    ep,                   \* the local event::pointer of each wait
    notified,             \* waits woken by data->condvar.notify_all()
    returned              \* what a wait returned or a callback accepted

vars == <<pc, queueLock, queue, queue_consumers, queue_consumer_index,
          awaits_event, ep, notified, returned>>

Init ==
    /\ pc = [c \in Calls |-> "start"]
    /\ queueLock = None
    /\ queue = <<>>
    /\ queue_consumers = <<>>
    /\ queue_consumer_index = 0
    /\ awaits_event = [w \in Waiters |-> FALSE]
    /\ ep = [w \in Waiters |-> None]
    /\ notified = {}
    /\ returned = [c \in Takers |-> None]

----------------------------------------------------------------------------
(* Posting: queue() and the tail of handle(), both ending in try_unqueue() *)

\* queue(): lock queue_mutex, push_back.
Post(p) ==
    /\ pc[p] = "start"
    /\ queueLock = None
    /\ queueLock' = p
    /\ queue' = Append(queue, p)
    /\ pc' = [pc EXCEPT ![p] = "unqueue"]
    /\ UNCHANGED <<queue_consumers, queue_consumer_index,
                   awaits_event, ep, notified, returned>>

\* Variant: copy the batch with a back_inserter.
FinishHandlingAtBack(h) ==
    /\ pc[h] = "start"
    /\ queueLock = None
    /\ queueLock' = h
    /\ queue' = queue \o Batch[h]
    /\ pc' = [pc EXCEPT ![h] = "unqueue"]
    /\ UNCHANGED <<queue_consumers, queue_consumer_index,
                   awaits_event, ep, notified, returned>>

\* handle(): lock queue_mutex, copy the batch in reverse through a
\* front_inserter, so that its first event ends up first.
FinishHandling(h) ==
    /\ pc[h] = "start"
    /\ queueLock = None
    /\ queueLock' = h
    /\ queue' = Batch[h] \o queue
    /\ pc' = [pc EXCEPT ![h] = "unqueue"]
    /\ UNCHANGED <<queue_consumers, queue_consumer_index,
                   awaits_event, ep, notified, returned>>

\* The loop condition of try_unqueue().
MoreToOffer ==
    queue # <<>> /\ queue_consumer_index < Len(queue_consumers)

NextConsumer == queue_consumers[queue_consumer_index + 1]
OfferedTo    == queue_consumers[queue_consumer_index]

\* try_unqueue() calls the consumer of wait_event(callback); the callback
\* decides whether it takes the event.
CallCallback(p) ==
    /\ pc[p] = "unqueue"
    /\ MoreToOffer
    /\ NextConsumer \in Callbacks
    /\ queue_consumer_index' = queue_consumer_index + 1
    /\ pc' = [pc EXCEPT ![NextConsumer] = "done"]
    /\ \/ /\ returned' = [returned EXCEPT ![NextConsumer] = Head(queue)]
          /\ queue' = Tail(queue)
       \/ UNCHANGED <<returned, queue>>
    /\ UNCHANGED <<queueLock, queue_consumers, awaits_event, ep, notified>>

\* Variant: an expired consumer does not advance the index.
SkipExpiredInPlace(p) ==
    /\ pc[p] = "unqueue"
    /\ MoreToOffer
    /\ NextConsumer \in Waiters
    /\ pc[NextConsumer] = "done"
    /\ UNCHANGED vars

\* The consumer of a wait whose frame is gone: weak_data.lock() is null.
SkipExpired(p) ==
    /\ pc[p] = "unqueue"
    /\ MoreToOffer
    /\ NextConsumer \in Waiters
    /\ pc[NextConsumer] = "done"
    /\ queue_consumer_index' = queue_consumer_index + 1
    /\ UNCHANGED <<pc, queueLock, queue, queue_consumers,
                   awaits_event, ep, notified, returned>>

\* The consumer of a wait that still runs: weak_data.lock() succeeds, and
\* the posting call goes on to data->mutex.
LockData(p) ==
    /\ pc[p] = "unqueue"
    /\ MoreToOffer
    /\ NextConsumer \in Waiters
    /\ pc[NextConsumer] # "done"
    /\ queue_consumer_index' = queue_consumer_index + 1
    /\ pc' = [pc EXCEPT ![p] = "offer"]
    /\ UNCHANGED <<queueLock, queue, queue_consumers,
                   awaits_event, ep, notified, returned>>

\* A wait holds its data->mutex from before it takes queue_mutex the second
\* time until it blocks in condvar.wait().
HoldsData(w) == pc[w] \in {"recheck", "registered"}

\* Variant: the consumer stores the event but does not notify.
OfferSilently(p) ==
    /\ pc[p] = "offer"
    /\ ~HoldsData(OfferedTo)
    /\ \/ /\ awaits_event[OfferedTo]
          /\ ep' = [ep EXCEPT ![OfferedTo] = Head(queue)]
          /\ awaits_event' = [awaits_event EXCEPT ![OfferedTo] = FALSE]
          /\ queue' = Tail(queue)
       \/ ~awaits_event[OfferedTo] /\ UNCHANGED <<ep, awaits_event, queue>>
    /\ pc' = [pc EXCEPT ![p] = "unqueue"]
    /\ UNCHANGED <<queueLock, queue_consumers, queue_consumer_index,
                   notified, returned>>

\* The consumer with data->mutex locked.  The result decides about the
\* pop_front(); both happen under queue_mutex, hence in one step.
Offer(p) ==
    /\ pc[p] = "offer"
    /\ ~HoldsData(OfferedTo)
    /\ \/ /\ awaits_event[OfferedTo]
          /\ ep' = [ep EXCEPT ![OfferedTo] = Head(queue)]
          /\ awaits_event' = [awaits_event EXCEPT ![OfferedTo] = FALSE]
          /\ notified' = IF pc[OfferedTo] = "waiting"
                         THEN notified \cup {OfferedTo} ELSE notified
          /\ queue' = Tail(queue)
       \/ /\ ~awaits_event[OfferedTo]
          /\ UNCHANGED <<ep, awaits_event, notified, queue>>
    /\ pc' = [pc EXCEPT ![p] = "unqueue"]
    /\ UNCHANGED <<queueLock, queue_consumers, queue_consumer_index, returned>>

\* The end of try_unqueue(): forget the consumers once all were called, and
\* release queue_mutex.
EndUnqueue(p) ==
    /\ pc[p] = "unqueue"
    /\ ~MoreToOffer
    /\ IF queue_consumer_index # 0 /\ queue_consumer_index = Len(queue_consumers)
       THEN queue_consumers' = <<>> /\ queue_consumer_index' = 0
       ELSE UNCHANGED <<queue_consumers, queue_consumer_index>>
    /\ queueLock' = None
    /\ pc' = [pc EXCEPT ![p] = "done"]
    /\ UNCHANGED <<queue, awaits_event, ep, notified, returned>>

PosterStep(p) ==
    \/ CallCallback(p)
    \/ SkipExpired(p)
    \/ LockData(p)
    \/ Offer(p)
    \/ EndUnqueue(p)

----------------------------------------------------------------------------
(* wait_event() and wait_event(timeout)                                    *)

\* Take the front of a queue that is not empty and leave.
TakeFront(w) ==
    /\ queue # <<>>
    /\ ep' = [ep EXCEPT ![w] = Head(queue)]
    /\ queue' = Tail(queue)
    /\ pc' = [pc EXCEPT ![w] = "returning"]
    /\ UNCHANGED <<queue_consumers, awaits_event>>

\* First look at the queue, before there is anything to wait on.
Check(w) ==
    /\ pc[w] = "start"
    /\ queueLock = None
    /\ \/ TakeFront(w)
       \/ /\ queue = <<>>
          /\ pc' = [pc EXCEPT ![w] = "prepare"]
          /\ UNCHANGED <<queue, queue_consumers, awaits_event, ep>>
    /\ UNCHANGED <<queueLock, queue_consumer_index, notified, returned>>

\* prepare_returning_wait_event_data(), then lock data->mutex.
Prepare(w) ==
    /\ pc[w] = "prepare"
    /\ awaits_event' = [awaits_event EXCEPT ![w] = TRUE]
    /\ pc' = [pc EXCEPT ![w] = "recheck"]
    /\ UNCHANGED <<queueLock, queue, queue_consumers, queue_consumer_index,
                   ep, notified, returned>>

\* Variant: register without a second look.
RecheckOmitted(w) ==
    /\ pc[w] = "recheck"
    /\ queueLock = None
    /\ queue_consumers' = Append(queue_consumers, w)
    /\ pc' = [pc EXCEPT ![w] = "registered"]
    /\ UNCHANGED <<queueLock, queue, queue_consumer_index, awaits_event, ep,
                   notified, returned>>

\* Second look, with data->mutex held; register the consumer if there is
\* still nothing.
Recheck(w) ==
    /\ pc[w] = "recheck"
    /\ queueLock = None
    /\ \/ TakeFront(w)
       \/ /\ queue = <<>>
          /\ queue_consumers' = Append(queue_consumers, w)
          /\ pc' = [pc EXCEPT ![w] = "registered"]
          /\ UNCHANGED <<queue, awaits_event, ep>>
    /\ UNCHANGED <<queueLock, queue_consumer_index, notified, returned>>

\* condvar.wait()/wait_for(): evaluate the predicate, release data->mutex and
\* block in one step.
Block(w) ==
    /\ pc[w] = "registered"
    /\ awaits_event[w]
    /\ pc' = [pc EXCEPT ![w] = "waiting"]
    /\ UNCHANGED <<queueLock, queue, queue_consumers, queue_consumer_index,
                   awaits_event, ep, notified, returned>>

\* Notified: reacquire data->mutex, see the predicate hold and leave the scope
\* that holds data->mutex.  The timed overload clears awaits_event on its way.
Wake(w) ==
    /\ pc[w] = "waiting"
    /\ w \in notified
    /\ ~awaits_event[w]
    /\ notified' = notified \ {w}
    /\ pc' = [pc EXCEPT ![w] = "returning"]
    /\ UNCHANGED <<queueLock, queue, queue_consumers, queue_consumer_index,
                   awaits_event, ep, returned>>

\* Variant: awaits_event is not cleared after the timeout.
TimeoutStillAwaiting(w) ==
    /\ pc[w] = "waiting"
    /\ notified' = notified \ {w}
    /\ pc' = [pc EXCEPT ![w] = "returning"]
    /\ UNCHANGED <<queueLock, queue, queue_consumers, queue_consumer_index,
                   awaits_event, ep, returned>>

\* Variant: one last look at the queue, before data->mutex is released.
TimeoutLookingAgain(w) ==
    /\ pc[w] = "waiting"
    /\ awaits_event' = [awaits_event EXCEPT ![w] = FALSE]
    /\ notified' = notified \ {w}
    /\ pc' = [pc EXCEPT ![w] = "recheck"]
    /\ UNCHANGED <<queueLock, queue, queue_consumers, queue_consumer_index,
                   ep, returned>>

\* wait_for() times out, possibly after the consumer was called: reacquire
\* data->mutex, clear awaits_event and leave the scope.
Timeout(w) ==
    /\ pc[w] = "waiting"
    /\ awaits_event' = [awaits_event EXCEPT ![w] = FALSE]
    /\ notified' = notified \ {w}
    /\ pc' = [pc EXCEPT ![w] = "returning"]
    /\ UNCHANGED <<queueLock, queue, queue_consumers, queue_consumer_index,
                   ep, returned>>

\* Return ep; the frame is gone and with it the last lasting reference to
\* data.
Return(w) ==
    /\ pc[w] = "returning"
    /\ returned' = [returned EXCEPT ![w] = ep[w]]
    /\ pc' = [pc EXCEPT ![w] = "done"]
    /\ UNCHANGED <<queueLock, queue, queue_consumers, queue_consumer_index,
                   awaits_event, ep, notified>>

WaiterStep(w) == Prepare(w) \/ Recheck(w) \/ Block(w) \/ Wake(w) \/ Return(w)

----------------------------------------------------------------------------
(* wait_event(callback)                                                    *)

\* One critical section: call the callback on the front, once, or register it.
WaitCallback(c) ==
    /\ pc[c] = "start"
    /\ queueLock = None
    /\ \/ /\ queue # <<>>
          /\ \/ /\ returned' = [returned EXCEPT ![c] = Head(queue)]
                /\ queue' = Tail(queue)
             \/ UNCHANGED <<returned, queue>>
          /\ pc' = [pc EXCEPT ![c] = "done"]
          /\ UNCHANGED queue_consumers
       \/ /\ queue = <<>>
          /\ queue_consumers' = Append(queue_consumers, c)
          /\ pc' = [pc EXCEPT ![c] = "registered"]
          /\ UNCHANGED <<queue, returned>>
    /\ UNCHANGED <<queueLock, queue_consumer_index, awaits_event, ep, notified>>

----------------------------------------------------------------------------
Next ==
    \/ \E p \in Posts : Post(p)
    \/ \E h \in Finishers : FinishHandling(h)
    \/ \E p \in Posters : PosterStep(p)
    \/ \E w \in Waiters : Check(w) \/ WaiterStep(w)
    \/ \E w \in TimedWaits : Timeout(w)
    \/ \E c \in Callbacks : WaitCallback(c)

\* A thread inside a call keeps running and a timeout expires; nobody has to
\* make a call in the first place.
Fairness ==
    /\ \A p \in Posters : WF_vars(PosterStep(p))
    /\ \A w \in Waiters : WF_vars(WaiterStep(w))
    /\ \A w \in TimedWaits : WF_vars(Timeout(w))

Spec == Init /\ [][Next]_vars
FairSpec == Spec /\ Fairness

----------------------------------------------------------------------------
(* Properties                                                              *)

PosterStates   == {"start", "unqueue", "offer", "done"}
WaiterStates   == {"start", "prepare", "recheck", "registered", "waiting",
                   "returning", "done"}
CallbackStates == {"start", "registered", "done"}

\* Every variable has its type, and the index never passes the end of the
\* consumers.
TypeOK ==
    /\ pc \in [Calls -> PosterStates \cup WaiterStates]
    /\ \A p \in Posters : pc[p] \in PosterStates
    /\ \A w \in Waiters : pc[w] \in WaiterStates
    /\ \A c \in Callbacks : pc[c] \in CallbackStates
    /\ queueLock \in Posters \cup {None}
    /\ queue \in Seq(Events)
    /\ queue_consumers \in Seq(Takers)
    /\ queue_consumer_index \in 0..Len(queue_consumers)
    /\ awaits_event \in [Waiters -> BOOLEAN]
    /\ ep \in [Waiters -> Events \cup {None}]
    /\ notified \in SUBSET Waiters
    /\ returned \in [Takers -> Events \cup {None}]

\* queue_mutex and data->mutex are taken in both orders: by a posting call
\* that offers an event, and by a wait that looks at the queue again.  A
\* posting call never waits for the data->mutex of a wait that in turn waits
\* for queue_mutex, so the two orders cannot deadlock.
LockOrder ==
    \A p \in Posters : pc[p] = "offer" => pc[OfferedTo] # "recheck"

\* The consumers try_unqueue() has not called yet.
Uncalled ==
    {queue_consumers[i] : i \in (queue_consumer_index + 1)..Len(queue_consumers)}

\* Whenever queue_mutex is free and an event is in the queue, no consumer is
\* left that was never offered it: no wakeup is lost between the second look
\* at the queue and the registration, nor when try_unqueue() stops early.
NoIdleConsumer ==
    queueLock = None /\ queue # <<>> => Uncalled = {}

\* The waits whose consumer can still be called.
Reachable ==
    Uncalled \cup {OfferedTo : p \in {q \in Posters : pc[q] = "offer"}}

\* A consumer that would still accept an event belongs to a wait that has not
\* returned: data->event refers to a local of wait_event(), so accepting later
\* would write to a dead frame and lose the event.
NoDanglingAccept ==
    \A w \in Waiters \cap Reachable :
        awaits_event[w] => pc[w] \in {"registered", "waiting"}

\* wait_event() comes back with an event, never with a null pointer.
UntimedWaitGetsEvent ==
    \A w \in Waits : pc[w] = "done" => returned[w] # None

\* Whatever a wait was given it returns, even if the timeout expires in the
\* meantime or the notification comes late.
AcceptedIsReturned ==
    \A w \in Waiters, e \in Events : ep[w] = e ~> returned[w] = e

\* A call that posts gets through try_unqueue(), and a timed wait that started
\* comes back: no mutex is waited for in a circle and no call is stuck in the
\* loop.
CallsFinish ==
    \A c \in Posters \cup TimedWaits : pc[c] # "start" ~> pc[c] = "done"

\* The promise of the API: a wait has its event from the moment its consumer
\* accepts it.
Api == INSTANCE EventQueueAbs WITH
    posted <- {p \in Posters : pc[p] # "start"},
    got    <- [c \in Takers |-> IF c \in Waiters THEN ep[c] ELSE returned[c]],
    gaveUp <- {w \in Waiters : pc[w] \in {"returning", "done"} /\ ep[w] = None}
                \cup {c \in Callbacks : pc[c] = "done" /\ returned[c] = None}

ApiSpec == Api!Spec
=============================================================================
