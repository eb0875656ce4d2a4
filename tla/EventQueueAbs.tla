--------------------------- MODULE EventQueueAbs ---------------------------
(***************************************************************************)
(* What the queue half of the event manager promises its callers           *)
(* (apis/event_manager.hpp: queue, wait_event, and the note on handle that *)
(* the events of afterwards() go to the front): one queue of events, each  *)
(* of which is handed, head first, to exactly one of the calls that ask    *)
(* for an event.  An untimed wait never comes back without one.            *)
(***************************************************************************)
EXTENDS Sequences

CONSTANTS
    Posts,      \* calls of queue(e); the event is named after its call
    Finishers,  \* calls of handle(e) that end with a handle_afterwards batch
    Batch,      \* the events each finisher puts at the front
    Waits,      \* calls of wait_event()
    TimedWaits, \* calls of wait_event(timeout)
    Callbacks,  \* calls of wait_event(callback)
    None        \* no event

Takers == Waits \cup TimedWaits \cup Callbacks

VARIABLES
    queue,  \* events nobody has taken yet
    posted, \* the posting calls that have had their effect
    got,    \* the event each taker was given
    gaveUp  \* the takers that ended without an event

vars == <<queue, posted, got, gaveUp>>

Init ==
    /\ queue = <<>>
    /\ posted = {}
    /\ got = [c \in Takers |-> None]
    /\ gaveUp = {}

Post(p) ==
    /\ p \notin posted
    /\ queue' = Append(queue, p)
    /\ posted' = posted \cup {p}
    /\ UNCHANGED <<got, gaveUp>>

PostBatch(h) ==
    /\ h \notin posted
    /\ queue' = Batch[h] \o queue
    /\ posted' = posted \cup {h}
    /\ UNCHANGED <<got, gaveUp>>

Take(c) ==
    /\ queue # <<>>
    /\ got[c] = None
    /\ c \notin gaveUp
    /\ got' = [got EXCEPT ![c] = Head(queue)]
    /\ queue' = Tail(queue)
    /\ UNCHANGED <<posted, gaveUp>>

GiveUp(c) ==
    /\ got[c] = None
    /\ c \notin gaveUp
    /\ gaveUp' = gaveUp \cup {c}
    /\ UNCHANGED <<queue, posted, got>>

Next ==
    \/ \E p \in Posts : Post(p)
    \/ \E h \in Finishers : PostBatch(h)
    \/ \E c \in Takers : Take(c)
    \/ \E c \in TimedWaits \cup Callbacks : GiveUp(c)

Spec == Init /\ [][Next]_vars
============================================================================
