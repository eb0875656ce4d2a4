--------------------------- MODULE EventHandling ---------------------------
(***************************************************************************)
(* slirc::modules::event_manager::handle and handle_as: the threads of a   *)
(* client take events from the queue and run the handlers of every id an   *)
(* event is queued as.  Handlers queue more ids, handle the event again,   *)
(* register events for afterwards, and throw.                              *)
(*                                                                         *)
(* The queue is the one EventQueueAbs promises, the ids of an event are    *)
(* the double-ended queue of EventIdsAbs.  What handlers are connected to  *)
(* an id, and in which order they run, is left out: the handlers of an id  *)
(* do whatever a handler can do, any number of times.                      *)
(***************************************************************************)
EXTENDS Naturals, Sequences, SequencesExt, FiniteSets

CONSTANTS
    Workers,        \* threads that wait for events and handle them
    Events,
    Ids,            \* ids besides those in the enumeration "events"
    OriginalId,     \* the id every event is created as
    None,           \* the invalid id
    MaxDepth,       \* bound on the calls of handle and handle_as in progress
    MaxActs,        \* bound on what handlers do besides returning
    HandlersThrow,  \* whether a handler can throw
    SelfAfterwards  \* whether a handler registers an event after itself

\* apis::event_manager::events
HandlingIds == {"begin_handling", "finishing_handling", "finished_handling"}
AllIds == Ids \cup HandlingIds

ASSUME HandlingAssumption ==
    /\ OriginalId \in Ids
    /\ Ids \cap HandlingIds = {}
    /\ None \notin Ids \cup HandlingIds
    /\ MaxDepth \in Nat \ {0, 1}
    /\ MaxActs \in Nat
    /\ HandlersThrow \in BOOLEAN
    /\ SelfAfterwards \in BOOLEAN

VARIABLES
    queue,      \* impl::queue
    stack,      \* the calls of handle and handle_as each worker is in
    pending,    \* the ids each event is still queued as
    current_id, \* event::current_id_mutable
    afterwards, \* handle_afterwards::events, <<>> without the component
    acts,       \* the number of things handlers have done
    started,    \* history: the events taken from the queue, in order
    posts,      \* history: how often each event was queued or registered
    under,      \* history: the events each was registered after, and theirs
    late,       \* history: the pending ids queued during finished_handling
    failed      \* history: the events whose handling ended with an exception

\* The histories of what was queued, registered and taken.
history == <<started, posts, under, failed>>

vars == <<queue, stack, pending, current_id, afterwards, acts, late, history>>

Init ==
    /\ queue = <<>>
    /\ stack = [w \in Workers |-> <<>>]
    /\ pending = [e \in Events |-> <<OriginalId>>]
    /\ current_id = [e \in Events |-> None]
    /\ afterwards = [e \in Events |-> <<>>]
    /\ acts = 0
    /\ started = <<>>
    /\ posts = [e \in Events |-> 0]
    /\ under = [e \in Events |-> {}]
    /\ late = [e \in Events |-> {}]
    /\ failed = {}

----------------------------------------------------------------------------
(* The calls in progress                                                   *)

Idle(w) == stack[w] = <<>>
Top(w) == Last(stack[w])

\* dirty: whether an id was handled that no finishing_handling has followed.
HandleCall(e) == [fn |-> "handle", event |-> e, at |-> "begin", dirty |-> FALSE]

InHandle(w, at) == ~Idle(w) /\ Top(w).fn = "handle" /\ Top(w).at \in at
InHandler(w)    == ~Idle(w) /\ Top(w).fn = "handle_as"

\* event::handle_as: current_id is swapped for the duration of the call.
CallHandleAs(w, frames, e, id) ==
    /\ stack' = [stack EXCEPT ![w] =
           Append(frames, [fn |-> "handle_as", event |-> e, as |-> id,
                           original |-> current_id[e]])]
    /\ current_id' = [current_id EXCEPT ![e] = id]

\* handle() on top of the stack goes on at another place.
GoneTo(w, at, dirty) ==
    Append(Front(stack[w]), [Top(w) EXCEPT !.at = at, !.dirty = dirty])

----------------------------------------------------------------------------
(* event_manager::handle                                                   *)

BeginHandling(w) ==
    /\ InHandle(w, {"begin"})
    /\ CallHandleAs(w, GoneTo(w, "ids", FALSE), Top(w).event, "begin_handling")
    /\ UNCHANGED <<queue, pending, afterwards, acts, late, history>>

\* Variant: the id is looked at, but stays queued.
HandleNextIdKeeping(w) ==
    LET e == Top(w).event IN
    /\ InHandle(w, {"ids", "check"})
    /\ pending[e] # <<>>
    /\ CallHandleAs(w, GoneTo(w, "ids", TRUE), e, Head(pending[e]))
    /\ UNCHANGED <<queue, pending, afterwards, acts, late, history>>

\* Variant: what finishing_handling has queued does not bring the loop back.
HandleNextIdInPlace(w) ==
    LET e == Top(w).event IN
    /\ InHandle(w, {"ids", "check"})
    /\ pending[e] # <<>>
    /\ pending' = [pending EXCEPT ![e] = Tail(@)]
    /\ late' = [late EXCEPT ![e] = @ \ {Head(pending[e])}]
    /\ CallHandleAs(w, GoneTo(w, Top(w).at, TRUE), e, Head(pending[e]))
    /\ UNCHANGED <<queue, afterwards, acts, history>>

\* pop_next_queued_id and handle_as, in the loop or after finishing_handling.
HandleNextId(w) ==
    LET e == Top(w).event IN
    /\ InHandle(w, {"ids", "check"})
    /\ pending[e] # <<>>
    /\ pending' = [pending EXCEPT ![e] = Tail(@)]
    /\ late' = [late EXCEPT ![e] = @ \ {Head(pending[e])}]
    /\ CallHandleAs(w, GoneTo(w, "ids", TRUE), e, Head(pending[e]))
    /\ UNCHANGED <<queue, afterwards, acts, history>>

FinishingHandling(w) ==
    /\ InHandle(w, {"ids"})
    /\ pending[Top(w).event] = <<>>
    /\ CallHandleAs(w, GoneTo(w, "check", FALSE), Top(w).event, "finishing_handling")
    /\ UNCHANGED <<queue, pending, afterwards, acts, late, history>>

\* Variant: ids queued by finishing_handling are not looked for.
FinishedHandlingUnchecked(w) ==
    /\ InHandle(w, {"check"})
    /\ CallHandleAs(w, GoneTo(w, "afterwards", Top(w).dirty), Top(w).event,
                    "finished_handling")
    /\ UNCHANGED <<queue, pending, afterwards, acts, late, history>>

FinishedHandling(w) ==
    /\ InHandle(w, {"check"})
    /\ pending[Top(w).event] = <<>>
    /\ CallHandleAs(w, GoneTo(w, "afterwards", Top(w).dirty), Top(w).event,
                    "finished_handling")
    /\ UNCHANGED <<queue, pending, afterwards, acts, late, history>>

\* Variant: the batch goes to the back of the queue.
QueueAfterwardsAtBack(w) ==
    /\ InHandle(w, {"afterwards"})
    /\ afterwards[Top(w).event] # <<>>
    /\ queue' = queue \o afterwards[Top(w).event]
    /\ stack' = [stack EXCEPT ![w] = GoneTo(w, "remove", Top(w).dirty)]
    /\ UNCHANGED <<pending, current_id, afterwards, acts, late, history>>

\* With queue_mutex locked, copy handle_afterwards::events to the front.
QueueAfterwards(w) ==
    /\ InHandle(w, {"afterwards"})
    /\ afterwards[Top(w).event] # <<>>
    /\ queue' = afterwards[Top(w).event] \o queue
    /\ stack' = [stack EXCEPT ![w] = GoneTo(w, "remove", Top(w).dirty)]
    /\ UNCHANGED <<pending, current_id, afterwards, acts, late, history>>

\* Whether handle() returns in this step.
Returning(w) ==
    \/ InHandle(w, {"afterwards"}) /\ afterwards[Top(w).event] = <<>>
    \/ InHandle(w, {"remove"})

\* Variant: the component is not removed.
ReturnKeepingAfterwards(w) ==
    /\ Returning(w)
    /\ stack' = [stack EXCEPT ![w] = Front(@)]
    /\ UNCHANGED <<queue, pending, current_id, afterwards, acts, late, history>>

\* With queue_mutex free again, remove the component, if any, and return.
ReturnFromHandle(w) ==
    /\ Returning(w)
    /\ afterwards' = [afterwards EXCEPT ![Top(w).event] = <<>>]
    /\ stack' = [stack EXCEPT ![w] = Front(@)]
    /\ UNCHANGED <<queue, pending, current_id, acts, late, history>>

HandleStep(w) ==
    \/ BeginHandling(w)
    \/ HandleNextId(w)
    \/ FinishingHandling(w)
    \/ FinishedHandling(w)
    \/ QueueAfterwards(w)
    \/ ReturnFromHandle(w)

----------------------------------------------------------------------------
(* What the handlers of an id do                                           *)

Act(w) == InHandler(w) /\ acts < MaxActs /\ acts' = acts + 1

\* An event nobody has queued yet.
Fresh(e) == posts[e] = 0

\* event::queue_as, with the strategy discard.
QueueAs(w, id) ==
    LET e == Top(w).event
        finished == \E call \in ToSet(stack[w]) :
                        call.fn = "handle_as" /\ call.as = "finished_handling"
    IN
    /\ Act(w)
    /\ ~Contains(pending[e], id)
    /\ \/ pending' = [pending EXCEPT ![e] = <<id>> \o @]
       \/ pending' = [pending EXCEPT ![e] = Append(@, id)]
    /\ late' = [late EXCEPT ![e] = IF finished THEN @ \cup {id} ELSE @]
    /\ UNCHANGED <<queue, stack, current_id, afterwards, history>>

\* event::afterwards.
Afterwards(w, f) ==
    LET e == Top(w).event IN
    /\ Act(w)
    /\ Fresh(f) \/ (SelfAfterwards /\ f = e)
    /\ afterwards' = [afterwards EXCEPT ![e] = Append(@, f)]
    /\ posts' = [posts EXCEPT ![f] = @ + 1]
    /\ under' = [under EXCEPT ![f] = under[e] \cup {e}]
    /\ UNCHANGED <<queue, stack, pending, current_id, started, late, failed>>

\* event::handle_as and event::handle of the event that is being handled.
NestedHandleAs(w, id) ==
    /\ Act(w)
    /\ Len(stack[w]) < MaxDepth
    /\ CallHandleAs(w, stack[w], Top(w).event, id)
    /\ UNCHANGED <<queue, pending, afterwards, late, history>>

NestedHandle(w) ==
    /\ Act(w)
    /\ Len(stack[w]) + 1 < MaxDepth
    /\ stack' = [stack EXCEPT ![w] = Append(@, HandleCall(Top(w).event))]
    /\ UNCHANGED <<queue, pending, current_id, afterwards, late, history>>

\* The handlers are through: ~scoped_swap restores current_id.
ReturnFromHandleAs(w) ==
    /\ InHandler(w)
    /\ current_id' = [current_id EXCEPT ![Top(w).event] = Top(w).original]
    /\ stack' = [stack EXCEPT ![w] = Front(@)]
    /\ UNCHANGED <<queue, pending, afterwards, acts, late, history>>

\* An exception leaves handle_as and, if that is where it was called, handle;
\* the handler further up catches it or throws on.
Unwound(w) ==
    LET below == Front(stack[w])
    IN  IF Last(below).fn = "handle" THEN Front(below) ELSE below

\* Variant: current_id is assigned back, not restored by a destructor.
ThrowKeepingId(w) ==
    /\ HandlersThrow
    /\ InHandler(w)
    /\ stack' = [stack EXCEPT ![w] = Unwound(w)]
    /\ failed' = IF Unwound(w) = <<>> THEN failed \cup {Top(w).event} ELSE failed
    /\ UNCHANGED <<queue, pending, current_id, afterwards, acts, started, posts, under, late>>

Throw(w) ==
    /\ HandlersThrow
    /\ InHandler(w)
    /\ current_id' = [current_id EXCEPT ![Top(w).event] = Top(w).original]
    /\ stack' = [stack EXCEPT ![w] = Unwound(w)]
    /\ failed' = IF Unwound(w) = <<>> THEN failed \cup {Top(w).event} ELSE failed
    /\ UNCHANGED <<queue, pending, afterwards, acts, started, posts, under, late>>

HandlerStep(w) ==
    \/ \E id \in Ids : QueueAs(w, id) \/ NestedHandleAs(w, id)
    \/ \E f \in Events : Afterwards(w, f)
    \/ NestedHandle(w)

----------------------------------------------------------------------------
(* The client                                                              *)

\* event::queue, called from anywhere.
Queue(f) ==
    /\ Fresh(f)
    /\ queue' = Append(queue, f)
    /\ posts' = [posts EXCEPT ![f] = 1]
    /\ UNCHANGED <<stack, pending, current_id, afterwards, acts, started, under,
                   late, failed>>

\* The main loop: wait_event(), e->handle().
TakeEvent(w) ==
    /\ Idle(w)
    /\ queue # <<>>
    /\ stack' = [stack EXCEPT ![w] = <<HandleCall(Head(queue))>>]
    /\ queue' = Tail(queue)
    /\ started' = Append(started, Head(queue))
    /\ UNCHANGED <<pending, current_id, afterwards, acts, posts, under, late, failed>>

Return(w) == ReturnFromHandleAs(w) \/ Throw(w)

Next ==
    \/ \E f \in Events : Queue(f)
    \/ \E w \in Workers :
        TakeEvent(w) \/ HandleStep(w) \/ HandlerStep(w) \/ Return(w)

\* A worker inside handle() keeps running, and handlers come to an end.
Fairness == \A w \in Workers : WF_vars(HandleStep(w)) /\ WF_vars(Return(w))

Spec == Init /\ [][Next]_vars
FairSpec == Spec /\ Fairness

----------------------------------------------------------------------------
(* Properties                                                              *)

Frames ==
    [fn : {"handle"}, event : Events, dirty : BOOLEAN,
     at : {"begin", "ids", "check", "afterwards", "remove"}]
        \cup [fn : {"handle_as"}, event : Events, as : AllIds,
              original : AllIds \cup {None}]

TypeOK ==
    /\ queue \in Seq(Events)
    /\ stack \in [Workers -> Seq(Frames)]
    /\ pending \in [Events -> Seq(Ids)]
    /\ current_id \in [Events -> AllIds \cup {None}]
    /\ afterwards \in [Events -> Seq(Events)]
    /\ acts \in 0..MaxActs
    /\ started \in Seq(Events)
    /\ posts \in [Events -> Nat]
    /\ under \in [Events -> SUBSET Events]
    /\ late \in [Events -> SUBSET Ids]
    /\ failed \in SUBSET Events

\* current_id is the id of the innermost handle_as in progress, and invalid
\* without one: however calls are nested and left, by return or exception, a
\* handler finds the id it was called for.
CurrentIdIsInnermost ==
    \A e \in Events :
        LET HandledBy(w, i) == /\ i \in DOMAIN stack[w]
                               /\ stack[w][i].fn = "handle_as" /\ stack[w][i].event = e
        IN  \/ /\ current_id[e] = None
               /\ \A w \in Workers, i \in 1..MaxDepth : ~HandledBy(w, i)
            \/ \E w \in Workers, i \in 1..MaxDepth :
                   /\ HandledBy(w, i) /\ stack[w][i].as = current_id[e]
                   /\ \A v \in Workers, j \in 1..MaxDepth :
                          HandledBy(v, j) => v = w /\ j <= i

\* An id handled in the loop is followed by finishing_handling before
\* finished_handling, also if it was queued by finishing_handling itself
\* (apis/event_manager.hpp:178).
FinishingFollowsIds ==
    \A w \in Workers : \A i \in DOMAIN stack[w] :
        stack[w][i].fn = "handle" /\ stack[w][i].at \in {"afterwards", "remove"} =>
            ~stack[w][i].dirty

\* handle() leaves nothing behind but ids queued during finished_handling
\* (apis/event_manager.hpp:184), whatever nested calls handle in between.  Those
\* do stay, for nothing pops ids behind event_manager.cpp:157: event.hpp:435
\* says that the queue of ids will be empty when handle() returns, and it is
\* not when handlers of finished_handling have queued ids.
OnlyLateIdsStay ==
    [][\A w \in Workers :
           Returning(w) /\ stack'[w] = Front(stack[w]) =>
               ToSet(pending[Top(w).event]) \subseteq late[Top(w).event]]_vars

\* Where e is in a queue or batch.
PlacesOf(e, s) == {i \in DOMAIN s : s[i] = e}

\* While no event is being handled, everything queued or registered for
\* afterwards was taken once, or waits in the queue or with its event.
NoneLostOrDoubled ==
    (\A w \in Workers : Idle(w)) =>
        \A e \in Events :
            posts[e] = Cardinality(PlacesOf(e, started)) + Cardinality(PlacesOf(e, queue))
                         + Cardinality(UNION {{f} \X PlacesOf(e, afterwards[f]) : f \in Events})

\* Events registered with afterwards() are handled before the next event of the
\* main queue (event.hpp:712), those that they register in turn included.  An
\* exception that ends the handling of an event skips what was registered with it.
AfterwardsBeforeNext ==
    \A i, j \in DOMAIN started :
        i < j /\ started[i] # started[j] /\ started[i] \notin under[started[j]] =>
            \A f \in Events : started[i] \in under[f] /\ under[f] \cap failed = {} =>
                \E k \in 1..j : started[k] = f

\* handle() returns, or ends with an exception, if its handlers do.
HandleEnds == \A w \in Workers : ~Idle(w) ~> Idle(w)
=============================================================================
