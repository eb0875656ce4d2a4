---------------------------- MODULE EventIdsAbs ----------------------------
(***************************************************************************)
(* The queue of event ids an event promises (event.hpp, the comments on    *)
(* queue_as, unqueue and pop_next_queued_id): a double-ended queue of the  *)
(* ids the event is still to be handled as.                                *)
(*                                                                         *)
(* In one point it is the queue of the code and not the one of the         *)
(* comments: queue_as() of one invalid id returns invalid, as event.cpp:52 *)
(* passes on what prepare_append_queue() has said, whereas event.hpp:481   *)
(* says that exceptions::invalid_event_id is thrown, and event.hpp:148-149 *)
(* that invalid is for the callbacks of ranges only.                       *)
(***************************************************************************)
EXTENDS IdSequences

CONSTANTS
    Ids,     \* valid event ids
    Invalid, \* the invalid event id
    Ranges   \* the sequences of ids the client queues; one id is a range of one

VARIABLES
    pending, \* the ids still queued
    last     \* what the last call returned

vars == <<pending, last>>

\* The results of queuing ids: each is judged against the ids that were queued
\* before the call; a replaced id is found there only once.  An invalid id is
\* left out, in a range as documented and also alone, where the documented
\* exception is never thrown.
ResultOf(ids, strategy, i) ==
    IF ids[i] = Invalid THEN "invalid"
    ELSE IF strategy = "discard" /\ ids[i] \in Occurring(pending) THEN "discarded"
    ELSE IF /\ strategy = "replace"
            /\ ids[i] \in Occurring(pending)
            /\ ~\E j \in 1..(i - 1) : ids[j] = ids[i]
         THEN "replaced"
    ELSE "queued"

\* The ids of the range that are queued, in the order of the range.
Accepted(ids, strategy) ==
    Without(ids, {Invalid} \cup IF strategy = "discard" THEN Occurring(pending) ELSE {})

\* The ids queued before that stay.
Kept(ids, strategy) ==
    Without(pending, IF strategy = "replace" THEN Occurring(ids) ELSE {})

Init == \E id \in Ids : pending = <<id>> /\ last = <<"created">>

QueueAs(ids, strategy, position) ==
    /\ pending' = IF position = "at_front"
                  THEN Accepted(ids, strategy) \o Kept(ids, strategy)
                  ELSE Kept(ids, strategy) \o Accepted(ids, strategy)
    /\ last' = <<"queue_as", [i \in DOMAIN ids |-> ResultOf(ids, strategy, i)]>>

Unqueue(S) ==
    /\ pending' = Without(pending, S)
    /\ last' = <<"unqueue", S \cap Occurring(pending) # {}>>

Pop ==
    \/ /\ pending # <<>>
       /\ pending' = Tail(pending)
       /\ last' = <<"pop", Head(pending)>>
    \/ /\ pending = <<>>
       /\ pending' = pending
       /\ last' = <<"pop", Invalid>>

Next ==
    \/ \E ids \in Ranges, strategy \in {"discard", "duplicate", "replace"},
          position \in {"at_front", "at_back"} : QueueAs(ids, strategy, position)
    \/ \E S \in SUBSET Ids : Unqueue(S)
    \/ Pop

Spec == Init /\ [][Next]_vars
=============================================================================
