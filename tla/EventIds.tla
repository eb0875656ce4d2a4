------------------------------ MODULE EventIds ------------------------------
(***************************************************************************)
(* The event ids of one slirc::event: the vector queued_ids whose first    *)
(* next_id_index elements have been popped, and the operations on it.      *)
(*                                                                         *)
(* A range is queued one id at a time (prepare_append_queue) and then      *)
(* inserted at once (append_to_queue_unchecked).  The client is one thread,*)
(* as an event is not thread safe.                                         *)
(***************************************************************************)
EXTENDS IdSequences

CONSTANTS
    Ids,             \* valid event ids
    Invalid,         \* the invalid event id
    Ranges,          \* the sequences of ids the client queues
    UnqueueConsumed, \* whether the client calls unqueue() for popped ids, too
    MaxLength        \* bound on the vector's length

ASSUME IdsAssumption ==
    /\ Invalid \notin Ids
    /\ Ranges \subseteq Seq(Ids \cup {Invalid})
    /\ UnqueueConsumed \in BOOLEAN
    /\ MaxLength \in Nat

Strategies == {"discard", "duplicate", "replace"}
Positions  == {"at_front", "at_back"}

VARIABLES
    queued_ids,    \* event::queued_ids
    next_id_index, \* event::next_id_index
    call,          \* the arguments of queue_as while it runs, or Idle
    prepared,      \* the result of prepare_append_queue for each id so far
    add_ids,       \* the ids that queue_as is going to insert
    last,          \* what the last call returned
    before         \* history: the pending ids when queue_as was called

vars == <<queued_ids, next_id_index, call, prepared, add_ids, last, before>>

Idle == [ids |-> <<>>, strategy |-> "none", position |-> "none"]

\* The ids not yet popped.
Pending == SubSeq(queued_ids, next_id_index + 1, Len(queued_ids))

\* The event is created queued as its original id.
Init ==
    /\ \E id \in Ids : queued_ids = <<id>>
    /\ next_id_index = 0
    /\ call = Idle
    /\ prepared = <<>>
    /\ add_ids = <<>>
    /\ last = <<"created">>
    /\ before = <<>>

----------------------------------------------------------------------------
\* Past the end of the vector, where an unqueue() of popped ids can leave
\* next_id_index, the search from begin() + next_id_index is undefined: the
\* model does not go on from there.
BeginQueueAs(ids, strategy, position) ==
    /\ call = Idle
    /\ next_id_index <= Len(queued_ids)
    /\ Len(queued_ids) + Len(ids) <= MaxLength
    /\ call' = [ids |-> ids, strategy |-> strategy, position |-> position]
    /\ before' = Pending
    /\ UNCHANGED <<queued_ids, next_id_index, prepared, add_ids, last>>

\* The id that prepare_append_queue looks at.
NewId == call.ids[Len(prepared) + 1]

IsPending(id) ==
    \E i \in (next_id_index + 1)..Len(queued_ids) : queued_ids[i] = id

\* The cases of prepare_append_queue.
RejectInvalid ==
    /\ NewId = Invalid
    /\ prepared' = Append(prepared, "invalid")
    /\ UNCHANGED <<queued_ids, add_ids>>

Discard ==
    /\ NewId # Invalid
    /\ call.strategy = "discard"
    /\ IsPending(NewId)
    /\ prepared' = Append(prepared, "discarded")
    /\ UNCHANGED <<queued_ids, add_ids>>

Replace ==
    /\ NewId # Invalid
    /\ call.strategy = "replace"
    /\ IsPending(NewId)
    /\ queued_ids' = SubSeq(queued_ids, 1, next_id_index) \o Without(Pending, {NewId})
    /\ add_ids' = Append(add_ids, NewId)
    /\ prepared' = Append(prepared, "replaced")

Accept ==
    /\ NewId # Invalid
    /\ call.strategy = "duplicate" \/ ~IsPending(NewId)
    /\ add_ids' = Append(add_ids, NewId)
    /\ prepared' = Append(prepared, "queued")
    /\ UNCHANGED queued_ids

PrepareAppendQueue ==
    /\ call # Idle
    /\ Len(prepared) < Len(call.ids)
    /\ RejectInvalid \/ Discard \/ Replace \/ Accept
    /\ UNCHANGED <<next_id_index, call, last, before>>

\* Variant: the index is not moved back over the slots that are reused.
AppendAtFrontKeepingIndex ==
    /\ call.position = "at_front"
    /\ queued_ids' = IF Len(add_ids) <= next_id_index
                     THEN SubSeq(queued_ids, 1, next_id_index - Len(add_ids))
                              \o add_ids \o Pending
                     ELSE add_ids \o Pending
    /\ UNCHANGED next_id_index

\* Insert at the front: over popped ids if they leave enough room, else into a
\* new vector.
AppendAtFront ==
    /\ call.position = "at_front"
    /\ \/ /\ Len(add_ids) <= next_id_index
          /\ queued_ids' = SubSeq(queued_ids, 1, next_id_index - Len(add_ids))
                               \o add_ids \o Pending
          /\ next_id_index' = next_id_index - Len(add_ids)
       \/ /\ Len(add_ids) > next_id_index
          /\ queued_ids' = add_ids \o Pending
          /\ next_id_index' = 0

\* Variant: reorganising drops the popped ids but keeps the index.
AppendAtBackKeepingIndex ==
    /\ call.position = "at_back"
    /\ \/ queued_ids' = queued_ids \o add_ids
       \/ next_id_index > 0 /\ queued_ids' = Pending \o add_ids
    /\ UNCHANGED next_id_index

\* Insert at the back; the popped ids are dropped first if the capacity of the
\* vector, which is up to the library, is too small.
AppendAtBack ==
    /\ call.position = "at_back"
    /\ \/ /\ queued_ids' = queued_ids \o add_ids
          /\ UNCHANGED next_id_index
       \/ /\ add_ids # <<>>
          /\ next_id_index > 0
          /\ queued_ids' = Pending \o add_ids
          /\ next_id_index' = 0

\* append_to_queue_unchecked, and queue_as returns.
AppendToQueue ==
    /\ call # Idle
    /\ Len(prepared) = Len(call.ids)
    /\ AppendAtFront \/ AppendAtBack
    /\ last' = <<"queue_as", prepared>>
    /\ call' = Idle
    /\ prepared' = <<>>
    /\ add_ids' = <<>>
    /\ before' = <<>>

PoppedIds == {queued_ids[i] : i \in 1..next_id_index \cap DOMAIN queued_ids}

\* unqueue(id) is S = {id}, unqueue(matcher) any S.  The code searches the
\* whole vector and leaves next_id_index alone.
Unqueue(S) ==
    /\ call = Idle
    /\ UnqueueConsumed \/ PoppedIds \cap S = {}
    /\ queued_ids' = Without(queued_ids, S)
    /\ last' = <<"unqueue", \E i \in DOMAIN queued_ids : queued_ids[i] \in S>>
    /\ UNCHANGED <<next_id_index, call, prepared, add_ids, before>>

\* pop_next_queued_id
Pop ==
    /\ call = Idle
    /\ \/ /\ next_id_index < Len(queued_ids)
          /\ last' = <<"pop", queued_ids[next_id_index + 1]>>
          /\ next_id_index' = next_id_index + 1
       \/ /\ next_id_index >= Len(queued_ids)
          /\ last' = <<"pop", Invalid>>
          /\ UNCHANGED next_id_index
    /\ UNCHANGED <<queued_ids, call, prepared, add_ids, before>>

Next ==
    \/ \E ids \in Ranges, strategy \in Strategies, position \in Positions :
           BeginQueueAs(ids, strategy, position)
    \/ PrepareAppendQueue
    \/ AppendToQueue
    \/ \E S \in SUBSET Ids : Unqueue(S)
    \/ Pop

Spec == Init /\ [][Next]_vars

----------------------------------------------------------------------------
(* Properties                                                              *)

\* next_id_index never passes the end of the vector: queued_ids.begin() +
\* next_id_index, where is_queued_as, queue_as and replace start to search, is
\* a valid position.
IndexInBounds == next_id_index <= Len(queued_ids)

\* unqueue() removes exactly the ids it was asked to remove from those still
\* queued (event.hpp:660), whatever has been popped before.
UnqueueRemovesMatching ==
    [][\A S \in SUBSET Ids :
           Unqueue(S) => Pending' = Without(Pending, S)]_vars

\* The queue of ids the comments in event.hpp describe, except that one invalid
\* id is answered with invalid and not with the exception of event.hpp:481; a
\* range takes effect when queue_as returns.
Api == INSTANCE EventIdsAbs WITH
    pending <- IF call = Idle THEN Pending ELSE before

ApiSpec == Api!Spec
=============================================================================
