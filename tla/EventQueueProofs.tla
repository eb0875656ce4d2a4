-------------------------- MODULE EventQueueProofs --------------------------
(***************************************************************************)
(* Proofs about EventQueue, for every set of calls and every batch.        *)
(***************************************************************************)
EXTENDS EventQueue, SequenceTheorems, TLAPS

----------------------------------------------------------------------------
(* The inductive invariant                                                 *)

\* queue_mutex is held exactly by the posting call inside try_unqueue().
LockHeld ==
    \A p \in Posters : pc[p] \in {"unqueue", "offer"} <=> queueLock = p

\* An offer is made to a wait, with an event at hand.
OfferInProgress ==
    \A p \in Posters : pc[p] = "offer" =>
        /\ queue # <<>>
        /\ queue_consumer_index # 0
        /\ OfferedTo \in Waiters

\* Only a wait past its second look, or a callback past its only look, is
\* among the consumers.
Registered ==
    \A i \in 1..Len(queue_consumers) :
        pc[queue_consumers[i]] \in {"registered", "waiting", "returning", "done"}

\* A call registers one consumer.
ConsumersDistinct ==
    \A i, j \in 1..Len(queue_consumers) :
        queue_consumers[i] = queue_consumers[j] => i = j

\* A callback that try_unqueue() has not reached has not been called.
CallbacksUncalled ==
    \A i \in (queue_consumer_index + 1)..Len(queue_consumers) :
        queue_consumers[i] \in Callbacks => pc[queue_consumers[i]] = "registered"

\* A wait that would accept an event through its consumer still runs.
AwaitsWhileAlive ==
    \A i \in 1..Len(queue_consumers) :
        queue_consumers[i] \in Waiters /\ awaits_event[queue_consumers[i]] =>
            pc[queue_consumers[i]] \in {"registered", "waiting"}

\* A wait has no event as long as it awaits one, and has one once a consumer
\* has cleared awaits_event.
EventIffAccepted ==
    \A w \in Waiters :
        /\ pc[w] \in {"start", "prepare", "recheck", "registered"} => ep[w] = None
        /\ pc[w] \in {"recheck", "registered"} => awaits_event[w]
        /\ pc[w] = "waiting" => (awaits_event[w] <=> ep[w] = None)

\* Only a timed wait comes back without an event.
OnlyTimedGivesUp ==
    \A w \in Waits : pc[w] \in {"returning", "done"} => ep[w] # None

\* A wait that is over has returned its local, a callback that was not called
\* has accepted nothing.
ReturnedIsEp ==
    /\ \A w \in Waiters : pc[w] = "done" => returned[w] = ep[w]
    /\ \A c \in Callbacks : pc[c] # "done" => returned[c] = None

IInv ==
    /\ TypeOK
    /\ LockHeld
    /\ OfferInProgress
    /\ Registered
    /\ ConsumersDistinct
    /\ CallbacksUncalled
    /\ NoIdleConsumer
    /\ AwaitsWhileAlive
    /\ EventIffAccepted
    /\ OnlyTimedGivesUp
    /\ ReturnedIsEp

----------------------------------------------------------------------------
(* Facts about the constants                                               *)

LEMMA CallsDisjoint ==
    /\ \A p \in Posters : p \notin Takers /\ p # None
    /\ \A w \in Waiters : w \notin Callbacks /\ w \notin Posters
    /\ \A e \in Events : e # None
  BY CallsAssumption DEF Calls, Takers, Posters

LEMMA BatchType == \A h \in Finishers : Batch[h] \in Seq(Events)
<1>1. SUFFICES ASSUME NEW h \in Finishers PROVE Batch[h] \in Seq(Events)
  OBVIOUS
<1>2. Batch[h] \in Seq(Range(Batch[h]))
  BY BatchAssumption
<1>3. Range(Batch[h]) \subseteq Events
  BY DEF Events
<1>4. QED
  BY <1>2, <1>3

THEOREM InitIInv == Init => IInv
  BY CallsAssumption DEF Init, IInv, TypeOK, LockHeld, OfferInProgress,
     Registered,
     ConsumersDistinct, CallbacksUncalled, NoIdleConsumer, AwaitsWhileAlive,
     EventIffAccepted, OnlyTimedGivesUp, ReturnedIsEp, Posters, Waiters, Takers,
     Calls, PosterStates, WaiterStates, CallbackStates, Uncalled

LEMMA HeadTailEvents ==
    ASSUME NEW s \in Seq(Events), s # <<>>
    PROVE  Head(s) \in Events /\ Tail(s) \in Seq(Events)
  BY HeadTailProperties

----------------------------------------------------------------------------
(* Registering a consumer, from a wait or from wait_event(callback)        *)

Register(c) ==
    /\ pc[c] \in {"start", "recheck"}
    /\ queue_consumers' = Append(queue_consumers, c)
    /\ pc' = [pc EXCEPT ![c] = "registered"]
    /\ UNCHANGED <<queue_consumer_index, awaits_event>>

LEMMA RegisterKeepsConsumers ==
    ASSUME IInv, NEW c \in Takers, Register(c)
    PROVE  /\ queue_consumers' \in Seq(Takers)
           /\ queue_consumer_index' \in 0..Len(queue_consumers')
           /\ Registered'
           /\ ConsumersDistinct'
           /\ CallbacksUncalled'
           /\ AwaitsWhileAlive'
<1> USE DEF IInv, TypeOK
<1>1. /\ queue_consumers' \in Seq(Takers)
      /\ Len(queue_consumers') = Len(queue_consumers) + 1
      /\ \A i \in 1..Len(queue_consumers) : queue_consumers'[i] = queue_consumers[i]
      /\ queue_consumers'[Len(queue_consumers) + 1] = c
  BY AppendProperties DEF Register
<1>2. \A i \in 1..Len(queue_consumers) :
          queue_consumers[i] # c /\ queue_consumers[i] \in Takers
  <2>1. pc[c] \notin {"registered", "waiting", "returning", "done"}
    BY DEF Register
  <2>2. QED
    BY <2>1 DEF Registered
<1>3. \A d \in Calls : d # c => pc'[d] = pc[d]
  BY DEF Register
<1>4. pc'[c] = "registered"
  BY DEF Register, Calls
<1>5. Len(queue_consumers) \in Nat /\ queue_consumer_index' = queue_consumer_index
  BY DEF Register
<1>6. queue_consumer_index' \in 0..Len(queue_consumers')
  BY <1>1, <1>5
<1>7. Registered'
  BY <1>1, <1>2, <1>3, <1>4, <1>5 DEF Registered, Calls
<1>8. ConsumersDistinct'
  <2>1. SUFFICES ASSUME NEW i \in 1..Len(queue_consumers'), NEW j \in 1..Len(queue_consumers'),
                        queue_consumers'[i] = queue_consumers'[j]
                 PROVE  i = j
    BY DEF ConsumersDistinct
  <2>2. CASE i # Len(queue_consumers) + 1 /\ j # Len(queue_consumers) + 1
    <3>1. i \in 1..Len(queue_consumers) /\ j \in 1..Len(queue_consumers)
      BY ONLY <1>1, <1>5, <2>2
    <3>2. queue_consumers[i] = queue_consumers[j]
      BY ONLY <1>1, <2>1, <3>1
    <3>3. ConsumersDistinct
      OBVIOUS
    <3>4. QED
      BY ONLY <3>1, <3>2, <3>3 DEF ConsumersDistinct
  <2>3. CASE i = Len(queue_consumers) + 1 \/ j = Len(queue_consumers) + 1
    BY ONLY <1>1, <1>2, <1>5, <2>1, <2>3
  <2>4. QED
    BY ONLY <2>2, <2>3
<1>9. CallbacksUncalled'
  BY <1>1, <1>2, <1>3, <1>4, <1>5 DEF CallbacksUncalled, Calls
<1>10. AwaitsWhileAlive'
  BY <1>1, <1>2, <1>3, <1>4, <1>5 DEF AwaitsWhileAlive, Calls, Register
<1>11. QED
  BY <1>1, <1>6, <1>7, <1>8, <1>9, <1>10

\* A call that leaves without registering is not among the consumers.
Leave(c) ==
    /\ pc[c] \in {"start", "recheck"}
    /\ \E s \in {"returning", "done"} : pc' = [pc EXCEPT ![c] = s]
    /\ UNCHANGED <<queue_consumers, queue_consumer_index, awaits_event>>

LEMMA LeaveKeepsConsumers ==
    ASSUME IInv, NEW c \in Takers, Leave(c)
    PROVE  Registered' /\ ConsumersDistinct' /\ CallbacksUncalled' /\ AwaitsWhileAlive'
<1> USE DEF IInv, TypeOK
<1>1. \A i \in 1..Len(queue_consumers) :
          queue_consumers[i] # c /\ queue_consumers[i] \in Calls
  BY DEF Leave, Registered, Calls
<1>2. \A d \in Calls : d # c => pc'[d] = pc[d]
  BY DEF Leave
<1>3. Registered'
  BY <1>1, <1>2 DEF Registered, Leave
<1>4. ConsumersDistinct'
  BY DEF ConsumersDistinct, Leave
<1>5. CallbacksUncalled'
  BY <1>1, <1>2 DEF CallbacksUncalled, Leave
<1>6. AwaitsWhileAlive'
  BY <1>1, <1>2 DEF AwaitsWhileAlive, Leave
<1>7. QED
  BY <1>3, <1>4, <1>5, <1>6

----------------------------------------------------------------------------
(* The steps                                                               *)

LEMMA PostStep ==
    ASSUME IInv, NEW p \in Posts, Post(p) PROVE IInv'
<1> USE CallsAssumption, CallsDisjoint DEF IInv, TypeOK, Calls, Takers, Waiters,
        Posters, PosterStates, WaiterStates, CallbackStates
<1>1. TypeOK'
  BY DEF Post, Events
<1>2. LockHeld' /\ OfferInProgress'
  BY DEF Post, LockHeld, OfferInProgress, OfferedTo
<1>3. Registered' /\ ConsumersDistinct' /\ CallbacksUncalled' /\ AwaitsWhileAlive'
  BY DEF Post, Registered, OfferInProgress, ConsumersDistinct,
     CallbacksUncalled, AwaitsWhileAlive
<1>4. NoIdleConsumer'
  BY DEF Post, NoIdleConsumer, LockHeld, Uncalled
<1>5. EventIffAccepted' /\ OnlyTimedGivesUp' /\ ReturnedIsEp'
  BY DEF Post, EventIffAccepted, OfferInProgress, AwaitsWhileAlive, Registered,
     OnlyTimedGivesUp, ReturnedIsEp, CallbacksUncalled
<1>6. QED
  BY ONLY <1>1, <1>2, <1>3, <1>4, <1>5 DEF IInv

LEMMA FinishHandlingStep ==
    ASSUME IInv, NEW h \in Finishers, FinishHandling(h) PROVE IInv'
<1> USE CallsAssumption, CallsDisjoint DEF IInv, TypeOK, Calls, Takers, Waiters,
        Posters, PosterStates, WaiterStates, CallbackStates
<1>1. TypeOK'
  BY BatchType DEF FinishHandling
<1>2. LockHeld' /\ OfferInProgress'
  BY DEF FinishHandling, LockHeld, OfferInProgress, OfferedTo
<1>3. Registered' /\ ConsumersDistinct' /\ CallbacksUncalled' /\ AwaitsWhileAlive'
  BY DEF FinishHandling, Registered, OfferInProgress, ConsumersDistinct,
     CallbacksUncalled, AwaitsWhileAlive
<1>4. NoIdleConsumer'
  BY DEF FinishHandling, NoIdleConsumer, LockHeld, Uncalled
<1>5. EventIffAccepted' /\ OnlyTimedGivesUp' /\ ReturnedIsEp'
  BY DEF FinishHandling, EventIffAccepted, OfferInProgress, AwaitsWhileAlive,
     Registered, OnlyTimedGivesUp, ReturnedIsEp, CallbacksUncalled
<1>6. QED
  BY ONLY <1>1, <1>2, <1>3, <1>4, <1>5 DEF IInv

LEMMA CallCallbackStep ==
    ASSUME IInv, NEW p \in Posters, CallCallback(p) PROVE IInv'
<1> USE CallsAssumption, CallsDisjoint DEF IInv, TypeOK, Calls, Takers, Waiters,
        Posters, PosterStates, WaiterStates, CallbackStates
<1>1. TypeOK'
  <2>1. Head(queue) \in Events /\ Tail(queue) \in Seq(Events)
    BY HeadTailEvents DEF CallCallback, MoreToOffer
  <2>2. queue' \in Seq(Events)
    BY <2>1 DEF CallCallback
  <2>3. returned' \in [Takers -> Events \cup {None}]
    <3>1. NextConsumer \in Takers
      BY DEF CallCallback
    <3>2. QED
      BY <2>1, <3>1 DEF CallCallback
  <2>4. queue_consumer_index' \in 0..Len(queue_consumers')
    BY DEF CallCallback, MoreToOffer
  <2>5. QED
    BY <2>2, <2>3, <2>4 DEF CallCallback
<1>2. LockHeld' /\ OfferInProgress'
  BY DEF CallCallback, MoreToOffer, NextConsumer, LockHeld, OfferInProgress,
     OfferedTo
<1>3. Registered' /\ ConsumersDistinct' /\ CallbacksUncalled' /\ AwaitsWhileAlive'
  BY DEF CallCallback, MoreToOffer, NextConsumer, Registered, OfferInProgress,
     ConsumersDistinct, CallbacksUncalled, AwaitsWhileAlive
<1>4. NoIdleConsumer'
  BY DEF CallCallback, MoreToOffer, NextConsumer, NoIdleConsumer, LockHeld,
     Uncalled
<1>5. EventIffAccepted' /\ OnlyTimedGivesUp' /\ ReturnedIsEp'
  BY DEF CallCallback, MoreToOffer, NextConsumer, EventIffAccepted,
     OfferInProgress, AwaitsWhileAlive, Registered, OnlyTimedGivesUp,
     ReturnedIsEp, CallbacksUncalled
<1>6. QED
  BY ONLY <1>1, <1>2, <1>3, <1>4, <1>5 DEF IInv

LEMMA SkipExpiredStep ==
    ASSUME IInv, NEW p \in Posters, SkipExpired(p) PROVE IInv'
<1> USE CallsAssumption, CallsDisjoint DEF IInv, TypeOK, Calls, Takers, Waiters,
        Posters, PosterStates, WaiterStates, CallbackStates
<1>1. TypeOK'
  BY DEF SkipExpired, MoreToOffer, NextConsumer
<1>2. LockHeld' /\ OfferInProgress'
  BY DEF SkipExpired, MoreToOffer, NextConsumer, LockHeld, OfferInProgress,
     OfferedTo
<1>3. Registered' /\ ConsumersDistinct' /\ CallbacksUncalled' /\ AwaitsWhileAlive'
  BY DEF SkipExpired, MoreToOffer, NextConsumer, Registered, OfferInProgress,
     ConsumersDistinct, CallbacksUncalled, AwaitsWhileAlive
<1>4. NoIdleConsumer'
  BY DEF SkipExpired, MoreToOffer, NextConsumer, NoIdleConsumer, LockHeld,
     Uncalled
<1>5. EventIffAccepted' /\ OnlyTimedGivesUp' /\ ReturnedIsEp'
  BY DEF SkipExpired, MoreToOffer, NextConsumer, EventIffAccepted,
     OfferInProgress, AwaitsWhileAlive, Registered, OnlyTimedGivesUp,
     ReturnedIsEp, CallbacksUncalled
<1>6. QED
  BY ONLY <1>1, <1>2, <1>3, <1>4, <1>5 DEF IInv

LEMMA LockDataStep ==
    ASSUME IInv, NEW p \in Posters, LockData(p) PROVE IInv'
<1> USE CallsAssumption, CallsDisjoint DEF IInv, TypeOK, Calls, Takers, Waiters,
        Posters, PosterStates, WaiterStates, CallbackStates
<1>1. TypeOK'
  BY DEF LockData, MoreToOffer, NextConsumer
<1>2. LockHeld' /\ OfferInProgress'
  BY DEF LockData, MoreToOffer, NextConsumer, LockHeld, OfferInProgress,
     OfferedTo
<1>3. Registered' /\ ConsumersDistinct' /\ CallbacksUncalled' /\ AwaitsWhileAlive'
  BY DEF LockData, MoreToOffer, NextConsumer, Registered, OfferInProgress,
     ConsumersDistinct, CallbacksUncalled, AwaitsWhileAlive
<1>4. NoIdleConsumer'
  BY DEF LockData, MoreToOffer, NextConsumer, NoIdleConsumer, LockHeld, Uncalled
<1>5. EventIffAccepted' /\ OnlyTimedGivesUp' /\ ReturnedIsEp'
  BY DEF LockData, MoreToOffer, NextConsumer, EventIffAccepted, OfferInProgress,
     AwaitsWhileAlive, Registered, OnlyTimedGivesUp, ReturnedIsEp,
     CallbacksUncalled
<1>6. QED
  BY ONLY <1>1, <1>2, <1>3, <1>4, <1>5 DEF IInv

LEMMA OfferStep ==
    ASSUME IInv, NEW p \in Posters, Offer(p) PROVE IInv'
<1> USE CallsAssumption, CallsDisjoint DEF IInv, TypeOK, Calls, Takers, Waiters,
        Posters, PosterStates, WaiterStates, CallbackStates
<1>1. TypeOK'
  <2>1. Head(queue) \in Events /\ Tail(queue) \in Seq(Events)
    BY HeadTailEvents DEF Offer, OfferInProgress
  <2>2. queue' \in Seq(Events)
    BY <2>1 DEF Offer
  <2>3. ep' \in [Waiters -> Events \cup {None}]
    BY <2>1 DEF Offer
  <2>4. notified' \in SUBSET Waiters /\ awaits_event' \in [Waiters -> BOOLEAN]
    BY DEF Offer, OfferInProgress
  <2>5. QED
    BY <2>2, <2>3, <2>4 DEF Offer
<1>2. LockHeld' /\ OfferInProgress'
  BY DEF Offer, HoldsData, LockHeld, OfferInProgress, OfferedTo
<1>3. AwaitsWhileAlive'
  <2>1. \A d \in Takers : pc'[d] = pc[d]
    BY DEF Offer
  <2>2. \A w \in Waiters : awaits_event'[w] => awaits_event[w]
    BY DEF Offer
  <2>3. QED
    BY <2>1, <2>2 DEF Offer, AwaitsWhileAlive
<1>4. Registered' /\ ConsumersDistinct' /\ CallbacksUncalled'
  BY DEF Offer, HoldsData, Registered, OfferInProgress, ConsumersDistinct,
     CallbacksUncalled, OfferedTo
<1>5. NoIdleConsumer'
  BY DEF Offer, HoldsData, NoIdleConsumer, LockHeld, OfferedTo, OfferInProgress,
     Uncalled
<1>6. EventIffAccepted'
  <2>1. CASE awaits_event[OfferedTo]
    <3>1. pc[OfferedTo] = "waiting" /\ OfferedTo \in Waiters
      BY <2>1 DEF Offer, HoldsData, OfferInProgress, AwaitsWhileAlive, OfferedTo
    <3>2. Head(queue) # None
      BY HeadTailEvents DEF Offer, OfferInProgress
    <3>3. \A d \in Takers : pc'[d] = pc[d]
      BY DEF Offer
    <3>4. QED
      BY <2>1, <3>1, <3>2, <3>3 DEF Offer, EventIffAccepted
  <2>2. CASE ~awaits_event[OfferedTo]
    BY <2>2 DEF Offer, EventIffAccepted
  <2>3. QED
    BY <2>1, <2>2
<1>7. OnlyTimedGivesUp' /\ ReturnedIsEp'
  BY DEF Offer, HoldsData, OnlyTimedGivesUp, OfferInProgress, AwaitsWhileAlive,
     EventIffAccepted, ReturnedIsEp, CallbacksUncalled, OfferedTo
<1>8. QED
  BY ONLY <1>1, <1>2, <1>3, <1>4, <1>5, <1>6, <1>7 DEF IInv

LEMMA EndUnqueueStep ==
    ASSUME IInv, NEW p \in Posters, EndUnqueue(p) PROVE IInv'
<1> USE CallsAssumption, CallsDisjoint DEF IInv, TypeOK, Calls, Takers, Waiters,
        Posters, PosterStates, WaiterStates, CallbackStates
<1>1. TypeOK'
  <2>1. queue_consumers' \in Seq(Takers)
    <3>1. queue_consumers' = <<>> \/ queue_consumers' = queue_consumers
      BY DEF EndUnqueue
    <3>2. CASE queue_consumers' = <<>>
      BY <3>2, EmptySeq
    <3>3. CASE queue_consumers' = queue_consumers
      BY <3>3
    <3>4. QED
      BY <3>1, <3>2, <3>3
  <2>2. queue_consumer_index' \in 0..Len(queue_consumers')
    BY DEF EndUnqueue
  <2>3. QED
    BY <2>1, <2>2 DEF EndUnqueue
<1>2. LockHeld' /\ OfferInProgress'
  BY DEF EndUnqueue, MoreToOffer, LockHeld, OfferInProgress, OfferedTo
<1>3. Registered' /\ ConsumersDistinct' /\ CallbacksUncalled' /\ AwaitsWhileAlive'
  BY DEF EndUnqueue, MoreToOffer, Registered, OfferInProgress,
     ConsumersDistinct, CallbacksUncalled, AwaitsWhileAlive
<1>4. NoIdleConsumer'
  BY DEF EndUnqueue, MoreToOffer, NoIdleConsumer, LockHeld, Uncalled
<1>5. EventIffAccepted' /\ OnlyTimedGivesUp' /\ ReturnedIsEp'
  BY DEF EndUnqueue, MoreToOffer, EventIffAccepted, OfferInProgress,
     AwaitsWhileAlive, Registered, OnlyTimedGivesUp, ReturnedIsEp,
     CallbacksUncalled
<1>6. QED
  BY ONLY <1>1, <1>2, <1>3, <1>4, <1>5 DEF IInv

LEMMA CheckStep ==
    ASSUME IInv, NEW w \in Waiters, Check(w) PROVE IInv'
<1> USE CallsAssumption, CallsDisjoint DEF IInv, TypeOK, Calls, Takers, Waiters,
        Posters, PosterStates, WaiterStates, CallbackStates
<1>1. TypeOK'
  <2>1. CASE TakeFront(w)
    <3>1. Head(queue) \in Events /\ Tail(queue) \in Seq(Events)
      BY <2>1, HeadTailEvents DEF TakeFront
    <3>2. QED
      BY <2>1, <3>1 DEF Check, TakeFront
  <2>2. CASE ~TakeFront(w)
    <3>1. /\ pc' = [pc EXCEPT ![w] = "prepare"]
          /\ UNCHANGED <<queueLock, queue, queue_consumers, queue_consumer_index,
                         awaits_event, ep, notified, returned>>
      BY <2>2 DEF Check
    <3>2. /\ pc' \in [Calls -> PosterStates \cup WaiterStates]
          /\ \A p \in Posters : pc'[p] \in PosterStates
          /\ \A v \in Waiters : pc'[v] \in WaiterStates
          /\ \A c \in Callbacks : pc'[c] \in CallbackStates
      BY <3>1
    <3>3. QED
      BY ONLY IInv, <3>1, <3>2 DEF IInv, TypeOK
  <2>3. QED
    BY <2>1, <2>2
<1>2. LockHeld' /\ OfferInProgress'
  BY DEF Check, TakeFront, LockHeld, OfferInProgress, OfferedTo
<1>3. Registered' /\ ConsumersDistinct' /\ CallbacksUncalled' /\ AwaitsWhileAlive'
  <2>1. Registered' /\ ConsumersDistinct'
    BY DEF Check, TakeFront, Registered, ConsumersDistinct
  <2>2. CallbacksUncalled'
    BY DEF Check, TakeFront, CallbacksUncalled, Registered
  <2>3. AwaitsWhileAlive'
    BY DEF Check, TakeFront, AwaitsWhileAlive, Registered
  <2>4. QED
    BY ONLY <2>1, <2>2, <2>3
<1>4. NoIdleConsumer'
  <2>1. Uncalled' = Uncalled
    BY DEF Check, TakeFront, Uncalled
  <2>2. QED
    BY <2>1 DEF Check, TakeFront, NoIdleConsumer, LockHeld
<1>5. EventIffAccepted' /\ OnlyTimedGivesUp' /\ ReturnedIsEp'
  BY DEF Check, TakeFront, EventIffAccepted, OfferInProgress, AwaitsWhileAlive,
     Registered, OnlyTimedGivesUp, ReturnedIsEp, CallbacksUncalled
<1>6. QED
  BY ONLY <1>1, <1>2, <1>3, <1>4, <1>5 DEF IInv

LEMMA PrepareStep ==
    ASSUME IInv, NEW w \in Waiters, Prepare(w) PROVE IInv'
<1> USE CallsAssumption, CallsDisjoint DEF IInv, TypeOK, Calls, Takers, Waiters,
        Posters, PosterStates, WaiterStates, CallbackStates
<1>1. TypeOK'
  BY DEF Prepare
<1>2. LockHeld' /\ OfferInProgress'
  BY DEF Prepare, LockHeld, OfferInProgress, OfferedTo
<1>3. Registered' /\ ConsumersDistinct' /\ CallbacksUncalled' /\ AwaitsWhileAlive'
  BY DEF Prepare, Registered, OfferInProgress, ConsumersDistinct,
     CallbacksUncalled, AwaitsWhileAlive
<1>4. NoIdleConsumer'
  <2>1. Uncalled' = Uncalled
    BY DEF Prepare, Uncalled
  <2>2. QED
    BY <2>1 DEF Prepare, NoIdleConsumer, LockHeld
<1>5. EventIffAccepted' /\ OnlyTimedGivesUp' /\ ReturnedIsEp'
  BY DEF Prepare, EventIffAccepted, OfferInProgress, AwaitsWhileAlive,
     Registered, OnlyTimedGivesUp, ReturnedIsEp, CallbacksUncalled
<1>6. QED
  BY ONLY <1>1, <1>2, <1>3, <1>4, <1>5 DEF IInv

LEMMA RecheckStep ==
    ASSUME IInv, NEW w \in Waiters, Recheck(w) PROVE IInv'
<1> USE CallsAssumption, CallsDisjoint DEF IInv, TypeOK, Calls, Takers, Waiters,
        Posters, PosterStates, WaiterStates, CallbackStates
<1>1. TypeOK'
  <2>1. CASE TakeFront(w)
    <3>1. Head(queue) \in Events /\ Tail(queue) \in Seq(Events)
      BY <2>1, HeadTailEvents DEF TakeFront
    <3>2. QED
      BY <2>1, <3>1 DEF Recheck, TakeFront
  <2>2. CASE queue = <<>>
    <3>1. Register(w)
      BY <2>2 DEF Recheck, TakeFront, Register
    <3>2. QED
      BY ONLY <2>2, <3>1, RegisterKeepsConsumers, IInv, Recheck(w), w \in Waiters
         DEF Recheck, TakeFront, IInv, TypeOK, Calls, Takers, Waiters,
            WaiterStates
  <2>3. QED
    BY <2>1, <2>2 DEF Recheck, TakeFront
<1>2. LockHeld' /\ OfferInProgress'
  BY DEF Recheck, TakeFront, LockHeld, OfferInProgress, OfferedTo
<1>3. Registered' /\ ConsumersDistinct' /\ CallbacksUncalled' /\ AwaitsWhileAlive'
  BY RegisterKeepsConsumers, LeaveKeepsConsumers DEF Recheck, TakeFront,
     Register, Leave
<1>4. NoIdleConsumer'
  <2>1. CASE queue # <<>>
    <3>1. Uncalled' = Uncalled
      BY <2>1 DEF Recheck, TakeFront, Uncalled
    <3>2. QED
      BY <2>1, <3>1 DEF Recheck, TakeFront, NoIdleConsumer
  <2>2. CASE queue = <<>>
    BY <2>2 DEF Recheck, TakeFront, NoIdleConsumer
  <2>3. QED
    BY <2>1, <2>2
<1>5. EventIffAccepted' /\ OnlyTimedGivesUp' /\ ReturnedIsEp'
  <2>1. EventIffAccepted'
    <3>1. /\ \A v \in Waiters : v # w => pc'[v] = pc[v] /\ ep'[v] = ep[v]
          /\ pc[w] = "recheck" /\ awaits_event' = awaits_event
          /\ \/ pc'[w] = "returning"
             \/ pc'[w] = "registered" /\ ep'[w] = ep[w]
      BY DEF Recheck, TakeFront
    <3>2. EventIffAccepted
      OBVIOUS
    <3>3. QED
      BY ONLY <3>1, <3>2, w \in Waiters DEF EventIffAccepted
  <2>2. OnlyTimedGivesUp'
    <3>1. queue # <<>> => Head(queue) # None
      BY HeadTailEvents
    <3>2. QED
      BY <3>1 DEF Recheck, TakeFront, OnlyTimedGivesUp
  <2>3. ReturnedIsEp'
    BY DEF Recheck, TakeFront, ReturnedIsEp
  <2>4. QED
    BY ONLY <2>1, <2>2, <2>3
<1>6. QED
  BY ONLY <1>1, <1>2, <1>3, <1>4, <1>5 DEF IInv

LEMMA BlockStep ==
    ASSUME IInv, NEW w \in Waiters, Block(w) PROVE IInv'
<1> USE CallsAssumption, CallsDisjoint DEF IInv, TypeOK, Calls, Takers, Waiters,
        Posters, PosterStates, WaiterStates, CallbackStates
<1>1. TypeOK'
  BY DEF Block
<1>2. LockHeld' /\ OfferInProgress'
  BY DEF Block, LockHeld, OfferInProgress, OfferedTo
<1>3. Registered' /\ ConsumersDistinct' /\ CallbacksUncalled' /\ AwaitsWhileAlive'
  BY DEF Block, Registered, OfferInProgress, ConsumersDistinct,
     CallbacksUncalled, AwaitsWhileAlive
<1>4. NoIdleConsumer'
  <2>1. Uncalled' = Uncalled
    BY DEF Block, Uncalled
  <2>2. QED
    BY <2>1 DEF Block, NoIdleConsumer, LockHeld
<1>5. EventIffAccepted' /\ OnlyTimedGivesUp' /\ ReturnedIsEp'
  BY DEF Block, EventIffAccepted, OfferInProgress, AwaitsWhileAlive, Registered,
     OnlyTimedGivesUp, ReturnedIsEp, CallbacksUncalled
<1>6. QED
  BY ONLY <1>1, <1>2, <1>3, <1>4, <1>5 DEF IInv

LEMMA WakeStep ==
    ASSUME IInv, NEW w \in Waiters, Wake(w) PROVE IInv'
<1> USE CallsAssumption, CallsDisjoint DEF IInv, TypeOK, Calls, Takers, Waiters,
        Posters, PosterStates, WaiterStates, CallbackStates
<1>1. TypeOK'
  BY DEF Wake
<1>2. LockHeld' /\ OfferInProgress'
  BY DEF Wake, LockHeld, OfferInProgress, OfferedTo
<1>3. Registered' /\ ConsumersDistinct' /\ CallbacksUncalled' /\ AwaitsWhileAlive'
  BY DEF Wake, Registered, OfferInProgress, ConsumersDistinct,
     CallbacksUncalled, AwaitsWhileAlive
<1>4. NoIdleConsumer'
  <2>1. Uncalled' = Uncalled
    BY DEF Wake, Uncalled
  <2>2. QED
    BY <2>1 DEF Wake, NoIdleConsumer, LockHeld
<1>5. EventIffAccepted' /\ OnlyTimedGivesUp' /\ ReturnedIsEp'
  BY DEF Wake, EventIffAccepted, OfferInProgress, AwaitsWhileAlive, Registered,
     OnlyTimedGivesUp, ReturnedIsEp, CallbacksUncalled
<1>6. QED
  BY ONLY <1>1, <1>2, <1>3, <1>4, <1>5 DEF IInv

LEMMA TimeoutStep ==
    ASSUME IInv, NEW w \in TimedWaits, Timeout(w) PROVE IInv'
<1> USE CallsAssumption, CallsDisjoint DEF IInv, TypeOK, Calls, Takers, Waiters,
        Posters, PosterStates, WaiterStates, CallbackStates
<1>1. TypeOK'
  BY DEF Timeout
<1>2. LockHeld' /\ OfferInProgress'
  BY DEF Timeout, LockHeld, OfferInProgress, OfferedTo
<1>3. Registered' /\ ConsumersDistinct' /\ CallbacksUncalled' /\ AwaitsWhileAlive'
  BY DEF Timeout, Registered, OfferInProgress, ConsumersDistinct,
     CallbacksUncalled, AwaitsWhileAlive
<1>4. NoIdleConsumer'
  <2>1. Uncalled' = Uncalled
    BY DEF Timeout, Uncalled
  <2>2. QED
    BY <2>1 DEF Timeout, NoIdleConsumer, LockHeld
<1>5. EventIffAccepted' /\ OnlyTimedGivesUp' /\ ReturnedIsEp'
  BY DEF Timeout, EventIffAccepted, OfferInProgress, AwaitsWhileAlive,
     Registered, OnlyTimedGivesUp, ReturnedIsEp, CallbacksUncalled
<1>6. QED
  BY ONLY <1>1, <1>2, <1>3, <1>4, <1>5 DEF IInv

LEMMA ReturnStep ==
    ASSUME IInv, NEW w \in Waiters, Return(w) PROVE IInv'
<1> USE CallsAssumption, CallsDisjoint DEF IInv, TypeOK, Calls, Takers, Waiters,
        Posters, PosterStates, WaiterStates, CallbackStates
<1>1. TypeOK'
  BY DEF Return
<1>2. LockHeld' /\ OfferInProgress'
  BY DEF Return, LockHeld, OfferInProgress, OfferedTo
<1>3. Registered' /\ ConsumersDistinct' /\ CallbacksUncalled' /\ AwaitsWhileAlive'
  BY DEF Return, Registered, OfferInProgress, ConsumersDistinct,
     CallbacksUncalled, AwaitsWhileAlive
<1>4. NoIdleConsumer'
  <2>1. Uncalled' = Uncalled
    BY DEF Return, Uncalled
  <2>2. QED
    BY <2>1 DEF Return, NoIdleConsumer, LockHeld
<1>5. EventIffAccepted' /\ OnlyTimedGivesUp' /\ ReturnedIsEp'
  BY DEF Return, EventIffAccepted, OfferInProgress, AwaitsWhileAlive,
     Registered, OnlyTimedGivesUp, ReturnedIsEp, CallbacksUncalled
<1>6. QED
  BY ONLY <1>1, <1>2, <1>3, <1>4, <1>5 DEF IInv

LEMMA WaitCallbackStep ==
    ASSUME IInv, NEW c \in Callbacks, WaitCallback(c) PROVE IInv'
<1> USE CallsAssumption, CallsDisjoint DEF IInv, TypeOK, Calls, Takers, Waiters,
        Posters, PosterStates, WaiterStates, CallbackStates
<1>1. TypeOK'
  <2>1. CASE queue # <<>>
    <3>1. Head(queue) \in Events /\ Tail(queue) \in Seq(Events)
      BY <2>1, HeadTailEvents
    <3>2. queue' \in Seq(Events)
      BY <2>1, <3>1 DEF WaitCallback
    <3>3. returned' \in [Takers -> Events \cup {None}]
      BY <2>1, <3>1 DEF WaitCallback
    <3>4. QED
      BY <2>1, <3>2, <3>3 DEF WaitCallback
  <2>2. CASE queue = <<>>
    <3>1. Register(c)
      BY <2>2 DEF WaitCallback, Register
    <3>2. queue_consumers' \in Seq(Takers) /\ queue_consumer_index' \in 0..Len(queue_consumers')
      BY ONLY <3>1, RegisterKeepsConsumers, IInv, c \in Callbacks DEF Takers
    <3>3. QED
      BY <2>2, <3>2 DEF WaitCallback
  <2>3. QED
    BY <2>1, <2>2
<1>2. LockHeld' /\ OfferInProgress'
  BY DEF WaitCallback, LockHeld, OfferInProgress, OfferedTo
<1>3. Registered' /\ ConsumersDistinct' /\ CallbacksUncalled' /\ AwaitsWhileAlive'
  BY RegisterKeepsConsumers, LeaveKeepsConsumers DEF WaitCallback, Register,
     Leave
<1>4. NoIdleConsumer'
  <2>1. CASE queue # <<>>
    <3>1. Uncalled' = Uncalled
      BY <2>1 DEF WaitCallback, Uncalled
    <3>2. QED
      BY <2>1, <3>1 DEF WaitCallback, NoIdleConsumer
  <2>2. CASE queue = <<>>
    BY <2>2 DEF WaitCallback, NoIdleConsumer
  <2>3. QED
    BY <2>1, <2>2
<1>5. ReturnedIsEp'
  <2>1. \A w \in Waiters : pc'[w] = pc[w] /\ returned'[w] = returned[w] /\ ep' = ep
    BY DEF WaitCallback
  <2>2. \A d \in Callbacks : d # c => pc'[d] = pc[d] /\ returned'[d] = returned[d]
    BY DEF WaitCallback
  <2>3. pc[c] # "done" /\ (pc'[c] # "done" => returned'[c] = returned[c])
    BY DEF WaitCallback
  <2>4. ReturnedIsEp
    OBVIOUS
  <2>5. QED
    BY ONLY <2>1, <2>2, <2>3, <2>4 DEF ReturnedIsEp
<1>6. EventIffAccepted' /\ OnlyTimedGivesUp'
  BY DEF WaitCallback, EventIffAccepted, OfferInProgress, AwaitsWhileAlive,
     Registered, OnlyTimedGivesUp
<1>7. QED
  BY ONLY <1>1, <1>2, <1>3, <1>4, <1>5, <1>6 DEF IInv

\* Every step keeps the inductive invariant.
THEOREM NextIInv == IInv /\ [Next]_vars => IInv'
<1> SUFFICES ASSUME IInv, [Next]_vars PROVE IInv'
  OBVIOUS
<1>1. ASSUME NEW p \in Posts, Post(p) PROVE IInv'
  BY <1>1, PostStep
<1>2. ASSUME NEW h \in Finishers, FinishHandling(h) PROVE IInv'
  BY <1>2, FinishHandlingStep
<1>3. ASSUME NEW p \in Posters, PosterStep(p) PROVE IInv'
  BY <1>3, CallCallbackStep, SkipExpiredStep, LockDataStep, OfferStep,
     EndUnqueueStep DEF PosterStep
<1>4. ASSUME NEW w \in Waiters, Check(w) PROVE IInv'
  BY <1>4, CheckStep
<1>5. ASSUME NEW w \in Waiters, WaiterStep(w) PROVE IInv'
  BY <1>5, PrepareStep, RecheckStep, BlockStep, WakeStep, ReturnStep
     DEF WaiterStep
<1>6. ASSUME NEW w \in TimedWaits, Timeout(w) PROVE IInv'
  BY <1>6, TimeoutStep
<1>7. ASSUME NEW c \in Callbacks, WaitCallback(c) PROVE IInv'
  BY <1>7, WaitCallbackStep
<1>8. CASE UNCHANGED vars
  <2>1. TypeOK' /\ LockHeld' /\ OfferInProgress'
    BY <1>8 DEF vars, IInv, TypeOK, LockHeld, OfferInProgress, OfferedTo
  <2>2. Registered' /\ ConsumersDistinct' /\ CallbacksUncalled' /\ AwaitsWhileAlive'
    BY <1>8 DEF vars, IInv, Registered, ConsumersDistinct, CallbacksUncalled,
       AwaitsWhileAlive
  <2>3. NoIdleConsumer'
    BY <1>8 DEF vars, IInv, NoIdleConsumer, Uncalled
  <2>4. EventIffAccepted' /\ OnlyTimedGivesUp' /\ ReturnedIsEp'
    BY <1>8 DEF vars, IInv, EventIffAccepted, OnlyTimedGivesUp, ReturnedIsEp
  <2>5. QED
    BY <2>1, <2>2, <2>3, <2>4 DEF IInv
<1>9. QED
  BY <1>1, <1>2, <1>3, <1>4, <1>5, <1>6, <1>7, <1>8 DEF Next

THEOREM SpecIInv == Spec => []IInv
  BY InitIInv, NextIInv, PTL DEF Spec

----------------------------------------------------------------------------
(* What the invariant says                                                 *)

\* Type correctness.
THEOREM TypeCorrect == Spec => []TypeOK
<1>1. IInv => TypeOK
  BY DEF IInv
<1>2. QED
  BY <1>1, SpecIInv, PTL

\* The two mutexes of event_manager.cpp are never waited for in a circle: the
\* wait whose data->mutex a posting call wants is past its second look.
THEOREM NoLockCycle == Spec => []LockOrder
<1>1. IInv => LockOrder
  <2>1. SUFFICES ASSUME IInv, NEW p \in Posters, pc[p] = "offer"
                 PROVE  pc[OfferedTo] # "recheck"
    BY DEF LockOrder
  <2>2. queue_consumer_index \in 1..Len(queue_consumers)
    BY <2>1 DEF IInv, TypeOK, OfferInProgress
  <2>3. QED
    BY <2>1, <2>2 DEF IInv, Registered, OfferedTo
<1>2. QED
  BY <1>1, SpecIInv, PTL

\* try_unqueue() and the second look of wait_event() leave no consumer idle
\* while an event is queued.
THEOREM NoLostWakeup == Spec => []NoIdleConsumer
<1>1. IInv => NoIdleConsumer
  BY DEF IInv
<1>2. QED
  BY <1>1, SpecIInv, PTL

\* No consumer accepts an event for a wait that has returned or is about to.
THEOREM NoWriteToDeadFrame == Spec => []NoDanglingAccept
<1>1. IInv => NoDanglingAccept
  <2>1. SUFFICES ASSUME IInv, NEW w \in Waiters, w \in Reachable, awaits_event[w]
                 PROVE  pc[w] \in {"registered", "waiting"}
    BY DEF NoDanglingAccept
  <2>2. PICK i \in 1..Len(queue_consumers) : w = queue_consumers[i]
    <3>1. CASE w \in Uncalled
      BY <2>1, <3>1 DEF Uncalled, IInv, TypeOK
    <3>2. CASE \E p \in Posters : pc[p] = "offer" /\ w = OfferedTo
      BY <2>1, <3>2 DEF IInv, TypeOK, OfferInProgress, OfferedTo
    <3>3. QED
      BY <2>1, <3>1, <3>2 DEF Reachable
  <2>3. QED
    BY <2>1, <2>2 DEF IInv, AwaitsWhileAlive
<1>2. QED
  BY <1>1, SpecIInv, PTL

\* wait_event() without a timeout never returns a null pointer.
THEOREM UntimedWaitReturnsEvent == Spec => []UntimedWaitGetsEvent
<1>1. IInv => UntimedWaitGetsEvent
  BY DEF IInv, UntimedWaitGetsEvent, OnlyTimedGivesUp, ReturnedIsEp, Waiters
<1>2. QED
  BY <1>1, SpecIInv, PTL

----------------------------------------------------------------------------
(* The event manager keeps the promise of its API                          *)

Given  == [c \in Takers |-> IF c \in Waiters THEN ep[c] ELSE returned[c]]
Ended  == {w \in Waiters : pc[w] \in {"returning", "done"} /\ ep[w] = None}
            \cup {c \in Callbacks : pc[c] = "done" /\ returned[c] = None}
Active == {p \in Posters : pc[p] # "start"}

LEMMA ApiInit == Init => Api!Init
<1> SUFFICES ASSUME Init PROVE Api!Init
  OBVIOUS
<1>1. Active = {} /\ Ended = {}
  BY DEF Init, Active, Ended, Posters, Takers, Calls, Waiters
<1>2. Given = [c \in Takers |-> None]
  BY DEF Init, Given, Takers
<1>3. QED
  BY <1>1, <1>2 DEF Init, Api!Init, Active, Ended, Given, Takers, Waiters,
     Api!Takers

\* A step that hands the head of the queue to taker c.
LEMMA ApiTake ==
    ASSUME NEW c \in Takers, queue # <<>>, Given[c] = None, c \notin Ended,
           Given' = [Given EXCEPT ![c] = Head(queue)], queue' = Tail(queue),
           Active' = Active, Ended' = Ended
    PROVE  Api!Next
<1>1. Api!Take(c)
  BY DEF Api!Take, Given, Ended, Active
<1>2. QED
  BY <1>1 DEF Api!Next, Takers, Waiters, Api!Takers

\* A step after which taker c is known to end without an event.
LEMMA ApiGiveUp ==
    ASSUME NEW c \in TimedWaits \cup Callbacks, Given[c] = None, c \notin Ended,
           Ended' = Ended \cup {c}, queue' = queue,
           Active' = Active, Given' = Given
    PROVE  Api!Next
<1>1. Api!GiveUp(c)
  BY DEF Api!GiveUp, Given, Ended, Active
<1>2. QED
  BY <1>1 DEF Api!Next

LEMMA ApiStutter ==
    ASSUME queue' = queue, Active' = Active, Given' = Given, Ended' = Ended
    PROVE  UNCHANGED Api!vars
  BY DEF Api!vars, Given, Ended, Active

\* Every step of the event queue is a step of EventQueueAbs or changes nothing
\* that EventQueueAbs sees.
LEMMA ApiStep == IInv /\ [Next]_vars => [Api!Next]_(Api!vars)
<1> SUFFICES ASSUME IInv, [Next]_vars PROVE Api!Next \/ UNCHANGED Api!vars
  OBVIOUS
<1> USE CallsDisjoint DEF IInv, TypeOK, Calls
<1>1. ASSUME NEW p \in Posts, Post(p) PROVE Api!Next
  <2>1. Active' = Active \cup {p}
    BY <1>1 DEF Post, Active, Posters
  <2>2. Given' = Given /\ Ended' = Ended
    BY <1>1 DEF Post, Given, Ended, Takers, Posters
  <2>3. Api!Post(p)
    BY <1>1, <2>1, <2>2 DEF Post, Api!Post, Active, Given, Ended
  <2>4. QED
    BY <2>3 DEF Api!Next
<1>2. ASSUME NEW h \in Finishers, FinishHandling(h) PROVE Api!Next
  <2>1. Active' = Active \cup {h}
    BY <1>2 DEF FinishHandling, Active, Posters
  <2>2. Given' = Given /\ Ended' = Ended
    BY <1>2 DEF FinishHandling, Given, Ended, Takers, Posters
  <2>3. Api!PostBatch(h)
    BY <1>2, <2>1, <2>2 DEF FinishHandling, Api!PostBatch, Active, Given, Ended
  <2>4. QED
    BY <2>3 DEF Api!Next
<1>3. ASSUME NEW p \in Posters, CallCallback(p) PROVE Api!Next
  <2> DEFINE c == NextConsumer
  <2>1. c \in Callbacks /\ pc[c] = "registered" /\ queue # <<>>
    BY <1>3 DEF CallCallback, MoreToOffer, NextConsumer, CallbacksUncalled
  <2>2. Given[c] = None /\ c \notin Ended /\ returned[c] = None
    BY <2>1 DEF Given, Ended, Takers, ReturnedIsEp
  <2>3. \A d \in Calls : pc'[d] = IF d = c THEN "done" ELSE pc[d]
    BY <1>3 DEF CallCallback
  <2>4. Active' = Active
    BY <2>1, <2>3 DEF Active, Takers
  <2>5. CASE returned' = [returned EXCEPT ![c] = Head(queue)] /\ queue' = Tail(queue)
    <3>1. Head(queue) # None
      BY <2>1, HeadTailEvents
    <3>2. Given' = [Given EXCEPT ![c] = Head(queue)]
      BY <1>3, <2>1, <2>5 DEF Given, Takers, CallCallback
    <3>3. Ended' = Ended
      BY <1>3, <2>1, <2>3, <2>5, <3>1 DEF Ended, Takers, CallCallback
    <3>4. QED
      BY <2>1, <2>2, <2>4, <2>5, <3>2, <3>3, ApiTake DEF Takers
  <2>6. CASE UNCHANGED <<returned, queue>>
    <3>1. Given' = Given
      BY <1>3, <2>6 DEF Given, CallCallback
    <3>2. Ended' = Ended \cup {c}
      BY <1>3, <2>1, <2>2, <2>3, <2>6 DEF Ended, Takers, CallCallback
    <3>3. QED
      BY <2>1, <2>2, <2>4, <2>6, <3>1, <3>2, ApiGiveUp
  <2>7. QED
    BY <1>3, <2>5, <2>6 DEF CallCallback
<1>4. ASSUME NEW p \in Posters, SkipExpired(p) \/ LockData(p) \/ EndUnqueue(p)
      PROVE  UNCHANGED Api!vars
  <2>1. \A d \in Takers : pc'[d] = pc[d]
    BY <1>4 DEF SkipExpired, LockData, EndUnqueue, Takers
  <2>2. \A q \in Posters : pc'[q] = "start" <=> pc[q] = "start"
    BY <1>4 DEF SkipExpired, LockData, EndUnqueue
  <2>3. UNCHANGED <<queue, ep, returned>>
    BY <1>4 DEF SkipExpired, LockData, EndUnqueue
  <2>4. Active' = Active /\ Given' = Given /\ Ended' = Ended
    BY <2>1, <2>2, <2>3 DEF Active, Given, Ended, Takers
  <2>5. QED
    BY <2>3, <2>4, ApiStutter
<1>5. ASSUME NEW p \in Posters, Offer(p) PROVE Api!Next \/ UNCHANGED Api!vars
  <2> DEFINE c == OfferedTo
  <2>1. \A d \in Takers : pc'[d] = pc[d]
    BY <1>5 DEF Offer, Takers
  <2>2. Active' = Active
    BY <1>5 DEF Offer, Active
  <2>3. CASE awaits_event[c]
    <3>1. c \in Waiters /\ c \in Takers /\ queue # <<>>
      BY <1>5 DEF Offer, OfferInProgress, Takers
    <3>2. pc[c] = "waiting"
      BY <1>5, <2>3, <3>1 DEF Offer, HoldsData, OfferInProgress,
         AwaitsWhileAlive, OfferedTo
    <3>3. Given[c] = None /\ c \notin Ended /\ ep[c] = None
      BY <2>3, <3>1, <3>2 DEF Given, Ended, EventIffAccepted
    <3>4. Given' = [Given EXCEPT ![c] = Head(queue)]
      <4>1. ep' = [ep EXCEPT ![c] = Head(queue)] /\ returned' = returned
        BY <1>5, <2>3 DEF Offer
      <4>2. ep \in [Waiters -> Events \cup {None}]
        OBVIOUS
      <4>3. QED
        BY ONLY <3>1, <4>1, <4>2 DEF Given
    <3>5. Ended' = Ended
      BY <1>5, <2>1, <2>3, <3>1, <3>2 DEF Offer, Ended, Takers
    <3>6. queue' = Tail(queue)
      BY <1>5, <2>3 DEF Offer
    <3>7. QED
      BY <2>2, <3>1, <3>3, <3>4, <3>5, <3>6, ApiTake
  <2>4. CASE ~awaits_event[c]
    <3>1. UNCHANGED <<queue, ep, returned>>
      BY <1>5, <2>4 DEF Offer
    <3>2. Given' = Given /\ Ended' = Ended
      BY <2>1, <3>1 DEF Given, Ended, Takers
    <3>3. QED
      BY <2>2, <3>1, <3>2, ApiStutter
  <2>5. QED
    BY <2>3, <2>4
<1>6. ASSUME NEW w \in Waiters, pc[w] \in {"start", "recheck"}, TakeFront(w),
             returned' = returned
      PROVE  Api!Next
  <2>1. Head(queue) # None /\ queue # <<>>
    BY <1>6, HeadTailEvents DEF TakeFront
  <2>2. Given[w] = None /\ w \notin Ended
    BY <1>6 DEF Given, Ended, EventIffAccepted, Takers
  <2>3. \A d \in Calls : pc'[d] = IF d = w THEN "returning" ELSE pc[d]
    BY <1>6 DEF TakeFront
  <2>4. Active' = Active
    BY <2>3 DEF Active, Takers
  <2>5. Given' = [Given EXCEPT ![w] = Head(queue)]
    BY <1>6 DEF TakeFront, Given, Takers
  <2>6. Ended' = Ended
    BY <1>6, <2>1, <2>3 DEF TakeFront, Ended, Takers
  <2>7. QED
    BY <1>6, <2>1, <2>2, <2>4, <2>5, <2>6, ApiTake DEF TakeFront, Takers
<1>7. ASSUME NEW w \in Waiters, Check(w) PROVE Api!Next \/ UNCHANGED Api!vars
  <2>1. CASE TakeFront(w)
    BY <1>6, <1>7, <2>1 DEF Check
  <2>2. CASE ~TakeFront(w)
    <3>1. \A d \in Calls : pc'[d] = IF d = w THEN "prepare" ELSE pc[d]
      BY <1>7, <2>2 DEF Check
    <3>2. UNCHANGED <<queue, ep, returned>>
      BY <1>7, <2>2 DEF Check
    <3>3. Active' = Active /\ Given' = Given /\ Ended' = Ended
      BY <1>7, <3>1, <3>2 DEF Active, Given, Ended, Takers, Check
    <3>4. QED
      BY <3>2, <3>3, ApiStutter
  <2>3. QED
    BY <2>1, <2>2
<1>8. ASSUME NEW w \in Waiters, Recheck(w) PROVE Api!Next \/ UNCHANGED Api!vars
  <2>1. CASE TakeFront(w)
    BY <1>6, <1>8, <2>1 DEF Recheck
  <2>2. CASE ~TakeFront(w)
    <3>1. \A d \in Calls : pc'[d] = IF d = w THEN "registered" ELSE pc[d]
      BY <1>8, <2>2 DEF Recheck
    <3>2. UNCHANGED <<queue, ep, returned>>
      BY <1>8, <2>2 DEF Recheck
    <3>3. Active' = Active /\ Given' = Given /\ Ended' = Ended
      BY <1>8, <3>1, <3>2 DEF Active, Given, Ended, Takers, Recheck
    <3>4. QED
      BY <3>2, <3>3, ApiStutter
  <2>3. QED
    BY <2>1, <2>2
<1>9. ASSUME NEW w \in Waiters, Prepare(w) \/ Block(w) PROVE UNCHANGED Api!vars
  <2>1. UNCHANGED <<queue, ep, returned>>
    BY <1>9 DEF Prepare, Block
  <2>2. /\ \A d \in Calls \ {w} : pc'[d] = pc[d]
        /\ pc[w] \notin {"returning", "done"} /\ pc'[w] \notin {"returning", "done"}
    BY <1>9 DEF Prepare, Block, Takers
  <2>3. Active' = Active /\ Given' = Given /\ Ended' = Ended
    BY <2>1, <2>2 DEF Active, Given, Ended, Takers
  <2>4. QED
    BY <2>1, <2>3, ApiStutter
<1>10. ASSUME NEW w \in Waiters, Wake(w) PROVE UNCHANGED Api!vars
  <2>1. UNCHANGED <<queue, ep, returned>> /\ ep[w] # None
    BY <1>10 DEF Wake, EventIffAccepted
  <2>2. \A d \in Calls \ {w} : pc'[d] = pc[d]
    BY <1>10 DEF Wake
  <2>3. Active' = Active /\ Given' = Given /\ Ended' = Ended
    BY <2>1, <2>2 DEF Active, Given, Ended, Takers
  <2>4. QED
    BY <2>1, <2>3, ApiStutter
<1>11. ASSUME NEW w \in TimedWaits, Timeout(w) PROVE Api!Next \/ UNCHANGED Api!vars
  <2>1. UNCHANGED <<queue, ep, returned>> /\ w \in Waiters
    BY <1>11 DEF Timeout, Waiters
  <2>2. /\ \A d \in Calls \ {w} : pc'[d] = pc[d]
        /\ pc[w] = "waiting" /\ pc'[w] = "returning"
    BY <1>11, <2>1 DEF Timeout, Takers
  <2>3. Active' = Active /\ Given' = Given
    BY <2>1, <2>2 DEF Active, Given, Takers
  <2>4. CASE ep[w] # None
    <3>1. Ended' = Ended
      BY <2>1, <2>2, <2>4 DEF Ended, Takers
    <3>2. QED
      BY <2>1, <2>3, <3>1, ApiStutter
  <2>5. CASE ep[w] = None
    <3>1. Ended' = Ended \cup {w}
      BY <2>1, <2>2, <2>5 DEF Ended, Takers
    <3>2. w \notin Ended /\ Given[w] = None
      BY <2>1, <2>2, <2>5 DEF Ended, Given, Takers
    <3>3. QED
      BY <2>1, <2>3, <3>1, <3>2, ApiGiveUp
  <2>6. QED
    BY <2>4, <2>5
<1>12. ASSUME NEW w \in Waiters, Return(w) PROVE UNCHANGED Api!vars
  <2>1. /\ UNCHANGED <<queue, ep>>
        /\ \A c \in Callbacks : returned'[c] = returned[c]
    BY <1>12 DEF Return, Takers
  <2>2. /\ \A d \in Calls \ {w} : pc'[d] = pc[d]
        /\ pc[w] = "returning" /\ pc'[w] = "done"
    BY <1>12 DEF Return, Takers
  <2>3. Active' = Active /\ Given' = Given /\ Ended' = Ended
    BY <2>1, <2>2 DEF Active, Given, Ended, Takers
  <2>4. QED
    BY <2>1, <2>3, ApiStutter
<1>13. ASSUME NEW c \in Callbacks, WaitCallback(c)
       PROVE  Api!Next \/ UNCHANGED Api!vars
  <2>1. returned[c] = None /\ pc[c] = "start" /\ c \in Takers
    BY <1>13 DEF WaitCallback, ReturnedIsEp, Takers
  <2>2. Given[c] = None /\ c \notin Ended
    BY <2>1 DEF Given, Ended
  <2>3. \A d \in Calls \ {c} : pc'[d] = pc[d]
    BY <1>13 DEF WaitCallback
  <2>4. Active' = Active
    BY <2>1, <2>3 DEF Active
  <2>5. CASE /\ queue # <<>> /\ pc'[c] = "done"
             /\ returned' = [returned EXCEPT ![c] = Head(queue)]
             /\ queue' = Tail(queue)
    <3>1. Head(queue) # None
      BY <2>5, HeadTailEvents
    <3>2. Given' = [Given EXCEPT ![c] = Head(queue)]
      <4>1. ep' = ep /\ c \notin Waiters
        BY <1>13 DEF WaitCallback
      <4>2. QED
        BY <2>1, <2>5, <4>1 DEF Given
    <3>3. Ended' = Ended
      BY <1>13, <2>1, <2>3, <2>5, <3>1 DEF Ended, Takers, WaitCallback
    <3>4. QED
      BY <2>1, <2>2, <2>4, <2>5, <3>2, <3>3, ApiTake
  <2>6. CASE UNCHANGED <<returned, queue>> /\ pc'[c] = "done"
    <3>1. Given' = Given
      BY <1>13, <2>6 DEF Given, WaitCallback
    <3>2. Ended' = Ended \cup {c}
      BY <1>13, <2>1, <2>3, <2>6 DEF Ended, Takers, WaitCallback
    <3>3. QED
      BY <2>2, <2>4, <2>6, <3>1, <3>2, ApiGiveUp
  <2>7. CASE UNCHANGED <<returned, queue>> /\ pc'[c] = "registered"
    <3>1. Given' = Given /\ Ended' = Ended
      BY <1>13, <2>1, <2>3, <2>7 DEF Given, Ended, Takers, WaitCallback
    <3>2. QED
      BY <2>4, <2>7, <3>1, ApiStutter
  <2>8. QED
    BY <1>13, <2>1, <2>5, <2>6, <2>7 DEF WaitCallback
<1>14. CASE UNCHANGED vars
  <2>1. Active' = Active /\ Given' = Given /\ Ended' = Ended /\ queue' = queue
    BY <1>14 DEF vars, Active, Given, Ended
  <2>2. QED
    BY <2>1, ApiStutter
<1>15. QED
  BY <1>1, <1>2, <1>3, <1>4, <1>5, <1>7, <1>8, <1>9, <1>10, <1>11, <1>12,
     <1>13, <1>14 DEF Next, PosterStep, WaiterStep

\* Each event goes to one taker, in queue order, batches first, and an untimed
\* wait does not end without one: the event queue implements EventQueueAbs.
THEOREM ImplementsApi == Spec => ApiSpec
<1>1. Init => Api!Init
  BY ApiInit
<1>2. IInv /\ [Next]_vars => [Api!Next]_(Api!vars)
  BY ApiStep
<1>3. QED
  BY <1>1, <1>2, SpecIInv, PTL DEF Spec, ApiSpec, Api!Spec
=============================================================================
