---------------------------- MODULE ContextProofs ----------------------------
(***************************************************************************)
(* Proofs about Context and the components it keeps, for all module and    *)
(* component types, any number of modules and any depth of nested calls.   *)
(***************************************************************************)
EXTENDS Context, SequenceTheorems, FiniteSetTheorems, WellFoundedInduction, TLAPS

Object == [type : Loadable, alive : BOOLEAN]
Call(n) == [doing : {"construct", "destroy"}, object : 1..n]

----------------------------------------------------------------------------
(* The inductive invariant                                                 *)

Types ==
    /\ objects \in Seq(Object)
    /\ modules \in [Apis -> 0..Len(objects)]
    /\ \A a \in Apis : modules[a] # 0 => ApiOf[objects[modules[a]].type] = a
    /\ event_manager \in 0..Len(objects)
    /\ calls \in Seq(Call(Len(objects)))
    /\ order \in SetToSeqs(Apis)
    /\ pass \in 0..3
    /\ begin \in 1..End
    /\ ComponentsTypeOK

InSlots == {modules[a] : a \in Apis}
InCalls == {calls[k].object : k \in 1..Len(calls)}

\* A module is in one place, and in none when it is destroyed.
Places ==
    /\ \A n \in 1..Len(objects) : objects[n].alive <=> n \in InSlots \/ n \in InCalls
    /\ \A n \in 1..Len(objects) : ~(n \in InSlots /\ n \in InCalls)
    /\ \A i, j \in 1..Len(calls) : calls[i].object = calls[j].object => i = j

\* Modules under construction are numbered from the outside to the inside.
Ascending ==
    \A i, j \in 1..Len(calls) :
        i < j /\ calls[i].doing = "construct" /\ calls[j].doing = "construct"
            => calls[i].object < calls[j].object

\* What came to the slot of a module under construction has a higher number.
ArrivedLater ==
    \A k \in 1..Len(calls) :
        calls[k].doing = "construct" /\ modules[ApiOf[objects[calls[k].object].type]] # 0
            => calls[k].object < modules[ApiOf[objects[calls[k].object].type]]

Nested == Ascending /\ ArrivedLater

\* event_manager_ is the module in its slot.
Cached ==
    /\ pass \in {0, 1} => event_manager = modules[EventManager]
    /\ modules[EventManager] # 0 => event_manager = modules[EventManager]

\* What the loops of ~irc() have left behind them is unloaded.
Behind ==
    /\ pass # 0 => calls = <<>>
    /\ pass = 1 =>
          \A j \in 1..begin - 1 : order[j] # EventManager => modules[order[j]] = 0
    /\ pass \in {2, 3} => \A a \in Apis \ {EventManager} : modules[a] = 0

IInv == Types /\ Places /\ Nested /\ Cached /\ Behind

----------------------------------------------------------------------------
(* Facts about the types, the order and sequences                          *)

LEMMA ApisFinite ==
  /\ IsFiniteSet(Apis) /\ Cardinality(Apis) \in Nat
  /\ Apis \subseteq ModuleTypes
  /\ \A t \in ModuleTypes : ApiOf[t] \in Apis
<1>1. ApiOf \in Surjection(ModuleTypes, Apis)
  BY ContextAssumption DEF ContextAssumption, Surjection, Apis
<1>2. IsFiniteSet(ModuleTypes)
  BY ContextAssumption DEF ContextAssumption
<1>3. IsFiniteSet(Apis)
  BY <1>1, <1>2, FS_Surjection
<1>4. Cardinality(Apis) \in Nat
  BY <1>3, FS_CardinalityType
<1>5. Apis \subseteq ModuleTypes /\ \A t \in ModuleTypes : ApiOf[t] \in Apis
  BY ContextAssumption DEF ContextAssumption, Apis
<1>6. QED
  BY <1>3, <1>4, <1>5

LEMMA ManagerIsItsApi ==
  EventManager \in Apis /\ EventManager \in ModuleTypes /\ ApiOf[EventManager] = EventManager
<1>1. FirstManager \in ModuleTypes /\ ApiOf[FirstManager] = EventManager
  BY ContextAssumption DEF ContextAssumption
<1>2. <<FirstManager, ApiOf[FirstManager]>> \in ModuleIsA
  BY <1>1, ContextAssumption DEF ContextAssumption
<1>3. ApiOf[<<FirstManager, EventManager>>[1]] = ApiOf[<<FirstManager, EventManager>>[2]]
  BY <1>1, <1>2, ContextAssumption DEF ContextAssumption
<1>4. QED
  BY <1>1, <1>3, ContextAssumption DEF ContextAssumption

LEMMA OrderIsSeq ==
  ASSUME order \in SetToSeqs(Apis)
  PROVE  order \in Seq(Apis) /\ Len(order) = Cardinality(Apis) /\ Len(order) \in Nat
<1>1. order \in [1..Cardinality(Apis) -> Apis]
  BY DEF SetToSeqs
<1>2. QED
  BY <1>1, ApisFinite

\* Every api is somewhere in the order.
LEMMA OrderIsOnto ==
  ASSUME NEW o \in SetToSeqs(Apis), NEW a \in Apis
  PROVE  \E j \in 1..Cardinality(Apis) : o[j] = a
<1> DEFINE D == 1..Cardinality(Apis)
<1>1. o \in [D -> Apis] /\ \A i, j \in D : i # j => o[i] # o[j]
  BY DEF SetToSeqs
<1>2. o \in Injection(D, Apis)
  BY <1>1 DEF Injection, IsInjective
<1>3. Cardinality(D) = Cardinality(Apis)
  BY ApisFinite, FS_Interval
<1>4. o \in Surjection(D, Apis)
  BY <1>2, <1>3, ApisFinite, FS_Injection
<1>5. QED
  BY <1>4 DEF Surjection

LEMMA LeastElement ==
  ASSUME NEW T, T \subseteq Nat, T # {}
  PROVE  \E x \in T : \A y \in T : x <= y
<1> DEFINE R == OpToRel(<, Nat)
<1>1. IsWellFoundedOn(R, Nat)
  BY NatLessThanWellFounded
<1>2. ASSUME NEW x \in Nat, NEW y \in Nat, <<y, x>> \notin R
      PROVE  x <= y
  BY <1>2 DEF OpToRel
<1> HIDE DEF R
<1>3. PICK x \in T : \A y \in T : <<y, x>> \notin R
  BY <1>1, WFMin
<1>4. ASSUME NEW y \in T
      PROVE  x <= y
  <2>1. x \in Nat /\ y \in Nat /\ <<y, x>> \notin R
    BY <1>3
  <2>2. QED
    BY <2>1, <1>2
<1>5. QED
  BY <1>4

\* The iterator comes to the next module, or to the end.
LEMMA FromProperties ==
  ASSUME Types, NEW p \in 1..End
  PROVE  /\ From(p) \in p..End
         /\ \A j \in p..From(p) - 1 : modules[order[j]] = 0
<1> DEFINE T == {k \in p..End : k # End => modules[order[k]] # 0}
<1>1. End \in Nat \ {0}
  BY OrderIsSeq DEF Types, End
<1>2. T \subseteq Nat /\ End \in T
  BY <1>1
<1>3. PICK x \in T : \A y \in T : x <= y
  BY <1>2, LeastElement
<1>4. x \in p..End /\ (x # End => modules[order[x]] # 0)
  OBVIOUS
<1>5. ASSUME NEW j \in p..x - 1
      PROVE  modules[order[j]] = 0
  BY <1>1, <1>3, <1>4
<1>6. QED
  BY <1>4, <1>5 DEF From

LEMMA FrontCalls ==
  ASSUME NEW S, NEW s \in Seq(S), s # <<>>
  PROVE  /\ Front(s) \in Seq(S) /\ Len(s) \in Nat \ {0}
         /\ Len(Front(s)) = Len(s) - 1
         /\ \A k \in 1..Len(s) - 1 : Front(s)[k] = s[k]
         /\ Last(s) = s[Len(s)] /\ Last(s) \in S
<1>1. Len(s) \in Nat \ {0}
  BY EmptySeq
<1>2. \A i \in 1..Len(s) - 1 : s[i] \in S
  BY <1>1, ElementOfSeq
<1>3. /\ Front(s) \in Seq(S)
      /\ Len(Front(s)) = IF 1 <= Len(s) - 1 THEN Len(s) - 1 - 1 + 1 ELSE 0
      /\ \A i \in 1..Len(s) - 1 - 1 + 1 : Front(s)[i] = s[1 + i - 1]
  BY <1>1, <1>2, SubSeqProperties DEF Front
<1>4. Last(s) = s[Len(s)] /\ Last(s) \in S
  BY <1>1, ElementOfSeq DEF Last
<1>5. ASSUME NEW k \in 1..Len(s) - 1
      PROVE  Front(s)[k] = s[k]
  <2>1. k \in 1..Len(s) - 1 - 1 + 1 /\ 1 + k - 1 = k
    BY <1>1
  <2>2. QED
    BY <2>1, <1>3
<1>6. Len(Front(s)) = Len(s) - 1
  <2>1. ASSUME NEW x \in Nat \ {0}
        PROVE  (IF 1 <= x - 1 THEN x - 1 - 1 + 1 ELSE 0) = x - 1
    OBVIOUS
  <2>2. QED
    BY <1>1, <1>3, <2>1
<1>7. QED
  BY <1>1, <1>3, <1>4, <1>5, <1>6
----------------------------------------------------------------------------
(* The parts of the actions                                                *)

\* A module is destroyed.
LEMMA KillStep ==
  ASSUME objects \in Seq(Object), NEW n,
         objects' = [objects EXCEPT ![n].alive = FALSE]
  PROVE  /\ objects' \in Seq(Object) /\ Len(objects') = Len(objects)
         /\ \A m \in 1..Len(objects) :
               /\ objects'[m].type = objects[m].type
               /\ objects'[m].alive <=> objects[m].alive /\ m # n
<1>1. Len(objects) \in Nat /\ objects \in [1..Len(objects) -> Object]
  BY LenProperties
<1>2. \A m \in 1..Len(objects) :
         objects'[m] = IF m = n THEN [objects[m] EXCEPT !.alive = FALSE] ELSE objects[m]
  BY <1>1
<1>3. \A m \in 1..Len(objects) : objects[m] \in Object
  BY <1>1
<1>4. \A m \in 1..Len(objects) : objects'[m] \in Object
  <2>1. ASSUME NEW r \in Object
        PROVE  [r EXCEPT !.alive = FALSE] \in Object
    BY DEF Object
  <2>2. QED
    BY <1>2, <1>3, <2>1
<1>5. objects' \in [1..Len(objects) -> Object]
  BY <1>1, <1>4
<1>6. objects' \in Seq(Object) /\ Len(objects') = Len(objects)
  BY <1>1, <1>5
<1>7. QED
  BY <1>2, <1>3, <1>6 DEF Object

\* A module is destroyed as another one comes to its slot.
LEMMA LoadIntoStep ==
  ASSUME Types, NEW n \in 1..Len(objects), ApiOf[objects[n].type] \in Apis,
         LoadInto(ApiOf[objects[n].type], n)
  PROVE  /\ objects' \in Seq(Object) /\ Len(objects') = Len(objects)
         /\ \A m \in 1..Len(objects) :
               /\ objects'[m].type = objects[m].type
               /\ objects'[m].alive <=> objects[m].alive /\ m # modules[ApiOf[objects[n].type]]
         /\ modules' \in [Apis -> 0..Len(objects)]
         /\ \A a \in Apis :
               modules'[a] = IF a = ApiOf[objects[n].type] THEN n ELSE modules[a]
<1> DEFINE a == ApiOf[objects[n].type]
<1>1. Len(objects) \in Nat /\ objects \in [1..Len(objects) -> Object]
  BY LenProperties DEF Types
<1>2. \A m \in 1..Len(objects) : objects[m] \in Object
  BY <1>1
<1>3. objects' = [m \in 1..Len(objects) |->
                    IF m = modules[a] THEN [objects[m] EXCEPT !.alive = FALSE] ELSE objects[m]]
  BY <1>1 DEF LoadInto
<1>4. \A m \in 1..Len(objects) : objects'[m] \in Object
  BY <1>2, <1>3 DEF Object
<1>5. objects' \in [1..Len(objects) -> Object]
  BY <1>3, <1>4
<1>6. objects' \in Seq(Object) /\ Len(objects') = Len(objects)
  BY <1>1, <1>5
<1>7. \A m \in 1..Len(objects) :
         /\ objects'[m].type = objects[m].type
         /\ objects'[m].alive <=> objects[m].alive /\ m # modules[a]
  BY <1>2, <1>3 DEF Object
<1>8. /\ modules' \in [Apis -> 0..Len(objects)]
      /\ \A b \in Apis : modules'[b] = IF b = a THEN n ELSE modules[b]
  BY <1>1 DEF LoadInto, Types
<1>9. QED
  BY <1>6, <1>7, <1>8

\* A module is under construction.
LEMMA BeginConstructStep ==
  ASSUME Types, NEW t \in Loadable,
         objects' = Append(objects, [type |-> t, alive |-> TRUE])
  PROVE  /\ Len(objects) \in Nat
         /\ objects' \in Seq(Object) /\ Len(objects') = Len(objects) + 1
         /\ \A m \in 1..Len(objects) : objects'[m] = objects[m]
         /\ objects'[Len(objects) + 1] = [type |-> t, alive |-> TRUE]
<1>1. [type |-> t, alive |-> TRUE] \in Object
  BY DEF Object
<1>2. QED
  BY <1>1, AppendProperties, LenProperties DEF Types

LEMMA CallsProperties ==
  ASSUME Types
  PROVE  /\ Len(calls) \in Nat
         /\ \A k \in 1..Len(calls) :
               /\ calls[k] \in Call(Len(objects))
               /\ calls[k].object \in 1..Len(objects)
               /\ calls[k].doing \in {"construct", "destroy"}
<1>1. Len(calls) \in Nat
  BY LenProperties DEF Types
<1>2. \A k \in 1..Len(calls) : calls[k] \in Call(Len(objects))
  BY ElementOfSeq DEF Types
<1>3. QED
  BY <1>1, <1>2 DEF Call

LEMMA TypeInApis ==
  ASSUME Types, NEW n \in 1..Len(objects)
  PROVE  objects[n].type \in Loadable /\ ApiOf[objects[n].type] \in Apis
<1>1. objects[n] \in Object
  BY ElementOfSeq DEF Types
<1>2. QED
  BY <1>1, ApisFinite, ContextAssumption DEF Object, ContextAssumption

----------------------------------------------------------------------------
(* The components                                                          *)

LEMMA BaseOf ==
  ASSUME NEW t \in ComponentTypes
  PROVE  ComponentBase[t] \in Bases /\ Bases \subseteq ComponentTypes
  BY ComponentsAssumption DEF ComponentsAssumption, Bases

LEMMA InsertUncheckedStep ==
  ASSUME ComponentsTypeOK, NEW t \in ComponentTypes, InsertUnchecked(t)
  PROVE  /\ ComponentsTypeOK'
         /\ \A b \in Bases \ {ComponentBase[t]} : contents'[b] = contents[b]
<1>1. t # NoComponent /\ ComponentBase[t] \in Bases
  BY BaseOf, ComponentsAssumption DEF ComponentsAssumption
<1>2. /\ contents' \in [Bases -> ComponentTypes \cup {NoComponent}]
      /\ \A b \in Bases : contents'[b] = IF b = ComponentBase[t] THEN t ELSE contents[b]
  BY <1>1 DEF InsertUnchecked, ComponentsTypeOK
<1>3. answer' \in Answers
  BY DEF InsertUnchecked, Answers
<1>4. QED
  BY <1>2, <1>3 DEF ComponentsTypeOK

\* What a call may do.
ComponentStep ==
    /\ ComponentsTypeOK'
    /\ answer' \notin {"reference", "removed"} => UNCHANGED contents
    /\ \A b \in Bases :
          contents[b] # NoComponent /\ contents'[b] # contents[b]
             => answer' = "removed" /\ contents'[b] = NoComponent

\* A component comes to an empty slot only.
LEMMA InsertIntoEmpty ==
  ASSUME ComponentsTypeOK, NEW t \in ComponentTypes, Stored(t) = NoComponent,
         InsertUnchecked(t)
  PROVE  ComponentStep
<1>1. \A b \in Bases : contents[b] # NoComponent => b # ComponentBase[t]
  BY DEF Stored
<1>2. answer' = "reference"
  BY DEF InsertUnchecked
<1>3. QED
  BY <1>1, <1>2, InsertUncheckedStep DEF ComponentStep

LEMMA NothingChanged ==
  ASSUME ComponentsTypeOK, UNCHANGED contents, answer' \in Answers
  PROVE  ComponentStep
  BY DEF ComponentStep, ComponentsTypeOK

LEMMA RemoveComponentStep ==
  ASSUME ComponentsTypeOK, NEW t \in ComponentTypes, RemoveComponent(t)
  PROVE  ComponentStep
<1>1. CASE /\ contents' = [contents EXCEPT ![ComponentBase[t]] = NoComponent]
           /\ answer' = "removed"
  <2>1. /\ contents' \in [Bases -> ComponentTypes \cup {NoComponent}]
        /\ \A b \in Bases :
              contents'[b] = IF b = ComponentBase[t] THEN NoComponent ELSE contents[b]
    BY <1>1, BaseOf DEF ComponentsTypeOK
  <2>2. QED
    BY <1>1, <2>1 DEF ComponentStep, ComponentsTypeOK, Answers
<1>2. CASE UNCHANGED contents /\ answer' \in Answers
  BY <1>2, NothingChanged
<1>3. QED
  BY <1>1, <1>2 DEF RemoveComponent, Answers

LEMMA CallForStep ==
  ASSUME ComponentsTypeOK, NEW t \in ComponentTypes, CallFor(t)
  PROVE  ComponentStep
<1>1. ASSUME At(t) \/ Find(t)
      PROVE  ComponentStep
  BY <1>1, NothingChanged DEF At, Find, Answers
<1>2. CASE Insert(t)
  <2>1. CASE Stored(t) = NoComponent /\ InsertUnchecked(t)
    BY <2>1, InsertIntoEmpty
  <2>2. CASE answer' = "conflict" /\ UNCHANGED contents
    BY <2>2, NothingChanged DEF Answers
  <2>3. QED
    BY <1>2, <2>1, <2>2 DEF Insert
<1>3. ASSUME NEW new \in ComponentTypes, <<new, t>> \in DerivedFrom, AtOrInsert(t, new)
      PROVE  ComponentStep
  <2>1. ComponentBase[new] = ComponentBase[t]
    <3>1. ComponentBase[<<new, t>>[1]] = ComponentBase[<<new, t>>[2]]
      BY <1>3, ComponentsAssumption DEF ComponentsAssumption
    <3>2. QED
      BY <3>1
  <2>2. CASE Stored(t) = NoComponent
    BY <1>3, <2>1, <2>2, InsertIntoEmpty DEF AtOrInsert, Stored
  <2>3. CASE Stored(t) # NoComponent
    BY <1>1, <1>3, <2>3 DEF AtOrInsert
  <2>4. QED
    BY <2>2, <2>3
<1>4. CASE RemoveComponent(t)
  BY <1>4, RemoveComponentStep
<1>5. QED
  BY <1>1, <1>2, <1>3, <1>4 DEF CallFor

----------------------------------------------------------------------------
(* The steps preserve the invariant                                        *)

LEMMA InitIInv == Init => IInv
<1> SUFFICES ASSUME Init
             PROVE  IInv
  OBVIOUS
<1>1. FirstManager \in Loadable /\ ApiOf[FirstManager] = EventManager /\ EventManager \in Apis
  BY ContextAssumption DEF ContextAssumption
<1>2. [type |-> FirstManager, alive |-> TRUE] \in Object
  BY <1>1 DEF Object
<1>3. /\ objects \in Seq(Object) /\ Len(objects) = 1
      /\ objects[1] = [type |-> FirstManager, alive |-> TRUE]
  BY <1>2 DEF Init
<1>4. calls \in Seq(Call(Len(objects))) /\ Len(calls) = 0
  BY EmptySeq DEF Init
<1>5. order \in SetToSeqs(Apis)
  BY DEF Init
<1>6. 1 \in 1..End
  BY <1>5, OrderIsSeq DEF End
<1>7. ComponentsTypeOK
  BY DEF Init, ComponentsInit, ComponentsTypeOK, Answers
<1>8. Types
  BY <1>1, <1>3, <1>4, <1>5, <1>6, <1>7 DEF Types, Init
<1>9. Places
  BY <1>1, <1>3, <1>4 DEF Places, InSlots, InCalls, Init
<1>10. Nested /\ Cached /\ Behind
  BY <1>1, <1>4 DEF Nested, Ascending, ArrivedLater, Cached, Behind, Init
<1>11. QED
  BY <1>8, <1>9, <1>10 DEF IInv

\* A call joins.
LEMMA CallJoins ==
  ASSUME NEW n, Len(calls) \in Nat, Len(calls') = Len(calls) + 1,
         \A k \in 1..Len(calls) : calls'[k] = calls[k],
         calls'[Len(calls) + 1].object = n
  PROVE  InCalls' = InCalls \cup {n}
<1>1. \A k \in 1..Len(calls) + 1 :
         calls'[k].object = IF k = Len(calls) + 1 THEN n ELSE calls[k].object
  OBVIOUS
<1>2. InCalls' = {calls'[k].object : k \in 1..Len(calls) + 1}
  BY DEF InCalls
<1>3. ASSUME NEW m \in InCalls'
      PROVE  m \in InCalls \cup {n}
  <2>1. PICK k \in 1..Len(calls) + 1 : m = calls'[k].object
    BY <1>2
  <2>2. CASE k = Len(calls) + 1
    BY <1>1, <2>1, <2>2
  <2>3. CASE k \in 1..Len(calls)
    BY <1>1, <2>1, <2>3 DEF InCalls
  <2>4. QED
    BY <2>2, <2>3
<1>4. n \in InCalls'
  BY <1>1, <1>2
<1>5. ASSUME NEW m \in InCalls
      PROVE  m \in InCalls'
  <2>1. PICK k \in 1..Len(calls) : m = calls[k].object
    BY DEF InCalls
  <2>2. k \in 1..Len(calls) + 1 /\ calls'[k].object = m
    BY <1>1, <2>1
  <2>3. QED
    BY <1>2, <2>2
<1>6. QED
  BY <1>3, <1>4, <1>5

\* A step that leaves the modules, their slots and the calls alone.
LEMMA SamePlaces ==
  ASSUME IInv, UNCHANGED <<objects, modules, calls>>
  PROVE  Places' /\ Nested'
<1>1. Places /\ Nested
  BY DEF IInv
<1>2. InSlots' = InSlots /\ InCalls' = InCalls
  BY DEF InSlots, InCalls
<1>3. Places'
  BY ONLY <1>1, <1>2, objects' = objects, calls' = calls DEF Places
<1>4. Nested'
  BY ONLY <1>1, objects' = objects, modules' = modules, calls' = calls
     DEF Nested, Ascending, ArrivedLater
<1>5. QED
  BY <1>3, <1>4

\* The calls that stay when inner ones end are numbered as before.
LEMMA FewerAscending ==
  ASSUME Ascending, Len(calls) \in Nat, NEW n \in 0..Len(calls), Len(calls') = n,
         \A k \in 1..n : calls'[k] = calls[k]
  PROVE  Ascending'
<1>1. SUFFICES ASSUME NEW i \in 1..Len(calls'), NEW j \in 1..Len(calls'), i < j,
                      calls'[i].doing = "construct", calls'[j].doing = "construct"
               PROVE  calls'[i].object < calls'[j].object
  BY DEF Ascending
<1>2. i \in 1..Len(calls) /\ j \in 1..Len(calls)
  OBVIOUS
<1>3. calls'[i] = calls[i] /\ calls'[j] = calls[j]
  OBVIOUS
<1>4. calls[i].object < calls[j].object
  BY ONLY <1>1, <1>2, <1>3, Ascending DEF Ascending
<1>5. QED
  BY <1>3, <1>4

LEMMA LoadStep ==
  ASSUME IInv, NEW t \in ModuleTypes, Load(t)
  PROVE  IInv'
<1>1. CASE Found(t) # 0
  <2>1. UNCHANGED <<objects, calls, modules, event_manager, order, pass, begin, contents>>
    BY <1>1 DEF Load
  <2>2. answer' \in Answers
    BY <1>1 DEF Load, Answers
  <2>3. Types'
    BY <2>1, <2>2 DEF IInv, Types, ComponentsTypeOK, End
  <2>4. Places' /\ Nested'
    BY <2>1, SamePlaces
  <2>5. Cached' /\ Behind'
    BY <2>1 DEF IInv, Cached, Behind
  <2>6. QED
    BY <2>3, <2>4, <2>5 DEF IInv
<1>2. CASE Found(t) = 0
  <2> DEFINE n == Len(objects) + 1
             call == [doing |-> "construct", object |-> n]
  <2>1. /\ t \in Loadable /\ pass = 0
        /\ objects' = Append(objects, [type |-> t, alive |-> TRUE])
        /\ calls' = Append(calls, call)
        /\ UNCHANGED <<modules, event_manager, order, pass, begin, contents, answer>>
    BY <1>2 DEF Load
  <2>2. /\ Len(objects) \in Nat
        /\ objects' \in Seq(Object) /\ Len(objects') = n
        /\ \A m \in 1..Len(objects) : objects'[m] = objects[m]
        /\ objects'[n] = [type |-> t, alive |-> TRUE]
    BY <2>1, BeginConstructStep DEF IInv
  <2>3. /\ Len(calls) \in Nat
        /\ \A k \in 1..Len(calls) :
              /\ calls[k].object \in 1..Len(objects)
              /\ calls[k].doing \in {"construct", "destroy"}
    BY CallsProperties DEF IInv
  <2>4. calls \in Seq(Call(n)) /\ call \in Call(n) /\ call.object = n
    <3>1. Call(Len(objects)) \subseteq Call(n)
      BY <2>2 DEF Call
    <3>2. calls \in Seq(Call(n))
      BY <3>1, SeqMonotonic DEF IInv, Types
    <3>3. QED
      BY <2>2, <3>2 DEF Call
  <2>5. /\ calls' \in Seq(Call(n)) /\ Len(calls') = Len(calls) + 1
        /\ \A k \in 1..Len(calls) : calls'[k] = calls[k]
        /\ calls'[Len(calls) + 1] = call
    BY <2>1, <2>4, AppendProperties
  <2>6. /\ modules \in [Apis -> 0..Len(objects)]
        /\ \A a \in Apis : modules[a] # 0 => modules[a] \in 1..Len(objects)
    BY <2>2 DEF IInv, Types
  <2>7. Types'
    BY <2>1, <2>2, <2>5, <2>6 DEF IInv, Types, ComponentsTypeOK, End
  <2>8. InSlots' = InSlots /\ InCalls' = InCalls \cup {n} /\ n \notin InCalls
    <3>1. InSlots' = InSlots
      BY <2>1 DEF InSlots
    <3>2. n \notin InCalls
      BY <2>2, <2>3 DEF InCalls
    <3>3. InCalls' = InCalls \cup {n}
      BY <2>3, <2>4, <2>5, CallJoins
    <3>4. QED
      BY <3>1, <3>2, <3>3
  <2>9. n \notin InSlots
    BY <2>2, <2>6 DEF InSlots
  <2>10. Places'
    <3>1. ASSUME NEW m \in 1..n
          PROVE  /\ objects'[m].alive <=> m \in InSlots' \/ m \in InCalls'
                 /\ ~(m \in InSlots' /\ m \in InCalls')
      <4>1. CASE m = n
        BY <4>1, <2>2, <2>8, <2>9
      <4>2. CASE m # n
        BY <4>2, <2>2, <2>8 DEF IInv, Places
      <4>3. QED
        BY <4>1, <4>2
    <3>2. \A i, j \in 1..Len(calls') : calls'[i].object = calls'[j].object => i = j
      BY <2>2, <2>3, <2>5 DEF IInv, Places
    <3>3. QED
      BY <2>2, <3>1, <3>2 DEF Places
  <2>11. Nested'
    <3>1. ASSUME NEW i \in 1..Len(calls'), NEW j \in 1..Len(calls'), i < j,
                 calls'[i].doing = "construct", calls'[j].doing = "construct"
          PROVE  calls'[i].object < calls'[j].object
      <4>1. i \in 1..Len(calls) /\ calls'[i] = calls[i]
        BY <2>3, <2>5, <3>1
      <4>2. CASE j = Len(calls) + 1
        BY <2>2, <2>3, <2>4, <2>5, <4>1, <4>2
      <4>3. CASE j # Len(calls) + 1
        <5>1. j \in 1..Len(calls) /\ calls'[j] = calls[j]
          BY <2>3, <2>5, <4>3
        <5>2. QED
          BY <3>1, <4>1, <5>1 DEF IInv, Nested, Ascending
      <4>4. QED
        BY <4>2, <4>3
    <3>2. ASSUME NEW k \in 1..Len(calls'), calls'[k].doing = "construct",
                 modules[ApiOf[objects'[calls'[k].object].type]] # 0
          PROVE  calls'[k].object < modules[ApiOf[objects'[calls'[k].object].type]]
      <4>1. CASE k = Len(calls) + 1
        BY <1>2, <2>2, <2>4, <2>5, <3>2, <4>1 DEF Found
      <4>2. CASE k # Len(calls) + 1
        <5>1. k \in 1..Len(calls) /\ calls'[k] = calls[k]
          BY <2>3, <2>5, <4>2
        <5>2. objects'[calls[k].object] = objects[calls[k].object]
          BY <2>2, <2>3, <5>1
        <5>3. calls[k].object < modules[ApiOf[objects[calls[k].object].type]]
          BY <3>2, <5>1, <5>2 DEF IInv, Nested, ArrivedLater
        <5>4. QED
          BY <5>1, <5>2, <5>3
      <4>3. QED
        BY <4>1, <4>2
    <3>3. QED
      BY <2>1, <3>1, <3>2 DEF Nested, Ascending, ArrivedLater
  <2>12. Cached' /\ Behind'
    BY <2>1 DEF IInv, Cached, Behind
  <2>13. QED
    BY <2>7, <2>10, <2>11, <2>12 DEF IInv
<1>3. QED
  BY <1>1, <1>2

\* The last call leaves.
LEMMA LastLeaves ==
  ASSUME Types, Places, calls # <<>>, calls' = Front(calls)
  PROVE  /\ InCalls' = InCalls \ {calls[Len(calls)].object}
         /\ calls[Len(calls)].object \in InCalls
         /\ \A i, j \in 1..Len(calls') : calls'[i].object = calls'[j].object => i = j
<1> DEFINE last == Len(calls)
           n == calls[last].object
<1>1. /\ last \in Nat \ {0} /\ Len(calls') = last - 1
      /\ \A k \in 1..last - 1 : calls'[k] = calls[k]
  BY FrontCalls DEF Types
<1>2. n \in InCalls
  BY <1>1 DEF InCalls
<1>3. \A k \in 1..last - 1 : calls[k].object # n
  BY <1>1 DEF Places
<1>4. InCalls' = {calls[k].object : k \in 1..last - 1}
  BY <1>1 DEF InCalls
<1>5. ASSUME NEW m \in InCalls, m # n
      PROVE  m \in InCalls'
  <2>1. PICK k \in 1..last : m = calls[k].object
    BY DEF InCalls
  <2>2. k \in 1..last - 1
    BY <1>1, <1>5, <2>1
  <2>3. QED
    BY <1>4, <2>1, <2>2
<1>6. ASSUME NEW m \in InCalls'
      PROVE  m \in InCalls \ {n}
  <2>1. PICK k \in 1..last - 1 : m = calls[k].object
    BY <1>4
  <2>2. k \in 1..last
    BY <1>1
  <2>3. QED
    BY <1>3, <2>1, <2>2 DEF InCalls
<1>7. \A i, j \in 1..Len(calls') : calls'[i].object = calls'[j].object => i = j
  BY <1>1 DEF Places
<1>8. QED
  BY <1>2, <1>5, <1>6, <1>7

\* The innermost call ends and its module is destroyed, in a constructor that
\* throws or a destructor that returns.
LEMMA CallEndsStep ==
  ASSUME IInv, calls # <<>>,
         objects' = [objects EXCEPT ![Last(calls).object].alive = FALSE],
         calls' = Front(calls), answer' \in Answers,
         UNCHANGED <<modules, event_manager, order, pass, begin, contents>>
  PROVE  IInv'
<1> DEFINE n == Last(calls).object
           last == Len(calls)
<1>1. /\ objects' \in Seq(Object) /\ Len(objects') = Len(objects)
      /\ \A m \in 1..Len(objects) :
            /\ objects'[m].type = objects[m].type
            /\ objects'[m].alive <=> objects[m].alive /\ m # n
  BY KillStep DEF IInv, Types
<1>2. /\ calls' \in Seq(Call(Len(objects))) /\ last \in Nat \ {0}
      /\ Len(calls') = last - 1
      /\ \A k \in 1..last - 1 : calls'[k] = calls[k]
      /\ Last(calls) = calls[last]
  BY FrontCalls DEF IInv, Types
<1>3. \A k \in 1..last : calls[k].object \in 1..Len(objects)
  BY CallsProperties DEF IInv
<1>4. \A a \in Apis : modules[a] # 0 => modules[a] \in 1..Len(objects)
  <2>1. Len(objects) \in Nat
    BY LenProperties DEF IInv, Types
  <2>2. QED
    BY <2>1 DEF IInv, Types
<1>5. Types'
  BY <1>1, <1>2, <1>4 DEF IInv, Types, ComponentsTypeOK, End
<1>6. InSlots' = InSlots
  BY DEF InSlots
<1>7. InCalls' = InCalls \ {n} /\ n \in InCalls /\ n \in 1..Len(objects)
  BY <1>2, <1>3, LastLeaves DEF IInv
<1>8. Places'
  <2>1. \A i, j \in 1..Len(calls') : calls'[i].object = calls'[j].object => i = j
    BY <1>2 DEF IInv, Places
  <2>2. QED
    BY <1>1, <1>6, <1>7, <2>1 DEF IInv, Places
<1>9. Nested'
  <2>1. Ascending'
    BY <1>2, FewerAscending DEF IInv, Nested
  <2>2. \A k \in 1..Len(calls') :
           calls'[k] = calls[k] /\ objects'[calls[k].object].type = objects[calls[k].object].type
    BY <1>1, <1>2, <1>3
  <2>3. ASSUME NEW k \in 1..Len(calls'), calls'[k].doing = "construct",
               modules[ApiOf[objects'[calls'[k].object].type]] # 0
        PROVE  calls'[k].object < modules[ApiOf[objects'[calls'[k].object].type]]
    <3>1. k \in 1..Len(calls)
      BY <1>2
    <3>2. /\ calls'[k] = calls[k]
          /\ objects'[calls'[k].object].type = objects[calls[k].object].type
      BY <2>2
    <3>3. calls[k].object < modules[ApiOf[objects[calls[k].object].type]]
      BY <2>3, <3>1, <3>2 DEF IInv, Nested, ArrivedLater
    <3>4. QED
      BY <3>2, <3>3
  <2>4. QED
    BY <2>1, <2>3 DEF Nested, ArrivedLater
<1>10. Cached' /\ Behind'
  <2>1. pass = 0
    BY DEF IInv, Behind
  <2>2. QED
    BY <2>1 DEF IInv, Cached, Behind
<1>11. QED
  BY <1>5, <1>8, <1>9, <1>10 DEF IInv

LEMMA FinishConstructStep ==
  ASSUME IInv, FinishConstruct
  PROVE  /\ IInv'
         /\ \A b \in Apis : modules[b] # 0 /\ modules'[b] # modules[b]
                               => modules'[b] < modules[b]
<1> DEFINE last == Len(calls)
           n == calls[last].object
           a == ApiOf[objects[n].type]
           old == modules[a]
<1>1. /\ calls' \in Seq(Call(Len(objects))) /\ last \in Nat \ {0}
      /\ Len(calls') = last - 1
      /\ \A k \in 1..last - 1 : calls'[k] = calls[k]
      /\ Last(calls) = calls[last] /\ calls[last].doing = "construct"
  BY FrontCalls DEF FinishConstruct, Under, IInv, Types
<1>2. \A k \in 1..last : calls[k].object \in 1..Len(objects)
  BY CallsProperties DEF IInv
<1>3. n \in 1..Len(objects) /\ a \in Apis /\ Len(objects) \in Nat
  BY <1>1, <1>2, TypeInApis, LenProperties DEF IInv, Types
<1>4. LoadInto(a, n)
  BY <1>1 DEF FinishConstruct
<1>5. /\ objects' \in Seq(Object) /\ Len(objects') = Len(objects)
      /\ \A m \in 1..Len(objects) :
            /\ objects'[m].type = objects[m].type
            /\ objects'[m].alive <=> objects[m].alive /\ m # old
      /\ modules' \in [Apis -> 0..Len(objects)]
      /\ \A b \in Apis : modules'[b] = IF b = a THEN n ELSE modules[b]
  BY <1>3, <1>4, LoadIntoStep DEF IInv
<1>6. /\ event_manager' = IF a = EventManager THEN n ELSE event_manager
      /\ answer' \in Answers
      /\ UNCHANGED <<order, pass, begin, contents>>
  BY <1>1 DEF FinishConstruct, Answers
<1>7. modules \in [Apis -> 0..Len(objects)]
  BY DEF IInv, Types
<1>8. Types'
  <2>1. \A b \in Apis : modules'[b] # 0 => ApiOf[objects'[modules'[b]].type] = b
    <3>1. ASSUME NEW b \in Apis, modules'[b] # 0
          PROVE  ApiOf[objects'[modules'[b]].type] = b
      <4>1. CASE b = a
        BY <1>3, <1>5, <4>1
      <4>2. CASE b # a
        <5>1. modules'[b] = modules[b] /\ modules[b] \in 1..Len(objects)
          BY <1>3, <1>5, <1>7, <3>1, <4>2
        <5>2. QED
          BY <1>5, <3>1, <5>1 DEF IInv, Types
      <4>3. QED
        BY <4>1, <4>2
    <3>2. QED
      BY <3>1
  <2>2. event_manager' \in 0..Len(objects)
    BY <1>3, <1>6 DEF IInv, Types
  <2>3. QED
    BY <1>1, <1>5, <1>6, <2>1, <2>2 DEF IInv, Types, ComponentsTypeOK, End
<1>9. InCalls' = InCalls \ {n} /\ n \in InCalls
  BY <1>1, LastLeaves DEF IInv, FinishConstruct
<1>10. n \notin InSlots /\ old # n
  BY <1>3, <1>9 DEF IInv, Places, InSlots
<1>11. ASSUME NEW m \in 1..Len(objects)
       PROVE  m \in InSlots' <=> m = n \/ (m \in InSlots /\ m # old)
  <2>1. ASSUME m \in InSlots'
        PROVE  m = n \/ (m \in InSlots /\ m # old)
    <3>1. PICK b \in Apis : m = modules'[b]
      BY <2>1 DEF InSlots
    <3>2. CASE b = a
      <4>1. modules'[b] = n
        BY <1>5, <3>2
      <4>2. m = n
        BY <3>1, <4>1
      <4>3. QED
        BY <4>2
    <3>3. CASE b # a
      <4>1. m = modules[b]
        BY <1>5, <3>1, <3>3
      <4>2. m # old
        BY <1>3, <3>3, <4>1 DEF IInv, Types
      <4>3. QED
        BY <4>1, <4>2 DEF InSlots
    <3>4. QED
      BY <3>2, <3>3
  <2>2. n \in InSlots'
    BY <1>3, <1>5 DEF InSlots
  <2>3. ASSUME m \in InSlots, m # old
        PROVE  m \in InSlots'
    <3>1. PICK b \in Apis : m = modules[b]
      BY <2>3 DEF InSlots
    <3>2. modules'[b] = m
      BY <1>5, <2>3, <3>1
    <3>3. QED
      BY <3>2 DEF InSlots
  <2>4. QED
    BY <2>1, <2>2, <2>3
<1>12. Places'
  <2>1. \A i, j \in 1..Len(calls') : calls'[i].object = calls'[j].object => i = j
    BY <1>1, LastLeaves DEF IInv, FinishConstruct
  <2>2. old \in InSlots
    BY <1>3 DEF InSlots
  <2>3. ASSUME NEW m \in 1..Len(objects)
        PROVE  /\ objects'[m].alive <=> m \in InSlots' \/ m \in InCalls'
               /\ ~(m \in InSlots' /\ m \in InCalls')
    <3>1. /\ objects[m].alive <=> m \in InSlots \/ m \in InCalls
          /\ ~(m \in InSlots /\ m \in InCalls)
      BY DEF IInv, Places
    <3>2. objects'[m].alive <=> objects[m].alive /\ m # old
      BY <1>5
    <3>3. QED
      BY <1>9, <1>10, <1>11, <2>2, <3>1, <3>2
  <2>4. QED
    BY <1>5, <2>1, <2>3 DEF Places
<1>13. Nested'
  <2>1. Ascending'
    BY <1>1, FewerAscending DEF IInv, Nested
  <2>2. ASSUME NEW k \in 1..Len(calls'), calls'[k].doing = "construct",
               modules'[ApiOf[objects'[calls'[k].object].type]] # 0
        PROVE  calls'[k].object < modules'[ApiOf[objects'[calls'[k].object].type]]
    <3> DEFINE b == ApiOf[objects[calls[k].object].type]
    <3>1. k \in 1..last /\ k < last /\ calls'[k] = calls[k]
      BY <1>1
    <3>2. ApiOf[objects'[calls'[k].object].type] = b /\ b \in Apis
      BY <1>2, <1>5, <3>1, TypeInApis DEF IInv
    <3>3. CASE b = a
      <4>1. calls[k].object < n
        BY <1>1, <2>2, <3>1 DEF IInv, Nested, Ascending
      <4>2. modules'[b] = n
        BY <1>5, <3>2, <3>3
      <4>3. QED
        BY ONLY <3>1, <3>2, <4>1, <4>2
    <3>4. CASE b # a
      <4>1. modules'[b] = modules[b]
        BY <1>5, <3>2, <3>4
      <4>2. calls[k].object < modules[b]
        BY <2>2, <3>1, <3>2, <4>1 DEF IInv, Nested, ArrivedLater
      <4>3. QED
        BY <3>1, <3>2, <4>1, <4>2
    <3>5. QED
      BY <3>3, <3>4
  <2>3. QED
    BY <2>1, <2>2 DEF Nested, ArrivedLater
<1>14. Cached'
  BY <1>3, <1>5, <1>6, ContextAssumption DEF IInv, Cached, ContextAssumption
<1>15. Behind'
  BY <1>6 DEF IInv, Behind, FinishConstruct, Under
<1>16. ASSUME NEW b \in Apis, modules[b] # 0, modules'[b] # modules[b]
       PROVE  modules'[b] < modules[b]
  <2>1. b = a /\ modules'[b] = n
    BY <1>5, <1>16
  <2>2. last \in 1..Len(calls) /\ calls[last].doing = "construct"
    BY <1>1
  <2>3. modules[ApiOf[objects[calls[last].object].type]] # 0
    BY <1>16, <2>1
  <2>4. calls[last].object < modules[ApiOf[objects[calls[last].object].type]]
    BY ONLY IInv, <2>2, <2>3 DEF IInv, Nested, ArrivedLater
  <2>5. n < old
    BY <2>4
  <2>6. QED
    BY <2>1, <2>5
<1>17. QED
  BY <1>8, <1>12, <1>13, <1>14, <1>15, <1>16 DEF IInv

LEMMA SlotIsObject ==
  ASSUME Types, NEW a \in Apis, modules[a] # 0
  PROVE  modules[a] \in 1..Len(objects)
<1>1. Len(objects) \in Nat
  BY LenProperties DEF Types
<1>2. QED
  BY <1>1 DEF Types

LEMMA UnloadStep ==
  ASSUME IInv, NEW t \in ModuleTypes, Unload(t)
  PROVE  IInv'
<1>1. CASE ~Fits(t)
  <2>1. UNCHANGED <<objects, calls, modules, event_manager, order, pass, begin, contents>>
    BY <1>1 DEF Unload
  <2>2. answer' \in Answers
    BY <1>1 DEF Unload, Answers
  <2>3. Types'
    BY <2>1, <2>2 DEF IInv, Types, ComponentsTypeOK, End
  <2>4. Places' /\ Nested'
    BY <2>1, SamePlaces
  <2>5. Cached' /\ Behind'
    BY <2>1 DEF IInv, Cached, Behind
  <2>6. QED
    BY <2>3, <2>4, <2>5 DEF IInv
<1>2. CASE Fits(t)
  <2> DEFINE a == ApiOf[t]
             n == modules[a]
             call == [doing |-> "destroy", object |-> n]
  <2>1. /\ pass = 0 /\ n # 0
        /\ modules' = [modules EXCEPT ![a] = 0]
        /\ calls' = Append(calls, call)
        /\ event_manager' = IF a = EventManager THEN 0 ELSE event_manager
        /\ UNCHANGED <<objects, order, pass, begin, contents, answer>>
    BY <1>2 DEF Unload, Fits, Found, Forget
  <2>2. a \in Apis /\ n \in 1..Len(objects) /\ Len(objects) \in Nat
    BY <2>1, ApisFinite, SlotIsObject, LenProperties DEF IInv, Types
  <2>3. call \in Call(Len(objects)) /\ call.object = n /\ call.doing = "destroy"
    BY <2>2 DEF Call
  <2>4. /\ calls' \in Seq(Call(Len(objects))) /\ Len(calls') = Len(calls) + 1
        /\ \A k \in 1..Len(calls) : calls'[k] = calls[k]
        /\ calls'[Len(calls) + 1] = call
    BY <2>1, <2>3, AppendProperties DEF IInv, Types
  <2>5. Len(calls) \in Nat /\ \A k \in 1..Len(calls) : calls[k].object \in 1..Len(objects)
    BY CallsProperties DEF IInv
  <2>6. /\ modules \in [Apis -> 0..Len(objects)]
        /\ modules' \in [Apis -> 0..Len(objects)]
        /\ \A b \in Apis : modules'[b] = IF b = a THEN 0 ELSE modules[b]
    BY <2>1, <2>2 DEF IInv, Types
  <2>7. Types'
    BY <2>1, <2>2, <2>4, <2>6 DEF IInv, Types, ComponentsTypeOK, End
  <2>8. \A m \in 1..Len(objects) : m \in InSlots' <=> m \in InSlots /\ m # n
    <3>1. ASSUME NEW m \in 1..Len(objects), m \in InSlots'
          PROVE  m \in InSlots /\ m # n
      <4>1. PICK b \in Apis : m = modules'[b]
        BY <3>1 DEF InSlots
      <4>2. b # a /\ m = modules[b]
        BY <2>6, <4>1
      <4>3. m # n
        BY <2>1, <2>2, <4>2 DEF IInv, Types
      <4>4. QED
        BY <4>2, <4>3 DEF InSlots
    <3>2. ASSUME NEW m \in 1..Len(objects), m \in InSlots, m # n
          PROVE  m \in InSlots'
      <4>1. PICK b \in Apis : m = modules[b]
        BY <3>2 DEF InSlots
      <4>2. modules'[b] = m
        BY <2>6, <3>2, <4>1
      <4>3. QED
        BY <4>2 DEF InSlots
    <3>3. QED
      BY <3>1, <3>2
  <2>9. n \in InSlots /\ n \notin InCalls
    BY <2>2 DEF IInv, Places, InSlots
  <2>10. InCalls' = InCalls \cup {n}
    BY <2>3, <2>4, <2>5, CallJoins
  <2>11. Places'
    <3>1. \A m \in 1..Len(objects) :
             /\ objects'[m].alive <=> m \in InSlots' \/ m \in InCalls'
             /\ ~(m \in InSlots' /\ m \in InCalls')
      BY <2>1, <2>8, <2>9, <2>10 DEF IInv, Places
    <3>2. \A k \in 1..Len(calls) : calls[k].object # n
      BY <2>9 DEF InCalls
    <3>3. ASSUME NEW i \in 1..Len(calls'), NEW j \in 1..Len(calls'),
                 calls'[i].object = calls'[j].object
          PROVE  i = j
      <4>1. CASE i = Len(calls) + 1
        BY <2>3, <2>4, <2>5, <3>2, <3>3, <4>1
      <4>2. CASE j = Len(calls) + 1
        BY <2>3, <2>4, <2>5, <3>2, <3>3, <4>2
      <4>3. CASE i \in 1..Len(calls) /\ j \in 1..Len(calls)
        BY <2>4, <3>3, <4>3 DEF IInv, Places
      <4>4. QED
        BY <2>4, <2>5, <4>1, <4>2, <4>3
    <3>4. QED
      BY <2>1, <3>1, <3>3 DEF Places
  <2>12. Nested'
    <3>1. ASSUME NEW k \in 1..Len(calls'), calls'[k].doing = "construct"
          PROVE  k \in 1..Len(calls) /\ calls'[k] = calls[k]
      BY <2>3, <2>4, <2>5, <3>1
    <3>2. Ascending'
      BY <3>1 DEF IInv, Nested, Ascending
    <3>3. ASSUME NEW k \in 1..Len(calls'), calls'[k].doing = "construct",
                 modules'[ApiOf[objects'[calls'[k].object].type]] # 0
          PROVE  calls'[k].object < modules'[ApiOf[objects'[calls'[k].object].type]]
      <4> DEFINE b == ApiOf[objects[calls[k].object].type]
      <4>1. k \in 1..Len(calls) /\ calls'[k] = calls[k] /\ objects' = objects
        BY <2>1, <3>1, <3>3
      <4>2. b \in Apis
        BY <2>5, <4>1, TypeInApis DEF IInv
      <4>3. modules'[b] = modules[b]
        BY <2>6, <3>3, <4>1, <4>2
      <4>4. calls[k].object < modules[b]
        BY <3>3, <4>1, <4>3 DEF IInv, Nested, ArrivedLater
      <4>5. QED
        BY <4>1, <4>3, <4>4
    <3>4. QED
      BY <3>2, <3>3 DEF Nested, ArrivedLater
  <2>13. Cached'
    BY <2>1, <2>2, <2>6, ContextAssumption DEF IInv, Cached, ContextAssumption
  <2>14. Behind'
    BY <2>1 DEF IInv, Behind
  <2>15. QED
    BY <2>7, <2>11, <2>12, <2>13, <2>14 DEF IInv
<1>3. QED
  BY <1>1, <1>2

LEMMA UseComponentsStep ==
  ASSUME IInv, UseComponents
  PROVE  IInv' /\ ComponentStep
<1>1. ComponentStep
  BY CallForStep DEF IInv, Types, UseComponents, ComponentsNext
<1>2. UNCHANGED <<objects, modules, event_manager, calls, order, pass, begin>>
  BY DEF UseComponents
<1>3. Types'
  BY <1>1, <1>2 DEF IInv, Types, ComponentStep, End
<1>4. Places' /\ Nested'
  BY <1>2, SamePlaces
<1>5. Cached' /\ Behind'
  BY <1>2 DEF IInv, Cached, Behind
<1>6. QED
  BY <1>1, <1>3, <1>4, <1>5 DEF IInv

LEMMA OneInEnd ==
  ASSUME Types
  PROVE  End \in Nat \ {0} /\ 1 \in 1..End /\ End = Len(order) + 1
  BY OrderIsSeq DEF Types, End

LEMMA BeginDestructStep ==
  ASSUME IInv, BeginDestruct
  PROVE  IInv'
<1>1. /\ pass = 0 /\ pass' = 1 /\ begin' = From(1) /\ calls = <<>>
      /\ UNCHANGED <<objects, modules, event_manager, calls, order, contents, answer>>
  BY DEF BeginDestruct
<1>2. From(1) \in 1..End /\ \A j \in 1..From(1) - 1 : modules[order[j]] = 0
  BY OneInEnd, FromProperties DEF IInv
<1>3. Types'
  BY <1>1, <1>2 DEF IInv, Types, ComponentsTypeOK, End
<1>4. Places' /\ Nested'
  BY <1>1, SamePlaces
<1>5. Cached' /\ Behind'
  BY <1>1, <1>2 DEF IInv, Cached, Behind
<1>6. QED
  BY <1>3, <1>4, <1>5 DEF IInv

\* A loop of ~irc() unloads a module, with no call under way.
LEMMA EraseAtBeginStep ==
  ASSUME IInv, pass \in {1, 2}, begin # End, EraseAtBegin,
         UNCHANGED <<event_manager, calls, order, pass, contents, answer>>
  PROVE  /\ Types' /\ Places' /\ Nested'
         /\ \A a \in Apis : modules'[a] = IF a = order[begin] THEN 0 ELSE modules[a]
         /\ begin' \in begin + 1..End /\ begin \in Nat
         /\ \A j \in begin + 1..begin' - 1 : modules[order[j]] = 0
<1> DEFINE a == order[begin]
           n == modules[a]
<1>1. begin \in 1..End /\ End \in Nat /\ begin \in 1..Len(order) /\ begin + 1 \in 1..End
  BY OneInEnd, OrderIsSeq DEF IInv, Types
<1>2. a \in Apis
  BY <1>1, OrderIsSeq DEF IInv, Types
<1>3. /\ From(begin + 1) \in begin + 1..End
      /\ \A j \in begin + 1..From(begin + 1) - 1 : modules[order[j]] = 0
  BY <1>1, FromProperties DEF IInv
<1>4. /\ modules' = [modules EXCEPT ![a] = 0]
      /\ objects' = [objects EXCEPT ![n].alive = FALSE]
      /\ begin' = From(begin + 1)
  BY DEF EraseAtBegin
<1>5. /\ objects' \in Seq(Object) /\ Len(objects') = Len(objects)
      /\ \A m \in 1..Len(objects) :
            /\ objects'[m].type = objects[m].type
            /\ objects'[m].alive <=> objects[m].alive /\ m # n
  BY <1>4, KillStep DEF IInv, Types
<1>6. /\ modules \in [Apis -> 0..Len(objects)] /\ Len(objects) \in Nat
      /\ modules' \in [Apis -> 0..Len(objects)]
      /\ \A b \in Apis : modules'[b] = IF b = a THEN 0 ELSE modules[b]
  BY <1>2, <1>4, LenProperties DEF IInv, Types
<1>7. calls = <<>> /\ calls' = <<>> /\ Len(calls) = 0 /\ InCalls = {} /\ InCalls' = {}
  BY DEF IInv, Behind, InCalls
<1>8. Types'
  <2>1. ASSUME NEW b \in Apis, modules'[b] # 0
        PROVE  ApiOf[objects'[modules'[b]].type] = b
    <3>1. modules'[b] = modules[b] /\ modules[b] \in 1..Len(objects)
      BY <1>6, <2>1
    <3>2. QED
      BY <1>5, <2>1, <3>1 DEF IInv, Types
  <2>2. begin' \in 1..End
    BY <1>1, <1>3, <1>4
  <2>3. calls' \in Seq(Call(Len(objects')))
    BY <1>7
  <2>4. QED
    BY <1>5, <1>6, <2>1, <2>2, <2>3 DEF IInv, Types, ComponentsTypeOK, End
<1>9. \A m \in 1..Len(objects) : m \in InSlots' <=> m \in InSlots /\ m # n
  <2>1. ASSUME NEW m \in 1..Len(objects), m \in InSlots'
        PROVE  m \in InSlots /\ m # n
    <3>1. PICK b \in Apis : m = modules'[b]
      BY <2>1 DEF InSlots
    <3>2. b # a /\ m = modules[b] /\ m # 0
      BY <1>6, <3>1
    <3>3. m # n
      BY <1>2, <3>2 DEF IInv, Types
    <3>4. QED
      BY <3>2, <3>3 DEF InSlots
  <2>2. ASSUME NEW m \in 1..Len(objects), m \in InSlots, m # n
        PROVE  m \in InSlots'
    <3>1. PICK b \in Apis : m = modules[b]
      BY <2>2 DEF InSlots
    <3>2. modules'[b] = m
      BY <1>6, <2>2, <3>1
    <3>3. QED
      BY <3>2 DEF InSlots
  <2>3. QED
    BY <2>1, <2>2
<1>10. Places'
  BY <1>5, <1>7, <1>9 DEF IInv, Places
<1>11. Nested'
  BY <1>7 DEF Nested, Ascending, ArrivedLater
<1>12. QED
  BY <1>1, <1>3, <1>4, <1>6, <1>8, <1>10, <1>11

LEMMA FirstLoopStep ==
  ASSUME IInv, FirstLoop
  PROVE  IInv' /\ modules'[EventManager] = modules[EventManager]
<1>1. /\ pass = 1 /\ begin # End
      /\ UNCHANGED <<event_manager, calls, order, pass, contents, answer>>
      /\ calls = <<>>
  BY DEF FirstLoop, IInv, Behind
<1>2. EventManager \in Apis
  BY ContextAssumption DEF ContextAssumption
<1>3. CASE order[begin] = EventManager
  <2>1. begin' = From(begin + 1) /\ UNCHANGED <<modules, objects>>
    BY <1>3 DEF FirstLoop
  <2>2. begin \in 1..End /\ begin + 1 \in 1..End /\ begin \in Nat
    BY <1>1, OneInEnd DEF IInv, Types
  <2>3. /\ From(begin + 1) \in begin + 1..End
        /\ \A j \in begin + 1..From(begin + 1) - 1 : modules[order[j]] = 0
    BY <2>2, FromProperties DEF IInv
  <2>4. begin' \in 1..End
    BY <2>1, <2>2, <2>3
  <2>5. Types'
    BY <1>1, <2>1, <2>4 DEF IInv, Types, ComponentsTypeOK, End
  <2>6. Places' /\ Nested'
    BY <1>1, <2>1 DEF IInv, Places, InSlots, InCalls, Nested, Ascending, ArrivedLater
  <2>7. Cached'
    BY <1>1, <2>1 DEF IInv, Cached
  <2>8. ASSUME NEW j \in 1..begin' - 1, order[j] # EventManager
        PROVE  modules[order[j]] = 0
    <3>1. CASE j \in 1..begin - 1
      BY <1>1, <2>8, <3>1 DEF IInv, Behind
    <3>2. CASE j \in begin + 1..begin' - 1
      BY <2>1, <2>3, <3>2
    <3>3. j # begin
      BY <1>3, <2>8
    <3>4. QED
      BY <2>1, <2>2, <2>3, <3>1, <3>2, <3>3
  <2>9. Behind'
    BY <1>1, <2>1, <2>8 DEF Behind
  <2>10. QED
    BY <2>1, <2>5, <2>6, <2>7, <2>9 DEF IInv
<1>4. CASE order[begin] # EventManager
  <2>1. EraseAtBegin
    BY <1>4 DEF FirstLoop
  <2>2. /\ Types' /\ Places' /\ Nested'
        /\ \A a \in Apis : modules'[a] = IF a = order[begin] THEN 0 ELSE modules[a]
        /\ begin' \in begin + 1..End /\ begin \in Nat
        /\ \A j \in begin + 1..begin' - 1 : modules[order[j]] = 0
    BY <1>1, <2>1, EraseAtBeginStep
  <2>3. modules'[EventManager] = modules[EventManager]
    BY <1>2, <1>4, <2>2
  <2>4. Cached'
    BY <1>1, <2>3 DEF IInv, Cached
  <2>5. ASSUME NEW j \in 1..begin' - 1, order[j] # EventManager
        PROVE  modules'[order[j]] = 0
    <3>1. End \in Nat /\ End = Len(order) + 1 /\ Len(order) \in Nat
      BY OneInEnd, OrderIsSeq DEF IInv, Types
    <3>2. j \in 1..Len(order)
      <4>1. begin' \in Nat /\ begin' <= Len(order) + 1
        BY <2>2, <3>1
      <4>2. ASSUME NEW b \in Nat, NEW l \in Nat, b <= l + 1, NEW i \in 1..b - 1
            PROVE  i \in 1..l
        BY <4>2
      <4>3. QED
        BY <3>1, <4>1, <4>2
    <3>3. order[j] \in Apis
      BY <3>2, OrderIsSeq DEF IInv, Types
    <3>4. CASE j \in 1..begin - 1
      <4>1. modules[order[j]] = 0
        BY <1>1, <2>5, <3>4 DEF IInv, Behind
      <4>2. QED
        BY <2>2, <3>3, <4>1
    <3>5. CASE j \in begin + 1..begin' - 1
      BY <2>2, <3>3, <3>5
    <3>6. CASE j = begin
      BY <2>2, <3>3, <3>6
    <3>7. QED
      BY <2>2, <3>4, <3>5, <3>6
  <2>6. Behind'
    BY <1>1, <2>5 DEF Behind
  <2>7. QED
    BY <2>2, <2>3, <2>4, <2>6 DEF IInv
<1>5. QED
  BY <1>3, <1>4

LEMMA SecondLoopStep ==
  ASSUME IInv, SecondLoop
  PROVE  /\ IInv'
         /\ modules'[EventManager] # modules[EventManager] =>
               \A a \in Apis : modules'[a] = 0
<1>1. /\ pass = 2 /\ begin # End /\ EraseAtBegin /\ calls = <<>>
      /\ UNCHANGED <<event_manager, calls, order, pass, contents, answer>>
  BY DEF SecondLoop, IInv, Behind
<1>2. EventManager \in Apis
  BY ContextAssumption DEF ContextAssumption
<1>3. /\ Types' /\ Places' /\ Nested'
      /\ \A a \in Apis : modules'[a] = IF a = order[begin] THEN 0 ELSE modules[a]
  BY <1>1, EraseAtBeginStep
<1>4. \A a \in Apis \ {EventManager} : modules'[a] = 0
  BY <1>1, <1>3 DEF IInv, Behind
<1>5. modules'[EventManager] \in {0, modules[EventManager]}
  BY <1>2, <1>3
<1>6. Cached'
  BY <1>1, <1>5 DEF IInv, Cached
<1>7. Behind'
  BY <1>1, <1>4 DEF Behind
<1>8. modules'[EventManager] # modules[EventManager] => \A a \in Apis : modules'[a] = 0
  BY <1>4, <1>5
<1>9. QED
  BY <1>3, <1>6, <1>7, <1>8 DEF IInv

LEMMA LoopEndsStep ==
  ASSUME IInv, LoopEnds
  PROVE  IInv' /\ ComponentStep
<1>1. /\ pass \in {1, 2} /\ begin = End /\ pass' = pass + 1 /\ begin' = From(1)
      /\ UNCHANGED <<objects, modules, event_manager, calls, order>>
      /\ calls = <<>>
  BY DEF LoopEnds, IInv, Behind
<1>2. From(1) \in 1..End
  BY OneInEnd, FromProperties DEF IInv
<1>3. ComponentStep
  <2>1. CASE pass = 2
    <3>1. contents' = [b \in Bases |-> NoComponent] /\ answer' = "removed"
      BY <2>1 DEF LoopEnds
    <3>2. QED
      BY <3>1 DEF ComponentStep, ComponentsTypeOK, Answers
  <2>2. CASE pass = 1
    BY <2>2, NothingChanged DEF LoopEnds, IInv, Types, ComponentsTypeOK
  <2>3. QED
    BY <1>1, <2>1, <2>2
<1>4. Types'
  BY <1>1, <1>2, <1>3 DEF IInv, Types, ComponentStep, End
<1>5. Places' /\ Nested'
  BY <1>1, SamePlaces
<1>6. Cached'
  BY <1>1 DEF IInv, Cached
<1>7. \A a \in Apis \ {EventManager} : modules[a] = 0
  <2>1. CASE pass = 1
    <3>1. ASSUME NEW a \in Apis \ {EventManager}
          PROVE  modules[a] = 0
      <4>1. PICK j \in 1..Cardinality(Apis) : order[j] = a
        BY OrderIsOnto DEF IInv, Types
      <4>2. j \in 1..begin - 1
        BY <1>1, OneInEnd, OrderIsSeq DEF IInv, Types
      <4>3. QED
        BY <2>1, <4>1, <4>2 DEF IInv, Behind
    <3>2. QED
      BY <3>1
  <2>2. CASE pass = 2
    BY <2>2 DEF IInv, Behind
  <2>3. QED
    BY <1>1, <2>1, <2>2
<1>8. Behind'
  BY <1>1, <1>7 DEF Behind
<1>9. QED
  BY <1>3, <1>4, <1>5, <1>6, <1>8 DEF IInv

LEMMA CallEndsNext ==
  ASSUME IInv, ThrowInConstructor \/ FinishDestroy
  PROVE  IInv' /\ UNCHANGED modules
  BY CallEndsStep DEF ThrowInConstructor, FinishDestroy, Under, Answers

\* What the steps do to a slot that is taken.
SlotStep ==
    /\ \A a \in Apis : modules[a] # 0 /\ modules'[a] \notin {0, modules[a]}
                          => modules'[a] < modules[a]
    /\ pass # 0 /\ modules[EventManager] # 0 /\ modules'[EventManager] = 0
          => \A a \in Apis : modules'[a] = 0

LEMMA NextStep ==
  ASSUME IInv, [Next]_vars
  PROVE  IInv' /\ SlotStep /\ (ComponentStep \/ UNCHANGED contents)
<1>1. EventManager \in Apis
  BY ContextAssumption DEF ContextAssumption
<1>2. ASSUME UNCHANGED modules
      PROVE  SlotStep
  BY <1>1, <1>2 DEF SlotStep
<1>3. CASE UNCHANGED vars
  <2>1. UNCHANGED <<objects, calls, modules, event_manager, order, pass, begin, contents, answer>>
    BY <1>3 DEF vars
  <2>2. Types'
    BY <2>1 DEF IInv, Types, ComponentsTypeOK, End
  <2>3. Places' /\ Nested'
    BY <2>1, SamePlaces
  <2>4. Cached' /\ Behind'
    BY <2>1 DEF IInv, Cached, Behind
  <2>5. QED
    BY <1>2, <2>1, <2>2, <2>3, <2>4 DEF IInv
<1>4. ASSUME NEW t \in ModuleTypes, Load(t)
      PROVE  IInv' /\ SlotStep /\ UNCHANGED contents
  BY <1>2, <1>4, LoadStep DEF Load
<1>5. ASSUME NEW t \in ModuleTypes, Unload(t)
      PROVE  IInv' /\ SlotStep /\ UNCHANGED contents
  <2>1. ApiOf[t] \in Apis /\ modules \in [Apis -> 0..Len(objects)]
    BY ApisFinite DEF IInv, Types
  <2>2. pass = 0 /\ \A a \in Apis : modules'[a] \in {0, modules[a]}
    BY <1>5, <2>1 DEF Unload
  <2>3. QED
    BY <1>5, <2>2, UnloadStep DEF SlotStep, Unload
<1>6. CASE ThrowInConstructor \/ FinishDestroy
  BY <1>2, <1>6, CallEndsNext DEF ThrowInConstructor, FinishDestroy
<1>7. CASE FinishConstruct
  <2>1. pass = 0
    BY <1>7 DEF FinishConstruct, Under, IInv, Behind
  <2>2. QED
    BY <1>7, <2>1, FinishConstructStep DEF SlotStep, FinishConstruct
<1>8. CASE UseComponents
  BY <1>2, <1>8, UseComponentsStep DEF UseComponents
<1>9. CASE BeginDestruct
  BY <1>2, <1>9, BeginDestructStep DEF BeginDestruct
<1>10. CASE FirstLoop
  <2>1. \A a \in Apis : modules'[a] \in {0, modules[a]}
    <3>1. CASE order[begin] = EventManager
      BY <1>10, <3>1 DEF FirstLoop
    <3>2. CASE order[begin] # EventManager
      <4>1. pass \in {1, 2} /\ begin # End /\ EraseAtBegin
            /\ UNCHANGED <<event_manager, calls, order, pass, contents, answer>>
        BY <1>10, <3>2 DEF FirstLoop
      <4>2. QED
        BY <4>1, EraseAtBeginStep
    <3>3. QED
      BY <3>1, <3>2
  <2>2. QED
    BY <1>10, <2>1, FirstLoopStep DEF SlotStep, FirstLoop
<1>11. CASE SecondLoop
  <2>1. /\ pass \in {1, 2} /\ begin # End /\ EraseAtBegin
        /\ UNCHANGED <<event_manager, calls, order, pass, contents, answer>>
    BY <1>11 DEF SecondLoop
  <2>2. \A a \in Apis : modules'[a] \in {0, modules[a]}
    BY <2>1, EraseAtBeginStep
  <2>3. QED
    BY <1>11, <2>1, <2>2, SecondLoopStep DEF SlotStep
<1>12. CASE LoopEnds
  BY <1>2, <1>12, LoopEndsStep DEF LoopEnds
<1>13. QED
  BY <1>3, <1>4, <1>5, <1>6, <1>7, <1>8, <1>9, <1>10, <1>11, <1>12
     DEF Next, Destructing

----------------------------------------------------------------------------
(* The theorems                                                            *)

\* What the proofs about Context rest on is invariant: load(), unload(), ~irc()
\* and the component container keep it at any depth.
THEOREM Invariance == Spec => []IInv
<1>1. Init => IInv
  BY InitIInv
<1>2. IInv /\ [Next]_vars => IInv'
  BY NextStep
<1>3. QED
  BY <1>1, <1>2, PTL DEF Spec

\* The variables have their types, for any module and component types.
THEOREM TypeCorrect == Spec => []TypeOK
<1>1. IInv => TypeOK
  <2> SUFFICES ASSUME IInv
               PROVE  TypeOK
    OBVIOUS
  <2>1. \A n \in DOMAIN objects : objects[n].type \in Loadable /\ objects[n].alive \in BOOLEAN
    <3>1. \A n \in DOMAIN objects : objects[n] \in Object
      BY LenProperties, ElementOfSeq DEF IInv, Types
    <3>2. QED
      BY <3>1 DEF Object
  <2>2. QED
    BY <2>1 DEF IInv, Types, TypeOK
<1>2. QED
  BY <1>1, Invariance, PTL

\* event_manager() is the module get<apis::event_manager>() finds, and alive,
\* through nested loads and unloads of any depth and while ~irc() unloads the
\* other modules (irc.hpp:191, 258-259, 283; irc.cpp:71-75).
THEOREM CacheIsCoherent == Spec => []CacheCoherent
<1>1. IInv => CacheCoherent
  <2> SUFFICES ASSUME IInv
               PROVE  CacheCoherent
    OBVIOUS
  <2>1. EventManager \in Apis /\ EventManager \in ModuleTypes /\ ApiOf[EventManager] = EventManager
    BY ManagerIsItsApi
  <2>2. modules[EventManager] # 0 => Get(EventManager) = modules[EventManager]
    <3>1. ASSUME modules[EventManager] # 0
          PROVE  <<objects[modules[EventManager]].type, EventManager>> \in ModuleIsA
      <4>1. modules[EventManager] \in 1..Len(objects)
        BY <2>1, <3>1, SlotIsObject DEF IInv
      <4>2. /\ objects[modules[EventManager]].type \in ModuleTypes
            /\ ApiOf[objects[modules[EventManager]].type] = EventManager
        BY <2>1, <3>1, <4>1, TypeInApis, ContextAssumption DEF IInv, Types, ContextAssumption
      <4>3. QED
        BY <4>2, ContextAssumption DEF ContextAssumption
    <3>2. QED
      BY <2>1, <3>1 DEF Get, Fits, Found
  <2>3. modules[EventManager] = 0 => Get(EventManager) = 0
    BY <2>1 DEF Get, Fits, Found
  <2>4. pass \in {0, 1} \/ Get(EventManager) # 0 => event_manager = Get(EventManager)
    BY <2>2, <2>3 DEF IInv, Cached
  <2>5. ASSUME event_manager # 0, pass \in {0, 1}
        PROVE  objects[event_manager].alive
    <3>1. event_manager = modules[EventManager]
      BY <2>5 DEF IInv, Cached
    <3>2. event_manager \in 1..Len(objects) /\ event_manager \in InSlots
      BY <2>1, <2>5, <3>1, SlotIsObject DEF IInv, InSlots
    <3>3. QED
      BY <3>2 DEF IInv, Places
  <2>6. QED
    BY <2>4, <2>5 DEF CacheCoherent
<1>2. QED
  BY <1>1, Invariance, PTL

\* A module is destroyed exactly once and never lost, however constructors and
\* destructors nest and throw (irc.hpp:113-145, 177-198; irc.cpp:32-75).
THEOREM EveryModuleIsOwned == Spec => []Owned
<1>1. IInv => Owned
  <2> SUFFICES ASSUME IInv, NEW n \in DOMAIN objects
               PROVE  LET places == {a \in Apis : modules[a] = n}
                                    \cup {k \in DOMAIN calls : calls[k].object = n}
                      IN Cardinality(places) = IF objects[n].alive THEN 1 ELSE 0
    BY DEF Owned
  <2> DEFINE slots == {a \in Apis : modules[a] = n}
             frames == {k \in DOMAIN calls : calls[k].object = n}
  <2>1. n \in 1..Len(objects) /\ n # 0 /\ DOMAIN calls = 1..Len(calls)
    BY LenProperties DEF IInv, Types
  <2>2. n \in InSlots <=> slots # {}
    BY DEF InSlots
  <2>3. n \in InCalls <=> frames # {}
    BY <2>1 DEF InCalls
  <2>4. \A a, b \in slots : a = b
    BY <2>1 DEF IInv, Types
  <2>5. \A i, j \in frames : i = j
    BY <2>1 DEF IInv, Places
  <2>6. objects[n].alive <=> slots # {} \/ frames # {}
    BY <2>1, <2>2, <2>3 DEF IInv, Places
  <2>7. slots = {} \/ frames = {}
    BY <2>1, <2>2, <2>3 DEF IInv, Places
  <2> HIDE DEF slots, frames
  <2>8. CASE slots # {}
    <3>1. PICK a : slots \cup frames = {a}
      BY <2>4, <2>7, <2>8
    <3>2. QED
      BY <2>6, <2>8, <3>1, FS_Singleton DEF slots, frames
  <2>9. CASE frames # {}
    <3>1. PICK k : slots \cup frames = {k}
      BY <2>5, <2>7, <2>9
    <3>2. QED
      BY <2>6, <2>9, <3>1, FS_Singleton DEF slots, frames
  <2>10. CASE slots = {} /\ frames = {}
    <3>1. slots \cup frames = {}
      BY <2>10
    <3>2. QED
      BY <2>6, <2>10, <3>1, FS_EmptySet DEF slots, frames
  <2>11. QED
    BY <2>8, <2>9, <2>10
<1>2. QED
  BY <1>1, Invariance, PTL

\* A loaded module gives way only to one whose constructor ran when it was
\* loaded, at any depth (irc.hpp:113-116, 135; irc.cpp:64).
THEOREM ModulesNotReplaced == Spec => NotReplaced
<1>1. IInv /\ [Next]_vars =>
         [\A a \in Apis : modules[a] # 0 /\ modules'[a] \notin {0, modules[a]}
                            => modules'[a] < modules[a]]_vars
  BY NextStep DEF SlotStep
<1>2. QED
  BY <1>1, Invariance, PTL DEF Spec, NotReplaced

\* ~irc() unloads the event manager last, in whichever order std::map iterates
\* over the types (irc.hpp:93-95; irc.cpp:36-50).
THEOREM EventManagerLast == Spec => ManagerLast
<1>1. IInv /\ [Next]_vars =>
         [pass # 0 /\ modules[EventManager] # 0 /\ modules'[EventManager] = 0
            => \A a \in Apis : modules'[a] = 0]_vars
  BY NextStep DEF SlotStep
<1>2. QED
  BY <1>1, Invariance, PTL DEF Spec, ManagerLast

\* References to components stay good until they are removed, for any types
\* (component_container.hpp:127-129, 166-171, 360).
THEOREM ComponentReferencesStay == Spec => ReferencesStay
<1>1. IInv /\ [Next]_vars =>
         [/\ answer' \notin {"reference", "removed"} => UNCHANGED contents
          /\ \A b \in Bases :
                contents[b] # NoComponent /\ contents'[b] # contents[b]
                   => answer' = "removed" /\ contents'[b] = NoComponent]_componentVars
  BY NextStep DEF ComponentStep
<1>2. QED
  BY <1>1, Invariance, PTL DEF Spec, ReferencesStay

===============================================================================
