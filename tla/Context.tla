------------------------------- MODULE Context -------------------------------
(***************************************************************************)
(* An irc context: its modules, at most one for each api, the pointer it   *)
(* keeps to the event manager, and its components.                         *)
(*                                                                         *)
(* The constructor of a module, and its destructor when unload() runs it,  *)
(* may load and unload modules, so the calls nest.  The destructors that   *)
(* ~irc() and load_() run do not: a module unloaded there can be the one   *)
(* an iterator of ~irc() is at (see the README).                           *)
(***************************************************************************)
EXTENDS Components, Naturals, FiniteSets, Sequences, SequencesExt

CONSTANTS
    ModuleTypes, \* types that load(), unload(), find() and get() are given
    Loadable,    \* those that are not abstract
    ApiOf,       \* ApiOf[t]: t's module_base_api_type
    ModuleIsA,   \* the pairs <<t, u>> where t is u or derived from it
    EventManager,\* apis::event_manager
    FirstManager,\* modules::event_manager
    MaxObjects,  \* bound on the modules constructed
    MaxDepth     \* bound on the constructors and destructors under way

Apis == {ApiOf[t] : t \in ModuleTypes}

ASSUME ContextAssumption ==
    /\ IsFiniteSet(ModuleTypes) /\ Loadable \subseteq ModuleTypes
    /\ ApiOf \in [ModuleTypes -> ModuleTypes]
    /\ ModuleIsA \subseteq ModuleTypes \X ModuleTypes
    /\ \A t \in ModuleTypes : <<t, t>> \in ModuleIsA /\ <<t, ApiOf[t]>> \in ModuleIsA
    /\ \A p \in ModuleIsA : ApiOf[p[1]] = ApiOf[p[2]]
    /\ EventManager \in Apis /\ FirstManager \in Loadable /\ ApiOf[FirstManager] = EventManager
    /\ MaxObjects \in Nat \ {0} /\ MaxDepth \in Nat

VARIABLES
    objects,       \* the modules constructed: their types, and which are alive
    modules,       \* modules_: the module of each api, 0 for none
    event_manager, \* event_manager_, 0 for nullptr
    calls,         \* the constructors and destructors under way, innermost last
    order,         \* the order of std::type_index, in which modules_ is iterated
    pass,          \* 0: in use; 1, 2: the loops of ~irc(); 3: destroyed
    begin          \* the iterator of ~irc(), a position in order

vars == <<objects, modules, event_manager, calls, order, pass, begin, contents, answer>>

\* irc(): loads modules::event_manager.
Init ==
    /\ objects = <<[type |-> FirstManager, alive |-> TRUE]>>
    /\ modules = [a \in Apis |-> IF a = EventManager THEN 1 ELSE 0]
    /\ event_manager = 1
    /\ calls = <<>>
    /\ order \in SetToSeqs(Apis)
    /\ pass = 0 /\ begin = 1
    /\ ComponentsInit

----------------------------------------------------------------------------
(* load()                                                                  *)

\* find_<Module>(): the module of Module's api, whatever its type.
Found(t) == modules[ApiOf[t]]

\* Variant: load() counts on load_() for the check.
LoadUnchecked(t) ==
    /\ pass = 0 /\ t \in Loadable
    /\ Len(objects) < MaxObjects /\ Len(calls) < MaxDepth
    /\ objects' = Append(objects, [type |-> t, alive |-> TRUE])
    /\ calls' = Append(calls, [doing |-> "construct", object |-> Len(objects) + 1])
    /\ UNCHANGED <<modules, event_manager, order, pass, begin, contents, answer>>

\* load() is called: the constructor begins, unless the api is taken.
Load(t) ==
    /\ pass = 0 /\ t \in Loadable
    /\ IF Found(t) # 0
       THEN answer' = "conflict" /\ UNCHANGED <<objects, calls>>
       ELSE /\ Len(objects) < MaxObjects /\ Len(calls) < MaxDepth
            /\ objects' = Append(objects, [type |-> t, alive |-> TRUE])
            /\ calls' = Append(calls, [doing |-> "construct", object |-> Len(objects) + 1])
            /\ UNCHANGED answer
    /\ UNCHANGED <<modules, event_manager, order, pass, begin, contents>>

Under(doing) == calls # <<>> /\ Last(calls).doing = doing

\* The constructor throws: load() passes the exception on.
ThrowInConstructor ==
    /\ Under("construct")
    /\ objects' = [objects EXCEPT ![Last(calls).object].alive = FALSE]
    /\ calls' = Front(calls) /\ answer' = "none"
    /\ UNCHANGED <<modules, event_manager, order, pass, begin, contents>>

\* Variant: the module that is there stays, and the new one is lost.
LoadIntoFree(a, n) ==
    /\ modules' = [modules EXCEPT ![a] = IF @ = 0 THEN n ELSE @]
    /\ UNCHANGED objects

\* load_() with its assertions compiled out: a module that came to the slot
\* while this one was constructed is destroyed.
LoadInto(a, n) ==
    /\ modules' = [modules EXCEPT ![a] = n]
    /\ objects' = [m \in DOMAIN objects |->
                     IF m = modules[a] THEN [objects[m] EXCEPT !.alive = FALSE] ELSE objects[m]]

\* The constructor has returned.
FinishConstruct ==
    /\ Under("construct")
    /\ LET n == Last(calls).object
           a == ApiOf[objects[n].type]
       IN /\ LoadInto(a, n)
          /\ event_manager' = IF a = EventManager THEN n ELSE event_manager
    /\ calls' = Front(calls) /\ answer' = "reference"
    /\ UNCHANGED <<order, pass, begin, contents>>

----------------------------------------------------------------------------
(* unload(), find() and get()                                              *)

\* The dynamic_cast to Module of what was found.
Fits(t) == Found(t) # 0 /\ <<objects[Found(t)].type, t>> \in ModuleIsA

\* Variant: what is unloaded by its api goes without event_manager_.
ForgetExact(t) == event_manager' = IF t = FirstManager THEN 0 ELSE event_manager

\* event_manager_ goes with the event manager.
Forget(t) == event_manager' = IF ApiOf[t] = EventManager THEN 0 ELSE event_manager

\* unload() is called: the module leaves the map, then its destructor begins.
Unload(t) ==
    /\ pass = 0
    /\ IF Fits(t)
       THEN /\ Len(calls) < MaxDepth
            /\ Forget(t)
            /\ modules' = [modules EXCEPT ![ApiOf[t]] = 0]
            /\ calls' = Append(calls, [doing |-> "destroy", object |-> Found(t)])
            /\ UNCHANGED answer
       ELSE /\ answer' = IF Found(t) = 0 THEN "not found" ELSE "conflict"
            /\ UNCHANGED <<modules, event_manager, calls>>
    /\ UNCHANGED <<objects, order, pass, begin, contents>>

\* The destructor has returned, and so does unload().
FinishDestroy ==
    /\ Under("destroy")
    /\ objects' = [objects EXCEPT ![Last(calls).object].alive = FALSE]
    /\ calls' = Front(calls) /\ answer' = "removed"
    /\ UNCHANGED <<modules, event_manager, order, pass, begin, contents>>

\* What get() returns, and find(), with nullptr where get() throws.
Get(t) == IF Fits(t) THEN Found(t) ELSE 0

\* The components of the context are used.
UseComponents ==
    /\ pass = 0 /\ ComponentsNext
    /\ UNCHANGED <<objects, modules, event_manager, calls, order, pass, begin>>

----------------------------------------------------------------------------
(* ~irc()                                                                  *)

End == Len(order) + 1

\* The iterator at the first module from position p on.
From(p) ==
    CHOOSE k \in p .. End :
        /\ k # End => modules[order[k]] # 0
        /\ \A j \in p .. k - 1 : modules[order[j]] = 0

BeginDestruct ==
    /\ pass = 0 /\ calls = <<>>
    /\ pass' = 1 /\ begin' = From(1)
    /\ UNCHANGED <<objects, modules, event_manager, calls, order, contents, answer>>

\* erase(begin): the destructor runs, and the iterator goes on.
EraseAtBegin ==
    LET a == order[begin] IN
    /\ modules' = [modules EXCEPT ![a] = 0]
    /\ objects' = [objects EXCEPT ![modules[a]].alive = FALSE]
    /\ begin' = From(begin + 1)

\* Variant: the loop stays where it is at the event manager.
FirstLoopStays ==
    /\ pass = 1 /\ begin # End
    /\ IF order[begin] = EventManager THEN UNCHANGED <<begin, modules, objects>> ELSE EraseAtBegin
    /\ UNCHANGED <<event_manager, calls, order, pass, contents, answer>>

\* Variant: it spares nobody.
FirstLoopErases ==
    /\ pass = 1 /\ begin # End
    /\ EraseAtBegin
    /\ UNCHANGED <<event_manager, calls, order, pass, contents, answer>>

\* The first loop passes over the event manager.
FirstLoop ==
    /\ pass = 1 /\ begin # End
    /\ IF order[begin] = EventManager
       THEN begin' = From(begin + 1) /\ UNCHANGED <<modules, objects>>
       ELSE EraseAtBegin
    /\ UNCHANGED <<event_manager, calls, order, pass, contents, answer>>

SecondLoop ==
    /\ pass = 2 /\ begin # End
    /\ EraseAtBegin
    /\ UNCHANGED <<event_manager, calls, order, pass, contents, answer>>

\* A loop is through; the components go with the base class, after the second.
LoopEnds ==
    /\ pass \in {1, 2} /\ begin = End
    /\ pass' = pass + 1 /\ begin' = From(1)
    /\ contents' = IF pass = 2 THEN [b \in Bases |-> NoComponent] ELSE contents
    /\ answer' = IF pass = 2 THEN "removed" ELSE answer
    /\ UNCHANGED <<objects, modules, event_manager, calls, order>>

Destructing == FirstLoop \/ SecondLoop \/ LoopEnds

Next ==
    \/ \E t \in ModuleTypes : Load(t) \/ Unload(t)
    \/ ThrowInConstructor \/ FinishConstruct \/ FinishDestroy
    \/ UseComponents \/ BeginDestruct \/ Destructing

Spec == Init /\ [][Next]_vars

\* A destructor that runs goes on.
FairSpec == Spec /\ WF_vars(Destructing)

----------------------------------------------------------------------------
(* Properties                                                              *)

TypeOK ==
    /\ \A n \in DOMAIN objects : objects[n].type \in Loadable /\ objects[n].alive \in BOOLEAN
    /\ modules \in [Apis -> 0 .. Len(objects)]
    /\ \A a \in Apis : modules[a] # 0 => ApiOf[objects[modules[a]].type] = a
    /\ event_manager \in 0 .. Len(objects)
    /\ pass \in 0 .. 3 /\ begin \in 1 .. End
    /\ ComponentsTypeOK

\* event_manager() is get<apis::event_manager>() (irc.hpp:283): load(), a load
\* inside of the constructor of another event manager, unload() by any of its
\* types and a constructor that throws keep event_manager_ and modules_ in
\* step, and the destructors ~irc() runs still find the event manager.
CacheCoherent ==
    /\ pass \in {0, 1} \/ Get(EventManager) # 0 => event_manager = Get(EventManager)
    /\ event_manager # 0 /\ pass \in {0, 1} => objects[event_manager].alive

\* A module is alive exactly while it is in its slot or its constructor or
\* destructor runs, and only in one of these places: no constructor that
\* throws, nested load or unload loses one or destroys one twice, and none is
\* left when ~irc() is through (irc.hpp:138-140, irc.cpp:32-51).
Owned ==
    \A n \in DOMAIN objects :
        LET places == {a \in Apis : modules[a] = n} \cup {k \in DOMAIN calls : calls[k].object = n}
        IN Cardinality(places) = IF objects[n].alive THEN 1 ELSE 0

\* A module that is loaded is not replaced (irc.hpp:113-116) but by one whose
\* constructor was running when it was loaded: load() looks for the module
\* before it constructs the new one (irc.hpp:135, irc.cpp:64).
NotReplaced ==
    [][\A a \in Apis : modules[a] # 0 /\ modules'[a] \notin {0, modules[a]}
                          => modules'[a] < modules[a]]_vars

\* ~irc() unloads the event manager last (irc.hpp:93-95), wherever the order
\* of the types puts it.
ManagerLast ==
    [][pass # 0 /\ modules[EventManager] # 0 /\ modules'[EventManager] = 0
         => \A a \in Apis : modules'[a] = 0]_vars

\* ~irc() comes to its end with every module destroyed (irc.cpp:36-50).
DestructionEnds ==
    pass = 1 ~> pass = 3 /\ \A n \in DOMAIN objects : ~objects[n].alive
===============================================================================
