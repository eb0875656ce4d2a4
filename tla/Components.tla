------------------------------ MODULE Components ------------------------------
(***************************************************************************)
(* slirc::component_container: components by their base type, at most one  *)
(* of each.  A component can be of a type derived from its base, and a     *)
(* call asks for a base or for a derived type.                             *)
(***************************************************************************)
CONSTANTS
    ComponentTypes, \* types of components
    ComponentBase,  \* ComponentBase[t]: t's component_base_type
    DerivedFrom,    \* the pairs <<t, u>> where t is u or derived from it
    NoComponent     \* an empty slot

ASSUME ComponentsAssumption ==
    /\ ComponentBase \in [ComponentTypes -> ComponentTypes]
    /\ DerivedFrom \subseteq ComponentTypes \X ComponentTypes
    /\ \A t \in ComponentTypes : <<t, t>> \in DerivedFrom /\ <<t, ComponentBase[t]>> \in DerivedFrom
    /\ \A p \in DerivedFrom : ComponentBase[p[1]] = ComponentBase[p[2]]
    /\ \A p, q \in DerivedFrom : p[2] = q[1] => <<p[1], q[2]>> \in DerivedFrom
    /\ NoComponent \notin ComponentTypes

VARIABLES
    contents, \* the type of the component in the slot of each base type
    answer    \* how the last call ended

componentVars == <<contents, answer>>

Bases   == {ComponentBase[t] : t \in ComponentTypes}
Answers == {"none", "reference", "nullptr", "removed", "not found",
            "out_of_range", "conflict"}

ComponentsInit ==
    /\ contents = [b \in Bases |-> NoComponent]
    /\ answer = "none"

\* find_<Component>(): what is in the slot of Component's base.
Stored(t) == contents[ComponentBase[t]]

\* The dynamic_cast to Component of what is stored.
Compatible(t) == <<Stored(t), t>> \in DerivedFrom

\* insert_(): into the slot, over whatever is there.
InsertUnchecked(t) ==
    /\ contents' = [contents EXCEPT ![ComponentBase[t]] = t]
    /\ answer' = "reference"

\* insert().
Insert(t) ==
    \/ Stored(t) # NoComponent /\ answer' = "conflict" /\ UNCHANGED contents
    \/ Stored(t) = NoComponent /\ InsertUnchecked(t)

\* at().
At(t) ==
    /\ UNCHANGED contents
    /\ answer' = IF Stored(t) = NoComponent THEN "out_of_range"
                 ELSE IF Compatible(t) THEN "reference" ELSE "conflict"

\* Variant: every exception of at() is taken for a missing component.
AtOrInsertAnyway(t, new) ==
    IF Compatible(t) THEN At(t) ELSE InsertUnchecked(new)

\* at_or_insert(): new is t or derived from it.
AtOrInsert(t, new) ==
    IF Stored(t) = NoComponent THEN InsertUnchecked(new) ELSE At(t)

\* find(), which has() turns into a bool.
Find(t) ==
    /\ UNCHANGED contents
    /\ answer' = IF Compatible(t) THEN "reference" ELSE "nullptr"

\* remove().
RemoveComponent(t) ==
    \/ /\ Stored(t) = NoComponent
       /\ answer' = "not found" /\ UNCHANGED contents
    \/ /\ Stored(t) # NoComponent /\ Compatible(t)
       /\ contents' = [contents EXCEPT ![ComponentBase[t]] = NoComponent]
       /\ answer' = "removed"
    \/ /\ Stored(t) # NoComponent /\ ~Compatible(t)
       /\ answer' = "conflict" /\ UNCHANGED contents

\* A call asks for t.
CallFor(t) ==
    \/ Insert(t) \/ At(t) \/ Find(t) \/ RemoveComponent(t)
    \/ \E new \in ComponentTypes : <<new, t>> \in DerivedFrom /\ AtOrInsert(t, new)

ComponentsNext == \E t \in ComponentTypes : CallFor(t)

----------------------------------------------------------------------------
(* Properties                                                              *)

ComponentsTypeOK ==
    /\ contents \in [Bases -> ComponentTypes \cup {NoComponent}]
    /\ \A b \in Bases : contents[b] # NoComponent => ComponentBase[contents[b]] = b
    /\ answer \in Answers

\* A call that is refused changes nothing and a component is never replaced by
\* another one, so a reference that at(), insert() or at_or_insert() returned
\* stays good until remove() says true: event::afterwards() and handle() keep
\* such references (component_container.hpp:127-129, 166-171, 360;
\* event.cpp:104-106).
ReferencesStay ==
    [][/\ answer' \notin {"reference", "removed"} => UNCHANGED contents
       /\ \A b \in Bases :
             contents[b] # NoComponent /\ contents'[b] # contents[b]
                => answer' = "removed" /\ contents'[b] = NoComponent]_componentVars
===============================================================================
