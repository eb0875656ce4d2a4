----------------------------- MODULE EventIdType -----------------------------
(***************************************************************************)
(* slirc::event::id_type: a value of one of the registered enum types, or  *)
(* the invalid id.  A type is its number in the order of std::type_index,  *)
(* counted from 1; the empty optional is 0, which is less than any other.  *)
(***************************************************************************)
EXTENDS Naturals

CONSTANTS
    Enums,  \* the enum types registered with SLIRC_REGISTER_EVENT_ID_ENUM
    Values, \* their values
    HashOf  \* HashOf[e][v]: the hash of type e combined with the one of value v

ASSUME EventIdTypeAssumption ==
    /\ Enums \subseteq Nat \ {0}
    /\ Values \subseteq Nat
    /\ HashOf \in [Enums -> [Values -> Nat]]

\* id_type(): no type, value 0.
Invalid == [index |-> 0, id |-> 0]

\* id_type(IdType id).
FromEnum(enum, value) == [index |-> enum, id |-> value]

IdTypes == {Invalid} \cup {FromEnum(e, v) : e \in Enums, v \in Values}

\* Variant: only the values are compared.
EqualValues(lhs, rhs) == lhs.id = rhs.id

\* operator==, and operator!= as its negation.
Equal(lhs, rhs) == lhs.id = rhs.id /\ lhs.index = rhs.index

\* operator bool, and operator! as its negation.
IsValid(i) == ~Equal(i, Invalid)

\* is_of_type<IdType>().
IsOfType(i, enum) == i.index # 0 /\ i.index = enum

\* get<IdType>(): nothing for another type, where it throws std::bad_cast.
Get(i, enum) == {v \in {i.id} : IsOfType(i, enum)}

\* std::less<id_type>.
Less(lhs, rhs) ==
    IF lhs.index # rhs.index THEN lhs.index < rhs.index ELSE lhs.id < rhs.id

\* std::hash<id_type>.
Hash(i) == IF i.index = 0 THEN 0 ELSE HashOf[i.index][i.id]

\* What both kinds of map need of their keys: std::less is a strict order,
\* total over what operator== distinguishes, and equal ids have one hash.
AreKeys(ids) ==
    \A i, j \in ids :
        /\ Equal(i, j) <=> i = j
        /\ ~Equal(i, j) <=> Less(i, j) \/ Less(j, i)
        /\ ~(Less(i, j) /\ Less(j, i))
        /\ Equal(i, j) => Hash(i) = Hash(j)
        /\ \A k \in ids : Less(i, j) /\ Less(j, k) => Less(i, k)

\* Only the default id is invalid, and a value is had only under the type it
\* was made of, also the value 0 that the invalid id has too.
KeepType(ids) ==
    \A i \in ids :
        /\ IsValid(i) <=> \E e \in Enums : Get(i, e) # {}
        /\ \A e, f \in Enums : e = f \/ Get(i, e) = {} \/ Get(i, f) = {}
==============================================================================
