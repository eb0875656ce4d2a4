---------------------------- MODULE SignalsProofs ----------------------------
(***************************************************************************)
(* Proofs about the keys of the event manager's maps and about the calls   *)
(* of its signals, for all enums, all values, every hash function, any     *)
(* number of handlers and calls nested to any depth.                       *)
(***************************************************************************)
EXTENDS Signals, SequenceTheorems, WellFoundedInduction, TLAPS

Handler == [id : IdTypes, priority : Priorities, connected : BOOLEAN]
Object  == [emgr : {0, 1}, conn : Nat]

\* The part of the types that the keys depend on.
KeyTypes ==
    /\ handlers \in Seq(Handler)
    /\ objects \in [Objects -> Object]

----------------------------------------------------------------------------
(* The ids of events                                                       *)

LEMMA IdFields ==
  ASSUME NEW i \in IdTypes
  PROVE  /\ i = [index |-> i.index, id |-> i.id]
         /\ i.index \in Nat /\ i.id \in Nat
         /\ i.index = 0 => i.id = 0
         /\ i.index \in Enums \cup {0} /\ 0 \notin Enums
<1>1. Enums \subseteq Nat \ {0} /\ Values \subseteq Nat
  BY EventIdTypeAssumption DEF EventIdTypeAssumption
<1>2. CASE i = Invalid
  BY <1>1, <1>2 DEF Invalid
<1>3. CASE \E e \in Enums, v \in Values : i = FromEnum(e, v)
  BY <1>1, <1>3 DEF FromEnum
<1>4. QED
  BY <1>2, <1>3 DEF IdTypes

\* std::less<id_type> is a strict order that is total over what operator==
\* tells apart, and equal ids have one hash, whatever the enums, their values
\* and the hashes of a type are (event.hpp:274-368, 748-775).
LEMMA AllAreKeys == AreKeys(IdTypes)
<1> SUFFICES ASSUME NEW i \in IdTypes, NEW j \in IdTypes
             PROVE  /\ Equal(i, j) <=> i = j
                    /\ ~Equal(i, j) <=> Less(i, j) \/ Less(j, i)
                    /\ ~(Less(i, j) /\ Less(j, i))
                    /\ Equal(i, j) => Hash(i) = Hash(j)
                    /\ \A k \in IdTypes : Less(i, j) /\ Less(j, k) => Less(i, k)
  BY DEF AreKeys
<1>1. Equal(i, j) <=> i = j
  <2>1. ASSUME i.index = j.index, i.id = j.id
        PROVE  i = j
    BY <2>1, IdFields
  <2>2. QED
    BY <2>1 DEF Equal
<1>2. (~Equal(i, j) <=> Less(i, j) \/ Less(j, i)) /\ ~(Less(i, j) /\ Less(j, i))
  <2>1. i.index \in Nat /\ j.index \in Nat /\ i.id \in Nat /\ j.id \in Nat
    BY IdFields
  <2>2. QED
    BY <2>1 DEF Less, Equal
<1>3. Equal(i, j) => Hash(i) = Hash(j)
  BY <1>1
<1>4. ASSUME NEW k \in IdTypes, Less(i, j), Less(j, k)
      PROVE  Less(i, k)
  <2>1. /\ i.index \in Nat /\ j.index \in Nat /\ k.index \in Nat
        /\ i.id \in Nat /\ j.id \in Nat /\ k.id \in Nat
    BY IdFields
  <2>2. QED
    BY <1>4, <2>1 DEF Less
<1>5. QED
  BY <1>1, <1>2, <1>3, <1>4

\* Only the default id is invalid, and no value is had under a type it was not
\* made of (event.hpp:323-368).
LEMMA AllKeepType == KeepType(IdTypes)
<1> SUFFICES ASSUME NEW i \in IdTypes
             PROVE  /\ IsValid(i) <=> \E e \in Enums : Get(i, e) # {}
                    /\ \A e, f \in Enums : e = f \/ Get(i, e) = {} \/ Get(i, f) = {}
  BY DEF KeepType
<1>1. \A e : Get(i, e) # {} <=> i.index # 0 /\ i.index = e
  BY DEF Get, IsOfType
<1>2. IsValid(i) <=> i.index # 0
  BY IdFields DEF IsValid, Equal, Invalid
<1>3. i.index # 0 => i.index \in Enums
  BY IdFields
<1>4. QED
  BY <1>1, <1>2, <1>3

----------------------------------------------------------------------------
(* The types                                                               *)

LEMMA InitKeyTypes == Init => KeyTypes
  BY EmptySeq DEF Init, KeyTypes, Unattached, Nobody, Object

LEMMA ConnectStep ==
  ASSUME KeyTypes, NEW id \in IdTypes, NEW p \in Priorities, NEW o \in Objects,
         Connect(id, p, o)
  PROVE  KeyTypes'
<1>1. [id |-> id, priority |-> p, connected |-> TRUE] \in Handler
  BY DEF Handler
<1>2. handlers' \in Seq(Handler) /\ Len(handlers) \in Nat
  BY <1>1, AppendProperties, LenProperties DEF Connect, KeyTypes
<1>3. [emgr |-> 1, conn |-> Len(handlers) + 1] \in Object
  BY <1>2 DEF Object
<1>4. QED
  BY <1>2, <1>3 DEF Connect, KeyTypes

LEMMA DisconnectStep ==
  ASSUME KeyTypes, NEW o \in Objects, Disconnect(o)
  PROVE  KeyTypes'
<1> DEFINE h == objects[o].conn
<1>1. handlers' = [handlers EXCEPT ![h].connected = FALSE]
  BY DEF Disconnect, Disconnector
<1>2. handlers \in [1..Len(handlers) -> Handler] /\ Len(handlers) \in Nat
  BY LenProperties DEF KeyTypes
<1>3. ASSUME NEW r \in Handler
      PROVE  [r EXCEPT !.connected = FALSE] \in Handler
  BY DEF Handler
<1>4. handlers' \in [1..Len(handlers) -> Handler]
  BY <1>1, <1>2, <1>3
<1>5. handlers' \in Seq(Handler)
  BY <1>2, <1>4
<1>6. Unattached \in Object
  BY DEF Unattached, Object, Nobody
<1>7. QED
  BY <1>5, <1>6 DEF Disconnect, KeyTypes

LEMMA NextKeyTypes == KeyTypes /\ [Next]_vars => KeyTypes'
<1> SUFFICES ASSUME KeyTypes, [Next]_vars
             PROVE  KeyTypes'
  OBVIOUS
<1>1. ASSUME UNCHANGED <<handlers, objects>>
      PROVE  KeyTypes'
  BY <1>1 DEF KeyTypes
<1>2. ASSUME NEW id \in IdTypes, NEW p \in Priorities, NEW o \in Objects, Connect(id, p, o)
      PROVE  KeyTypes'
  BY <1>2, ConnectStep
<1>3. ASSUME NEW o \in Objects, Disconnect(o)
      PROVE  KeyTypes'
  BY <1>3, DisconnectStep
<1>4. ASSUME NEW o \in Objects, NEW other \in Objects, Copy(o, other)
      PROVE  KeyTypes'
  BY <1>4 DEF Copy, KeyTypes
<1>5. ASSUME NEW id \in IdTypes, HandleAs(id)
      PROVE  KeyTypes'
  BY <1>1, <1>5 DEF HandleAs
<1>6. CASE CallNext \/ ReturnFromHandler \/ Throw \/ ReturnFromHandleAs
  BY <1>1, <1>6 DEF CallNext, ReturnFromHandler, Throw, ReturnFromHandleAs
<1>7. CASE UNCHANGED vars
  BY <1>1, <1>7 DEF vars
<1>8. QED
  BY <1>2, <1>3, <1>4, <1>5, <1>6, <1>7 DEF Next

\* Assigning ids and connection objects leaves objects of their types
\* (event.hpp:274-368, apis/event_manager.hpp:149-168).
THEOREM KeyTypesCorrect == Spec => []KeyTypes
  BY InitKeyTypes, NextKeyTypes, PTL DEF Spec

----------------------------------------------------------------------------
(* The theorems                                                            *)

\* Connection objects are keys of a std::map, unattached ones among them, for
\* any number of handlers (apis/event_manager.hpp:149-168, 363-370).
THEOREM ObjectsAreAlwaysKeys == Spec => []ObjectsAreKeys
<1>1. KeyTypes => ObjectsAreKeys
  <2> SUFFICES ASSUME KeyTypes, NEW a \in Objects, NEW b \in Objects, NEW c \in Objects
               PROVE  /\ Differ(objects[a], objects[b]) <=>
                            (ObjectLess(objects[a], objects[b]) <=> ~ObjectLess(objects[b], objects[a]))
                      /\ ~(ObjectLess(objects[a], objects[b]) /\ ObjectLess(objects[b], objects[a]))
                      /\ ObjectLess(objects[a], objects[b]) /\ ObjectLess(objects[b], objects[c])
                            => ObjectLess(objects[a], objects[c])
    BY DEF ObjectsAreKeys
  <2>1. \A o \in {a, b, c} : objects[o].emgr \in {0, 1} /\ objects[o].conn \in Nat
    BY DEF KeyTypes, Object
  <2>2. Differ(objects[a], objects[b]) <=>
           ObjectLess(objects[a], objects[b]) \/ ObjectLess(objects[b], objects[a])
    BY <2>1 DEF Differ, ObjectLess, ConnectionLess
  <2>3. ~(ObjectLess(objects[a], objects[b]) /\ ObjectLess(objects[b], objects[a]))
    BY <2>1 DEF ObjectLess, ConnectionLess
  <2>4. ObjectLess(objects[a], objects[b]) /\ ObjectLess(objects[b], objects[c])
           => ObjectLess(objects[a], objects[c])
    BY <2>1 DEF ObjectLess, ConnectionLess
  <2>5. QED
    BY <2>2, <2>3, <2>4
<1>2. QED
  BY <1>1, KeyTypesCorrect, PTL

----------------------------------------------------------------------------
(* Sequences                                                               *)

LEMMA LeastElement ==
  ASSUME NEW T, T \subseteq Nat, T # {}
  PROVE  \E x \in T : \A y \in T : x <= y
<1> DEFINE R == OpToRel(<, Nat)
<1>1. IsWellFoundedOn(R, Nat)
  BY NatLessThanWellFounded
<1>2. ASSUME NEW x \in Nat, NEW y \in Nat, <<y, x>> \notin R
      PROVE  x <= y
  BY <1>2 DEF OpToRel
<1> HIDE DEF R
<1>3. PICK x \in T : \A y \in T : <<y, x>> \notin R
  BY <1>1, WFMin
<1>4. ASSUME NEW y \in T
      PROVE  x <= y
  <2>1. x \in Nat /\ y \in Nat /\ <<y, x>> \notin R
    BY <1>3
  <2>2. QED
    BY <2>1, <1>2
<1>5. QED
  BY <1>4

LEMMA Parts ==
  ASSUME NEW T, NEW s \in Seq(T), NEW n \in 0..Len(s)
  PROVE  /\ SubSeq(s, 1, n) \in Seq(T) /\ Len(SubSeq(s, 1, n)) = n
         /\ \A i \in 1..n : SubSeq(s, 1, n)[i] = s[i]
         /\ SubSeq(s, n + 1, Len(s)) \in Seq(T)
         /\ Len(SubSeq(s, n + 1, Len(s))) = Len(s) - n
         /\ \A i \in 1..(Len(s) - n) : SubSeq(s, n + 1, Len(s))[i] = s[n + i]
<1> DEFINE m == Len(s)
<1>1. m \in Nat /\ n \in Nat /\ n <= m /\ \A i \in 1..m : s[i] \in T
  BY LenProperties, ElementOfSeq
<1> HIDE DEF m
<1>2. \A i \in 1..n : s[i] \in T
  BY <1>1
<1>3. \A i \in (n + 1)..m : s[i] \in T
  BY <1>1
<1>4. /\ SubSeq(s, 1, n) \in Seq(T)
      /\ Len(SubSeq(s, 1, n)) = IF 1 <= n THEN n - 1 + 1 ELSE 0
      /\ \A i \in 1..(n - 1 + 1) : SubSeq(s, 1, n)[i] = s[1 + i - 1]
  BY <1>1, <1>2, SubSeqProperties
<1>5. /\ SubSeq(s, n + 1, m) \in Seq(T)
      /\ Len(SubSeq(s, n + 1, m)) = IF n + 1 <= m THEN m - (n + 1) + 1 ELSE 0
      /\ \A i \in 1..(m - (n + 1) + 1) : SubSeq(s, n + 1, m)[i] = s[(n + 1) + i - 1]
  BY <1>1, <1>3, SubSeqProperties
<1>6. /\ n - 1 + 1 = n /\ m - (n + 1) + 1 = m - n
      /\ \A i \in 1..n : 1 + i - 1 = i
      /\ \A i \in 1..(m - n) : (n + 1) + i - 1 = n + i
      /\ Len(SubSeq(s, 1, n)) = n
      /\ Len(SubSeq(s, n + 1, m)) = m - n
  BY <1>1, <1>4, <1>5
<1>7. QED
  BY <1>4, <1>5, <1>6 DEF m

\* A slot is put in behind the first n.
LEMMA Inserted ==
  ASSUME NEW T, NEW s \in Seq(T), NEW k \in 1..(Len(s) + 1), NEW x \in T
  PROVE  /\ InsertAt(s, k, x) \in Seq(T)
         /\ Len(InsertAt(s, k, x)) = Len(s) + 1
         /\ \A i \in 1..(k - 1) : InsertAt(s, k, x)[i] = s[i]
         /\ InsertAt(s, k, x)[k] = x
         /\ \A i \in (k + 1)..(Len(s) + 1) : InsertAt(s, k, x)[i] = s[i - 1]
<1>0. PICK n \in 0..Len(s) : n = k - 1 /\ k = n + 1 /\ k + 1 = n + 2
  BY LenProperties
<1> DEFINE a == SubSeq(s, 1, n)
           b == SubSeq(s, n + 1, Len(s))
           m == Len(s)
           c == a \o <<x>>
           t == c \o b
<1>1. m \in Nat /\ n \in Nat /\ n <= m
  BY LenProperties
<1>2. /\ a \in Seq(T) /\ Len(a) = n /\ \A i \in 1..n : a[i] = s[i]
      /\ b \in Seq(T) /\ Len(b) = m - n /\ \A i \in 1..(m - n) : b[i] = s[n + i]
  BY Parts
<1> HIDE DEF a, b, m
<1>3. <<x>> \in Seq(T) /\ Len(<<x>>) = 1 /\ <<x>>[1] = x
  OBVIOUS
<1>4. /\ c \in Seq(T) /\ Len(c) = n + 1
      /\ \A i \in 1..(n + 1) : c[i] = IF i <= n THEN a[i] ELSE <<x>>[i - n]
  BY <1>2, <1>3, ConcatProperties
<1> HIDE DEF c
<1>5. /\ t \in Seq(T) /\ Len(t) = (n + 1) + (m - n)
      /\ \A i \in 1..((n + 1) + (m - n)) :
             t[i] = IF i <= n + 1 THEN c[i] ELSE b[i - (n + 1)]
  <2>1. c \in Seq(T) /\ b \in Seq(T)
    BY <1>2, <1>4
  <2>2. /\ t \in Seq(T) /\ Len(t) = Len(c) + Len(b)
        /\ \A i \in 1..(Len(c) + Len(b)) :
               t[i] = IF i <= Len(c) THEN c[i] ELSE b[i - Len(c)]
    BY <2>1, ConcatProperties
  <2> HIDE DEF t
  <2>3. QED
    BY <1>2, <1>4, <2>2
<1> HIDE DEF t
<1>6. (n + 1) + (m - n) = m + 1
  BY <1>1
<1>7. ASSUME NEW i \in 1..n PROVE t[i] = s[i]
  <2>1. i \in 1..(m + 1) /\ i <= n + 1 /\ i \in 1..(n + 1) /\ i <= n
    BY <1>1
  <2>2. QED
    BY <1>2, <1>4, <1>5, <1>6, <2>1
<1>8. t[n + 1] = x
  <2>1. n + 1 \in 1..(m + 1) /\ n + 1 \in 1..(n + 1) /\ ~(n + 1 <= n) /\ (n + 1) - n = 1
    BY <1>1
  <2>2. QED
    BY <1>3, <1>4, <1>5, <1>6, <2>1
<1>9. ASSUME NEW i \in (n + 2)..(m + 1) PROVE t[i] = s[i - 1]
  <2>1. /\ i \in 1..(m + 1) /\ ~(i <= n + 1)
        /\ i - (n + 1) \in 1..(m - n) /\ n + (i - (n + 1)) = i - 1
    BY <1>1
  <2>2. t[i] = b[i - (n + 1)]
    BY <1>5, <1>6, <2>1
  <2>3. b[i - (n + 1)] = s[n + (i - (n + 1))]
    BY <1>2, <2>1
  <2>4. QED
    BY <2>1, <2>2, <2>3
<1>10. QED
  <2>1. InsertAt(s, k, x) = t
    <3>1. InsertAt(s, k, x) = SubSeq(s, 1, k - 1) \o <<x>> \o SubSeq(s, k, Len(s))
      BY DEF InsertAt
    <3>2. QED
      BY <1>0, <3>1, Zenon DEF t, c, a, b
  <2>2. /\ Len(t) = Len(s) + 1 /\ t[k] = x
        /\ \A i \in 1..(k - 1) : t[i] = s[i]
        /\ \A i \in (k + 1)..(Len(s) + 1) : t[i] = s[i - 1]
    BY <1>0, <1>5, <1>6, <1>7, <1>8, <1>9, Zenon DEF m
  <2>3. QED
    BY <1>5, <2>1, <2>2

LEMMA Removed ==
  ASSUME NEW T, NEW s \in Seq(T), NEW n \in 1..Len(s)
  PROVE  /\ RemoveAt(s, n) \in Seq(T) /\ Len(RemoveAt(s, n)) = Len(s) - 1
         /\ \A i \in 1..(Len(s) - 1) :
                RemoveAt(s, n)[i] = IF i < n THEN s[i] ELSE s[i + 1]
<1> DEFINE a == SubSeq(s, 1, n - 1)
           b == SubSeq(s, n + 1, Len(s))
           m == Len(s)
           t == a \o b
<1>1. m \in Nat /\ n \in Nat /\ n >= 1 /\ n <= m /\ n - 1 \in 0..m /\ n \in 0..m
  BY LenProperties
<1>2. /\ a \in Seq(T) /\ Len(a) = n - 1 /\ \A i \in 1..(n - 1) : a[i] = s[i]
  BY <1>1, Parts
<1>3. b \in Seq(T) /\ Len(b) = m - n /\ \A i \in 1..(m - n) : b[i] = s[n + i]
  BY <1>1, Parts
<1> HIDE DEF a, b, m
<1>4. /\ t \in Seq(T) /\ Len(t) = (n - 1) + (m - n)
      /\ \A i \in 1..((n - 1) + (m - n)) :
             t[i] = IF i <= n - 1 THEN a[i] ELSE b[i - (n - 1)]
  <2>1. a \in Seq(T) /\ b \in Seq(T)
    BY <1>2, <1>3
  <2>2. /\ t \in Seq(T) /\ Len(t) = Len(a) + Len(b)
        /\ \A i \in 1..(Len(a) + Len(b)) :
               t[i] = IF i <= Len(a) THEN a[i] ELSE b[i - Len(a)]
    BY <2>1, ConcatProperties
  <2> HIDE DEF t
  <2>3. QED
    BY <1>2, <1>3, <2>2
<1> HIDE DEF t
<1>5. (n - 1) + (m - n) = m - 1
  BY <1>1
<1>6. ASSUME NEW i \in 1..(m - 1)
      PROVE  t[i] = IF i < n THEN s[i] ELSE s[i + 1]
  <2>1. CASE i < n
    <3>1. i <= n - 1 /\ i \in 1..(n - 1)
      BY <1>1, <2>1
    <3>2. QED
      BY <1>2, <1>4, <1>5, <2>1, <3>1
  <2>2. CASE ~(i < n)
    <3>1. ~(i <= n - 1) /\ i - (n - 1) \in 1..(m - n) /\ n + (i - (n - 1)) = i + 1
      BY <1>1, <2>2
    <3>2. t[i] = b[i - (n - 1)] /\ b[i - (n - 1)] = s[n + (i - (n - 1))]
      BY <1>3, <1>4, <1>5, <3>1
    <3>3. QED
      BY <2>2, <3>1, <3>2
  <2>3. QED
    BY <2>1, <2>2
<1>7. QED
  BY <1>4, <1>5, <1>6 DEF t, a, b, m, RemoveAt

----------------------------------------------------------------------------
(* The inductive invariant                                                 *)

Before(g, h) == Rank(g) < Rank(h) \/ (Rank(g) = Rank(h) /\ g < h)

InCallOrder(s) == \A i, j \in 1..Len(s) : i < j => Before(s[i], s[j])

OfId(s, id) == \A i \in 1..Len(s) : handlers[s[i]].id = id

Occurs(h, s) == \E i \in 1..Len(s) : s[i] = h

\* A signal has handlers of its id in the order of the calls, and all that are
\* connected.
Slots ==
    /\ signals \in [IdTypes -> Seq(1..Len(handlers))]
    /\ \A k \in IdTypes : InCallOrder(signals[k]) /\ OfId(signals[k], k)
    /\ \A h \in 1..Len(handlers) :
           handlers[h].connected => Occurs(h, signals[handlers[h].id])

Call == [id : IdTypes, left : Seq(Nat), running : Nat, called : Seq(Nat), known : Nat]

\* What a call has done and has left to do are, one after the other, in order,
\* and whoever was there and is still connected is in one of them.
CallSound(c) ==
    /\ c.known \in 0..Len(handlers)
    /\ c.called \in Seq(1..c.known) /\ c.left \in Seq(1..c.known)
    /\ OfId(c.called, c.id) /\ OfId(c.left, c.id)
    /\ InCallOrder(c.called) /\ InCallOrder(c.left)
    /\ \A i \in 1..Len(c.called), j \in 1..Len(c.left) : Before(c.called[i], c.left[j])
    /\ \A h \in 1..c.known :
           handlers[h].id = c.id /\ handlers[h].connected =>
               Occurs(h, c.called) \/ Occurs(h, c.left)

CallsSound ==
    /\ calls \in Seq(Call)
    /\ \A c \in ToSet(calls) : CallSound(c)

Inv == KeyTypes /\ Slots /\ CallsSound

\* Handlers are added and disconnected, and nothing else of them changes.
Grown ==
    /\ handlers' \in Seq(Handler)
    /\ Len(handlers) <= Len(handlers')
    /\ \A h \in 1..Len(handlers) :
           /\ handlers'[h].id = handlers[h].id
           /\ handlers'[h].priority = handlers[h].priority
           /\ handlers'[h].connected => handlers[h].connected

LEMMA RanksAreIntegers ==
  ASSUME NEW p \in Priorities
  PROVE  Priority[p] \in Int
<1>1. p \in DOMAIN Priority
  BY SignalsAssumption DEF SignalsAssumption
<1>2. \A q \in DOMAIN Priority : Priority[q] \in Int
  BY DEF Priority
<1>3. QED
  BY <1>1, <1>2

LEMMA HandlerFields ==
  ASSUME KeyTypes
  PROVE  /\ Len(handlers) \in Nat /\ DOMAIN handlers = 1..Len(handlers)
         /\ \A h \in 1..Len(handlers) :
                /\ handlers[h] \in Handler
                /\ handlers[h].id \in IdTypes
                /\ handlers[h].priority \in Priorities
                /\ Rank(h) \in Int
<1>1. Len(handlers) \in Nat /\ DOMAIN handlers = 1..Len(handlers)
  BY LenProperties DEF KeyTypes
<1>2. ASSUME NEW h \in 1..Len(handlers)
      PROVE  /\ handlers[h] \in Handler
             /\ handlers[h].id \in IdTypes
             /\ handlers[h].priority \in Priorities
             /\ Rank(h) \in Int
  <2>1. handlers[h] \in Handler
    BY <1>2, ElementOfSeq DEF KeyTypes
  <2>2. handlers[h].id \in IdTypes /\ handlers[h].priority \in Priorities
    BY <2>1 DEF Handler
  <2>3. Rank(h) \in Int
    BY <2>2, RanksAreIntegers DEF Rank
  <2>4. QED
    BY <2>1, <2>2, <2>3
<1>3. QED
  BY <1>1, <1>2

\* The key of an id is the id.
LEMMA KeyIsId ==
  ASSUME NEW id \in IdTypes
  PROVE  KeyOf(id) = id
<1>1. \A k \in IdTypes : Hash(k) = Hash(id) /\ Equal(k, id) <=> k = id
  BY AllAreKeys DEF AreKeys
<1>2. QED
  BY <1>1 DEF KeyOf

LEMMA RanksStay ==
  ASSUME Grown
  PROVE  \A h \in 1..Len(handlers) : Rank(h)' = Rank(h)
BY DEF Grown, Rank

LEMMA OrderStays ==
  ASSUME KeyTypes, Grown, NEW s \in Seq(1..Len(handlers))
  PROVE  /\ InCallOrder(s) => InCallOrder(s)'
         /\ \A id : OfId(s, id) => OfId(s, id)'
<1>1. \A i \in 1..Len(s) : s[i] \in 1..Len(handlers)
  BY ElementOfSeq
<1>2. \A i \in 1..Len(s) : Rank(s[i])' = Rank(s[i])
  BY <1>1, RanksStay
<1>3. InCallOrder(s) => InCallOrder(s)'
  BY <1>2 DEF InCallOrder, Before
<1>4. \A id : OfId(s, id) => OfId(s, id)'
  BY <1>1 DEF Grown, OfId
<1>5. QED
  BY <1>3, <1>4

LEMMA CallStays ==
  ASSUME KeyTypes, Grown, NEW c \in Call, CallSound(c)
  PROVE  CallSound(c)'
<1>1. c.known \in 0..Len(handlers) /\ Len(handlers) \in Nat /\ Len(handlers') \in Nat
      /\ Len(handlers) <= Len(handlers')
  BY HandlerFields, LenProperties DEF CallSound, Grown
<1>2. c.known \in 0..Len(handlers') /\ 1..c.known \subseteq 1..Len(handlers)
  BY <1>1
<1>3. c.called \in Seq(1..c.known) /\ c.left \in Seq(1..c.known)
  BY DEF CallSound
<1>4. c.called \in Seq(1..Len(handlers)) /\ c.left \in Seq(1..Len(handlers))
  BY <1>2, <1>3, SeqMonotonic
<1>5. /\ InCallOrder(c.called)' /\ OfId(c.called, c.id)'
      /\ InCallOrder(c.left)' /\ OfId(c.left, c.id)'
  BY <1>4, OrderStays DEF CallSound
<1>6. ASSUME NEW i \in 1..Len(c.called), NEW j \in 1..Len(c.left)
      PROVE  Before(c.called[i], c.left[j])'
  <2>1. c.called[i] \in 1..Len(handlers) /\ c.left[j] \in 1..Len(handlers)
    BY <1>4, ElementOfSeq
  <2>2. Rank(c.called[i])' = Rank(c.called[i]) /\ Rank(c.left[j])' = Rank(c.left[j])
    BY <2>1, RanksStay
  <2>3. Before(c.called[i], c.left[j])
    BY DEF CallSound
  <2>4. QED
    BY <2>2, <2>3 DEF Before
<1>7. ASSUME NEW h \in 1..c.known, handlers'[h].id = c.id, handlers'[h].connected
      PROVE  Occurs(h, c.called) \/ Occurs(h, c.left)
  <2>1. h \in 1..Len(handlers)
    BY <1>2
  <2>2. handlers[h].id = c.id /\ handlers[h].connected
    BY <1>7, <2>1 DEF Grown
  <2>3. QED
    BY <2>2 DEF CallSound
<1>8. QED
  BY <1>2, <1>3, <1>5, <1>6, <1>7 DEF CallSound, Occurs

----------------------------------------------------------------------------
(* Connecting a handler                                                    *)

\* There is a place behind the handlers that rank no higher.
LEMMA APlace ==
  ASSUME KeyTypes, NEW s \in Seq(1..Len(handlers)), InCallOrder(s), NEW r \in Int
  PROVE  \E n \in 0..Len(s) :
             /\ \A i \in 1..n : Rank(s[i]) <= r
             /\ \A i \in (n + 1)..Len(s) : Rank(s[i]) > r
<1> DEFINE m == Len(s)
           T == {i \in 1..(m + 1) : i = m + 1 \/ Rank(s[i]) > r}
<1>1. m \in Nat
  BY LenProperties
<1>2. ASSUME NEW i \in 1..m
      PROVE  Rank(s[i]) \in Int
  <2>1. s[i] \in 1..Len(handlers)
    BY ElementOfSeq
  <2>2. QED
    BY <2>1, HandlerFields
<1>3. \A i, j \in 1..m : i < j => Rank(s[i]) <= Rank(s[j])
  BY <1>2 DEF InCallOrder, Before
<1> HIDE DEF m
<1>4. T \subseteq Nat /\ m + 1 \in T
  BY <1>1
<1>5. PICK x \in T : \A y \in T : x <= y
  <2> HIDE DEF T
  <2>1. QED
    BY <1>4, LeastElement
<1>6. x \in 1..(m + 1) /\ (x = m + 1 \/ Rank(s[x]) > r) /\ x - 1 \in 0..m
  BY <1>1, <1>5
<1>7. ASSUME NEW i \in 1..(x - 1)
      PROVE  Rank(s[i]) <= r
  <2>1. i \in 1..m /\ ~(x <= i) /\ i \in 1..(m + 1)
    BY <1>1, <1>6
  <2>2. ~(Rank(s[i]) > r)
    BY <1>5, <2>1
  <2>3. QED
    BY <1>2, <2>1, <2>2
<1>8. ASSUME NEW i \in ((x - 1) + 1)..m
      PROVE  Rank(s[i]) > r
  <2>1. i \in 1..m /\ x \in 1..m /\ x <= i /\ Rank(s[x]) > r
    BY <1>1, <1>6
  <2>2. Rank(s[x]) <= Rank(s[i])
    BY <1>2, <1>3, <2>1
  <2>3. QED
    BY <1>2, <2>1, <2>2
<1>9. QED
  BY <1>6, <1>7, <1>8 DEF m

LEMMA ConnectGrows ==
  ASSUME KeyTypes, NEW id \in IdTypes, NEW p \in Priorities, NEW o \in Objects,
         Connect(id, p, o)
  PROVE  /\ Grown /\ Len(handlers') = Len(handlers) + 1
         /\ handlers'[Len(handlers) + 1] = [id |-> id, priority |-> p, connected |-> TRUE]
         /\ \A h \in 1..Len(handlers) : handlers'[h] = handlers[h]
<1> DEFINE new == [id |-> id, priority |-> p, connected |-> TRUE]
<1>1. new \in Handler
  BY DEF Handler
<1> HIDE DEF new
<1>2. Len(handlers) \in Nat
  BY HandlerFields
<1>3. handlers' = Append(handlers, new)
  BY DEF Connect, new
<1>4. handlers \in Seq(Handler)
  BY DEF KeyTypes
<1>5. /\ handlers' \in Seq(Handler)
      /\ Len(handlers') = Len(handlers) + 1
      /\ \A h \in 1..Len(handlers) : handlers'[h] = handlers[h]
      /\ handlers'[Len(handlers) + 1] = new
  BY <1>1, <1>3, <1>4, AppendProperties
<1>6. Grown
  BY <1>2, <1>5 DEF Grown
<1>7. QED
  BY <1>5, <1>6 DEF new

\* The signal of the id with the new handler in its place.
LEMMA ConnectInserts ==
  ASSUME KeyTypes, Slots, NEW id \in IdTypes, NEW p \in Priorities, NEW o \in Objects,
         Connect(id, p, o)
  PROVE  /\ signals'[id] \in Seq(1..(Len(handlers) + 1))
         /\ InCallOrder(signals[id]) /\ OfId(signals[id], id)
         /\ Len(signals'[id]) = Len(signals[id]) + 1
         /\ \E n \in 0..Len(signals[id]) :
              /\ \A i \in 1..n : signals'[id][i] = signals[id][i]
              /\ \A i \in 1..n : Rank(signals[id][i]) <= Priority[p]
              /\ signals'[id][n + 1] = Len(handlers) + 1
              /\ \A i \in (n + 2)..(Len(signals[id]) + 1) :
                     signals'[id][i] = signals[id][i - 1]
              /\ \A i \in (n + 1)..Len(signals[id]) : Rank(signals[id][i]) > Priority[p]
<1> DEFINE h == Len(handlers) + 1
           P(s, n) == /\ \A i \in 1..n : Rank(s[i]) <= Priority[p]
                      /\ \A i \in (n + 1)..Len(s) : Rank(s[i]) > Priority[p]
<1>1. PICK s : s = signals[id]
  OBVIOUS
<1>2. /\ s \in Seq(1..Len(handlers)) /\ InCallOrder(s) /\ OfId(s, id)
      /\ Len(handlers) \in Nat
  BY <1>1, HandlerFields DEF Slots
<1>3. PICK n \in 0..Len(s) :
         P(s, n) /\ signals'[id] = InsertAt(s, n + 1, h)
  <2>1. KeyOf(id) = id
    BY KeyIsId
  <2>2. signals' = [signals EXCEPT ![id] = InPlace(@, h, p)]
    BY <2>1 DEF Connect
  <2>3. signals'[id] = InPlace(s, h, p)
    BY <1>1, <2>2 DEF Slots
  <2>4. Priority[p] \in Int
    BY RanksAreIntegers
  <2>5. \E n \in 0..Len(s) : P(s, n)
    BY <1>2, <2>4, APlace
  <2> DEFINE N == CHOOSE n \in 0..Len(s) : P(s, n)
  <2>6. signals'[id] = InsertAt(s, N + 1, h)
    BY <2>3 DEF InPlace
  <2>7. N \in 0..Len(s) /\ P(s, N)
    <3> HIDE DEF P
    <3>1. QED
      BY <2>5
  <2> HIDE DEF N, P
  <2>8. QED
    BY <2>6, <2>7
<1>4. s \in Seq(1..h) /\ h \in 1..h
  <2>1. 1..Len(handlers) \subseteq 1..h /\ h \in 1..h
    BY <1>2
  <2>2. QED
    BY <1>2, <2>1, SeqMonotonic
<1>5. /\ signals'[id] \in Seq(1..h) /\ Len(signals'[id]) = Len(s) + 1
      /\ \A i \in 1..n : signals'[id][i] = s[i]
      /\ signals'[id][n + 1] = h
      /\ \A i \in (n + 2)..(Len(s) + 1) : signals'[id][i] = s[i - 1]
  <2> DEFINE T == 1..h
  <2>1. s \in Seq(T) /\ h \in T
    BY <1>4
  <2> HIDE DEF T, h
  <2>2. PICK k \in 1..(Len(s) + 1) : k = n + 1 /\ k - 1 = n /\ k + 1 = n + 2
    BY <1>2, LenProperties
  <2>3. /\ InsertAt(s, k, h) \in Seq(T)
        /\ Len(InsertAt(s, k, h)) = Len(s) + 1
        /\ \A i \in 1..(k - 1) : InsertAt(s, k, h)[i] = s[i]
        /\ InsertAt(s, k, h)[k] = h
        /\ \A i \in (k + 1)..(Len(s) + 1) : InsertAt(s, k, h)[i] = s[i - 1]
    BY <2>1, Inserted, SMTT(30)
  <2>4. InsertAt(s, k, h) = signals'[id]
    BY <1>3, <2>2
  <2>5. QED
    BY <2>2, <2>3, <2>4, Zenon DEF T
<1>6. QED
  BY <1>1, <1>2, <1>3, <1>5

\* What that does to a sequence of handlers in order.
LEMMA InPlaceSound ==
  ASSUME KeyTypes, Grown, NEW s \in Seq(1..Len(handlers)), NEW n \in 0..Len(s),
         NEW id \in IdTypes, NEW h \in Nat, NEW t \in Seq(1..h), NEW r \in Int,
         h = Len(handlers) + 1, handlers'[h].id = id, Rank(h)' = r,
         InCallOrder(s), OfId(s, id),
         Len(t) = Len(s) + 1, \A i \in 1..n : t[i] = s[i], t[n + 1] = h,
         \A i \in (n + 2)..(Len(s) + 1) : t[i] = s[i - 1],
         \A i \in 1..n : Rank(s[i]) <= r,
         \A i \in (n + 1)..Len(s) : Rank(s[i]) > r
  PROVE  /\ InCallOrder(t)' /\ OfId(t, id)' /\ Occurs(h, t)
         /\ \A g : Occurs(g, s) => Occurs(g, t)
<1> DEFINE l == Len(s)
           Old(i) == IF i <= n THEN i ELSE i - 1
<1>1. l \in Nat /\ n \in Nat /\ n <= l /\ Len(t) = l + 1 /\ Len(handlers) \in Nat
  BY HandlerFields, LenProperties
<1>2. \A i \in 1..l : /\ s[i] \in 1..Len(handlers)
                      /\ Rank(s[i])' = Rank(s[i]) /\ Rank(s[i]) \in Int
                      /\ handlers'[s[i]].id = id
  <2> SUFFICES ASSUME NEW i \in 1..l
               PROVE  /\ s[i] \in 1..Len(handlers)
                      /\ Rank(s[i])' = Rank(s[i]) /\ Rank(s[i]) \in Int
                      /\ handlers'[s[i]].id = id
    OBVIOUS
  <2>1. s[i] \in 1..Len(handlers)
    BY ElementOfSeq
  <2>2. Rank(s[i])' = Rank(s[i]) /\ Rank(s[i]) \in Int
    BY <2>1, HandlerFields, RanksStay
  <2>3. handlers'[s[i]].id = id
    BY <2>1 DEF Grown, OfId
  <2>4. QED
    BY <2>1, <2>2, <2>3
<1> HIDE DEF l
<1>3. \A i \in 1..(l + 1) : \/ i = n + 1 /\ t[i] = h
                            \/ i # n + 1 /\ Old(i) \in 1..l /\ t[i] = s[Old(i)]
  <2> SUFFICES ASSUME NEW i \in 1..(l + 1), i # n + 1
               PROVE  Old(i) \in 1..l /\ t[i] = s[Old(i)]
    OBVIOUS
  <2>1. CASE i <= n
    <3>1. i \in 1..n /\ i \in 1..l
      BY <1>1, <2>1
    <3>2. QED
      BY <2>1, <3>1
  <2>2. CASE ~(i <= n)
    <3>1. i \in (n + 2)..(l + 1) /\ i - 1 \in 1..l
      BY <1>1, <2>2
    <3>2. QED
      BY <2>2, <3>1 DEF l
  <2>3. QED
    BY <2>1, <2>2
<1>4. OfId(t, id)'
  <2> SUFFICES ASSUME NEW i \in 1..Len(t)
               PROVE  handlers'[t[i]].id = id
    BY DEF OfId
  <2> HIDE DEF Old
  <2>1. CASE t[i] = h
    BY <2>1
  <2>2. CASE Old(i) \in 1..l /\ t[i] = s[Old(i)]
    BY <1>2, <2>2
  <2>3. i \in 1..(l + 1)
    BY <1>1
  <2>4. QED
    BY <1>3, <2>1, <2>2, <2>3
<1>5. ASSUME NEW i \in 1..(l + 1), NEW j \in 1..(l + 1), i < j
      PROVE  Before(t[i], t[j])'
  <2>1. CASE i = n + 1
    <3>1. j # n + 1 /\ j - 1 \in (n + 1)..l /\ Old(j) = j - 1
      BY <1>1, <1>5, <2>1
    <3>2. t[i] = h /\ t[j] = s[j - 1] /\ j - 1 \in 1..l
      <4> HIDE DEF Old
      <4>1. QED
        BY <1>1, <1>3, <2>1, <3>1
    <3>3. Rank(s[j - 1]) > r
      BY <3>1 DEF l
    <3>4. Rank(t[i])' = r /\ Rank(t[j])' > r
      BY <1>2, <3>2, <3>3
    <3>5. QED
      BY <3>4, <1>2, <3>2 DEF Before
  <2>2. CASE j = n + 1
    <3>1. i # n + 1 /\ i \in 1..n /\ Old(i) = i /\ i \in 1..l
      BY <1>1, <1>5, <2>2
    <3>2. t[j] = h /\ t[i] = s[i] /\ Rank(s[i]) <= r
      BY <1>3, <2>2, <3>1
    <3>3. Rank(t[j])' = r /\ Rank(t[i])' = Rank(s[i]) /\ Rank(s[i]) \in Int
      BY <1>2, <3>1, <3>2
    <3>4. t[i] < h
      <4>1. s[i] \in 1..Len(handlers)
        BY <1>2, <3>1
      <4>2. QED
        BY <1>1, <3>2, <4>1
    <3>5. QED
      BY <3>2, <3>3, <3>4 DEF Before
  <2>3. CASE i # n + 1 /\ j # n + 1
    <3>1. /\ t[i] = s[Old(i)] /\ Old(i) \in 1..l
          /\ t[j] = s[Old(j)] /\ Old(j) \in 1..l
      BY <1>3, <2>3
    <3>2. Old(i) < Old(j)
      BY <1>1, <1>5, <2>3
    <3> HIDE DEF Old
    <3>3. Before(s[Old(i)], s[Old(j)])
      BY <3>1, <3>2 DEF InCallOrder, l
    <3>4. QED
      BY <1>2, <3>1, <3>3 DEF Before
  <2>4. QED
    BY <2>1, <2>2, <2>3
<1>6. InCallOrder(t)'
  BY <1>1, <1>5 DEF InCallOrder
<1>7. Occurs(h, t)
  <2>1. n + 1 \in 1..Len(t)
    BY <1>1
  <2>2. QED
    BY <2>1 DEF Occurs
<1>8. ASSUME NEW g, Occurs(g, s)
      PROVE  Occurs(g, t)
  <2>1. PICK i \in 1..l : s[i] = g
    BY <1>8 DEF Occurs, l
  <2>2. CASE i <= n
    <3>1. i \in 1..n /\ i \in 1..Len(t)
      BY <1>1, <2>2
    <3>2. QED
      BY <2>1, <3>1 DEF Occurs
  <2>3. CASE ~(i <= n)
    <3>1. i + 1 \in (n + 2)..(l + 1) /\ i + 1 \in 1..Len(t) /\ (i + 1) - 1 = i
      BY <1>1, <2>3
    <3>2. t[i + 1] = s[i]
      BY <3>1 DEF l
    <3>3. QED
      BY <2>1, <3>1, <3>2 DEF Occurs
  <2>4. QED
    BY <2>2, <2>3
<1>9. QED
  BY <1>4, <1>6, <1>7, <1>8

LEMMA ConnectSlots ==
  ASSUME KeyTypes, Slots, NEW id \in IdTypes, NEW p \in Priorities, NEW o \in Objects,
         Connect(id, p, o)
  PROVE  Slots'
<1>1. PICK h, s, t : h \in Nat /\ h = Len(handlers) + 1 /\ s = signals[id] /\ t = signals'[id]
  BY HandlerFields
<1>2. /\ Grown /\ Len(handlers') = h
      /\ handlers'[h] = [id |-> id, priority |-> p, connected |-> TRUE]
      /\ \A g \in 1..Len(handlers) : handlers'[g] = handlers[g]
  BY <1>1, ConnectGrows
<1>3. /\ Len(handlers) \in Nat /\ 1..Len(handlers) \subseteq 1..h
      /\ s \in Seq(1..Len(handlers)) /\ InCallOrder(s) /\ OfId(s, id)
  BY <1>1, HandlerFields DEF Slots
<1>4. Rank(h)' = Priority[p] /\ Priority[p] \in Int /\ handlers'[h].id = id
  BY <1>2, RanksAreIntegers DEF Rank
<1>5. t \in Seq(1..h) /\ Len(t) = Len(s) + 1
  BY <1>1, ConnectInserts
<1>6. PICK n \in 0..Len(s) :
        /\ \A i \in 1..n : t[i] = s[i]
        /\ \A i \in 1..n : Rank(s[i]) <= Priority[p]
        /\ t[n + 1] = h
        /\ \A i \in (n + 2)..(Len(s) + 1) : t[i] = s[i - 1]
        /\ \A i \in (n + 1)..Len(s) : Rank(s[i]) > Priority[p]
  BY <1>1, ConnectInserts
<1>7. /\ InCallOrder(t)' /\ OfId(t, id)' /\ Occurs(h, t)
      /\ \A g : Occurs(g, s) => Occurs(g, t)
  <2>1. h \in Nat /\ h = Len(handlers) + 1
    BY <1>1
  <2>2. PICK r \in Int : r = Priority[p]
    BY <1>4
  <2>3. Rank(h)' = r /\ handlers'[h].id = id
    BY <1>4, <2>2
  <2>4. /\ \A i \in 1..n : Rank(s[i]) <= r
        /\ \A i \in (n + 1)..Len(s) : Rank(s[i]) > r
    BY <1>6, <2>2
  <2>5. QED
    BY <1>2, <1>3, <1>5, <1>6, <2>1, <2>3, <2>4, InPlaceSound
<1>8. signals' = [signals EXCEPT ![id] = t] /\ DOMAIN signals = IdTypes
  BY <1>1, KeyIsId DEF Connect, Slots
<1>9. \A k \in IdTypes : /\ signals'[k] \in Seq(1..h)
                         /\ InCallOrder(signals[k])' /\ OfId(signals[k], k)'
  <2> SUFFICES ASSUME NEW k \in IdTypes, NEW u, u = signals'[k]
               PROVE  u \in Seq(1..h) /\ InCallOrder(u)' /\ OfId(u, k)'
    BY DEF InCallOrder, OfId
  <2>1. CASE k = id
    BY <1>1, <1>5, <1>7, <2>1
  <2>2. CASE k # id
    <3>1. u = signals[k]
      BY <1>8, <2>2
    <3>2. u \in Seq(1..Len(handlers)) /\ InCallOrder(u) /\ OfId(u, k)
      BY <3>1 DEF Slots
    <3>3. u \in Seq(1..h)
      BY <1>3, <3>2, SeqMonotonic
    <3>4. QED
      BY <1>2, <3>2, <3>3, OrderStays
  <2>3. QED
    BY <2>1, <2>2
<1>10. ASSUME NEW g \in 1..h, handlers'[g].connected
       PROVE  Occurs(g, signals'[handlers'[g].id])
  <2>1. CASE g = h
    BY <1>1, <1>4, <1>7, <2>1
  <2>2. CASE g # h
    <3>1. g \in 1..Len(handlers) /\ handlers'[g] = handlers[g]
      BY <1>1, <1>2, <1>3, <2>2
    <3>2. Occurs(g, signals[handlers[g].id]) /\ handlers[g].id \in IdTypes
      BY <1>10, <3>1, HandlerFields DEF Slots
    <3>3. CASE handlers[g].id = id
      BY <1>1, <1>7, <3>1, <3>2, <3>3
    <3>4. CASE handlers[g].id # id
      BY <1>8, <3>1, <3>2, <3>4
    <3>5. QED
      BY <3>3, <3>4
  <2>3. QED
    BY <2>1, <2>2
<1>11. signals' \in [IdTypes -> Seq(1..Len(handlers'))]
  BY <1>2, <1>8, <1>9
<1>12. QED
  BY <1>2, <1>9, <1>10, <1>11 DEF Slots, Occurs

----------------------------------------------------------------------------
(* Disconnecting a handler                                                 *)

LEMMA DisconnectGrows ==
  ASSUME KeyTypes, NEW h \in Nat, Disconnector(h)
  PROVE  /\ Grown /\ Len(handlers') = Len(handlers)
         /\ h \in 1..Len(handlers) => ~handlers'[h].connected
<1>1. handlers \in Seq(Handler) /\ Len(handlers) \in Nat /\ DOMAIN handlers = 1..Len(handlers)
  BY HandlerFields DEF KeyTypes
<1>2. \A g \in 1..Len(handlers) : handlers[g] \in Handler
  BY HandlerFields
<1>3. handlers' = [handlers EXCEPT ![h].connected = FALSE]
  BY DEF Disconnector
<1>4. DOMAIN handlers' = 1..Len(handlers)
  BY <1>1, <1>3
<1>5. \A g \in 1..Len(handlers) :
         /\ handlers'[g] \in Handler
         /\ handlers'[g].id = handlers[g].id
         /\ handlers'[g].priority = handlers[g].priority
         /\ handlers'[g].connected => handlers[g].connected
         /\ g = h => ~handlers'[g].connected
  <2> SUFFICES ASSUME NEW g \in 1..Len(handlers)
               PROVE  /\ handlers'[g] \in Handler
                      /\ handlers'[g].id = handlers[g].id
                      /\ handlers'[g].priority = handlers[g].priority
                      /\ handlers'[g].connected => handlers[g].connected
                      /\ g = h => ~handlers'[g].connected
    OBVIOUS
  <2>1. CASE g = h
    <3>1. handlers'[g] = [handlers[g] EXCEPT !.connected = FALSE]
      BY <1>1, <1>3, <2>1
    <3>2. QED
      BY <1>2, <3>1 DEF Handler
  <2>2. CASE g # h
    BY <1>1, <1>2, <1>3, <2>2
  <2>3. QED
    BY <2>1, <2>2
<1>6. handlers' = [g \in 1..Len(handlers) |-> handlers'[g]]
  BY <1>1, <1>3
<1>7. handlers' \in Seq(Handler) /\ Len(handlers') = Len(handlers)
  BY <1>1, <1>4, <1>5, <1>6, LenProperties
<1>8. QED
  BY <1>1, <1>5, <1>7 DEF Grown

\* What is left when a slot is taken out is as sound as it was.
LEMMA RemovedSound ==
  ASSUME NEW m \in Nat, NEW s \in Seq(1..m), NEW n \in 1..Len(s), NEW k,
         InCallOrder(s), OfId(s, k)
  PROVE  /\ RemoveAt(s, n) \in Seq(1..m)
         /\ InCallOrder(RemoveAt(s, n)) /\ OfId(RemoveAt(s, n), k)
         /\ \A g : Occurs(g, s) /\ g # s[n] => Occurs(g, RemoveAt(s, n))
<1> DEFINE T == 1..m
           l == Len(s)
           t == RemoveAt(s, n)
           Old(i) == IF i < n THEN i ELSE i + 1
<1>1. s \in Seq(T) /\ l \in Nat
  BY LenProperties
<1> HIDE DEF T
<1>2. /\ t \in Seq(T) /\ Len(t) = l - 1
      /\ \A i \in 1..(l - 1) : t[i] = IF i < n THEN s[i] ELSE s[i + 1]
  BY <1>1, Removed
<1> HIDE DEF t
<1>3. n \in 1..l
  OBVIOUS
<1> HIDE DEF l
<1>4. ASSUME NEW i \in 1..(l - 1)
      PROVE  t[i] = s[Old(i)] /\ Old(i) \in 1..l
  <2>1. CASE i < n
    BY <1>1, <1>2, <1>3, <2>1
  <2>2. CASE ~(i < n)
    BY <1>1, <1>2, <1>3, <2>2
  <2>3. QED
    BY <2>1, <2>2
<1>5. ASSUME NEW i \in 1..(l - 1), NEW j \in 1..(l - 1), i < j
      PROVE  Old(i) < Old(j)
  BY <1>1, <1>3, <1>5
<1> HIDE DEF Old
<1>6. InCallOrder(t)
  <2> SUFFICES ASSUME NEW i \in 1..Len(t), NEW j \in 1..Len(t), i < j
               PROVE  Before(t[i], t[j])
    BY DEF InCallOrder
  <2>1. i \in 1..(l - 1) /\ j \in 1..(l - 1)
    BY <1>2
  <2>2. Before(s[Old(i)], s[Old(j)])
    BY <1>4, <1>5, <2>1 DEF InCallOrder, l
  <2>3. QED
    BY <1>4, <2>1, <2>2
<1>7. OfId(t, k)
  BY <1>2, <1>4 DEF OfId, l
<1>8. ASSUME NEW g, Occurs(g, s), g # s[n]
      PROVE  Occurs(g, t)
  <2>1. PICK i \in 1..l : s[i] = g
    BY <1>8 DEF Occurs, l
  <2>2. i # n
    BY <1>8, <2>1
  <2>3. CASE i < n
    <3>1. i \in 1..(l - 1)
      BY <1>1, <1>3, <2>3
    <3>2. QED
      BY <1>2, <2>1, <2>3, <3>1 DEF Occurs
  <2>4. CASE n < i
    <3>1. i - 1 \in 1..(l - 1) /\ ~(i - 1 < n) /\ (i - 1) + 1 = i
      BY <1>1, <1>3, <2>4
    <3>2. t[i - 1] = s[i]
      BY <1>2, <3>1
    <3>3. QED
      BY <1>2, <2>1, <3>1, <3>2 DEF Occurs
  <2>5. QED
    BY <1>3, <2>2, <2>3, <2>4
<1>9. QED
  BY <1>2, <1>6, <1>7, <1>8 DEF t, T

LEMMA DisconnectSlots ==
  ASSUME KeyTypes, Slots, NEW h \in Nat, Disconnector(h)
  PROVE  Slots'
<1>1. /\ Grown /\ Len(handlers') = Len(handlers)
      /\ h \in 1..Len(handlers) => ~handlers'[h].connected
  BY DisconnectGrows
<1>2. \A g \in 1..Len(handlers) : handlers[g].id \in IdTypes
  BY HandlerFields
<1>3. CASE ~handlers[h].connected /\ UNCHANGED signals
  <2>1. \A k \in IdTypes : InCallOrder(signals[k])' /\ OfId(signals[k], k)'
    <3> SUFFICES ASSUME NEW k \in IdTypes, NEW u, u = signals'[k]
                 PROVE  InCallOrder(u)' /\ OfId(u, k)'
      BY DEF InCallOrder, OfId
    <3>1. u \in Seq(1..Len(handlers)) /\ InCallOrder(u) /\ OfId(u, k)
      BY <1>3 DEF Slots
    <3>2. QED
      BY <1>1, <3>1, OrderStays
  <2>2. ASSUME NEW g \in 1..Len(handlers), handlers'[g].connected
        PROVE  Occurs(g, signals'[handlers'[g].id])
    <3>1. handlers[g].connected /\ handlers'[g].id = handlers[g].id
      BY <1>1, <2>2 DEF Grown
    <3>2. QED
      BY <1>3, <3>1 DEF Slots
  <2>3. signals' \in [IdTypes -> Seq(1..Len(handlers'))]
    BY <1>1, <1>3 DEF Slots
  <2>4. QED
    BY <1>1, <2>1, <2>2, <2>3 DEF Slots, Occurs
<1>4. ASSUME NEW k \in IdTypes, NEW n \in DOMAIN signals[k], signals[k][n] = h,
             signals' = [signals EXCEPT ![k] = RemoveAt(@, n)]
      PROVE  Slots'
  <2>1. PICK m, s, t : m \in Nat /\ m = Len(handlers) /\ s = signals[k] /\ t = RemoveAt(s, n)
    BY HandlerFields
  <2>2. s \in Seq(1..m) /\ n \in 1..Len(s) /\ InCallOrder(s) /\ OfId(s, k) /\ s[n] = h
    BY <1>4, <2>1, LenProperties DEF Slots
  <2>3. /\ t \in Seq(1..m) /\ InCallOrder(t) /\ OfId(t, k)
        /\ \A g : Occurs(g, s) /\ g # h => Occurs(g, t)
    BY <2>1, <2>2, RemovedSound
  <2>4. signals' = [signals EXCEPT ![k] = t] /\ DOMAIN signals = IdTypes
    BY <1>4, <2>1 DEF Slots
  <2>5. \A j \in IdTypes : /\ signals'[j] \in Seq(1..m)
                           /\ InCallOrder(signals[j])' /\ OfId(signals[j], j)'
    <3> SUFFICES ASSUME NEW j \in IdTypes, NEW u, u = signals'[j]
                 PROVE  u \in Seq(1..m) /\ InCallOrder(u)' /\ OfId(u, j)'
      BY DEF InCallOrder, OfId
    <3>1. u = IF j = k THEN t ELSE signals[j]
      BY <2>4
    <3>2. u \in Seq(1..m) /\ InCallOrder(u) /\ OfId(u, j)
      BY <2>1, <2>3, <3>1 DEF Slots
    <3>3. QED
      BY <1>1, <2>1, <3>2, OrderStays
  <2>6. ASSUME NEW g \in 1..m, handlers'[g].connected
        PROVE  Occurs(g, signals'[handlers'[g].id])
    <3>1. h \in 1..m
      BY <2>2, ElementOfSeq
    <3>2. g # h
      BY <1>1, <2>1, <2>6, <3>1
    <3>3. handlers[g].connected /\ handlers'[g].id = handlers[g].id /\ handlers[g].id \in IdTypes
      BY <1>1, <1>2, <2>1, <2>6 DEF Grown
    <3>4. Occurs(g, signals[handlers[g].id])
      BY <2>1, <3>3 DEF Slots
    <3>5. CASE handlers[g].id = k
      BY <2>1, <2>3, <2>4, <3>2, <3>3, <3>4, <3>5
    <3>6. CASE handlers[g].id # k
      BY <2>4, <3>3, <3>4, <3>6
    <3>7. QED
      BY <3>5, <3>6
  <2>7. signals' \in [IdTypes -> Seq(1..m)]
    BY <2>4, <2>5
  <2>8. QED
    BY <1>1, <2>1, <2>5, <2>6, <2>7 DEF Slots, Occurs
<1>5. QED
  BY <1>3, <1>4 DEF Disconnector

----------------------------------------------------------------------------
(* The calls                                                               *)

LEMMA CallsSoundBy ==
  ASSUME calls' \in Seq(Call),
         \A n \in 1..Len(calls') : \E c \in Call : c = calls'[n] /\ CallSound(c)'
  PROVE  CallsSound'
<1>1. DOMAIN calls' = 1..Len(calls')
  BY LenProperties
<1>2. \A c \in ToSet(calls') : CallSound(c)'
  BY <1>1 DEF ToSet
<1>3. QED
  BY <1>2 DEF CallsSound

LEMMA CallsAreSound ==
  ASSUME CallsSound, NEW n \in 1..Len(calls)
  PROVE  calls[n] \in Call /\ CallSound(calls[n])
<1>1. calls[n] \in Call /\ calls[n] \in ToSet(calls)
  BY ElementOfSeq, LenProperties DEF CallsSound, ToSet
<1>2. QED
  BY <1>1 DEF CallsSound

\* Calls that are left alone stay sound, as handlers are added or disconnected.
LEMMA CallsStay ==
  ASSUME KeyTypes, CallsSound, Grown, UNCHANGED calls
  PROVE  CallsSound'
<1>1. calls \in Seq(Call)
  BY DEF CallsSound
<1>2. ASSUME NEW c \in ToSet(calls)
      PROVE  CallSound(c)'
  <2>1. c \in Call
    BY <1>1, ElementOfSeq, LenProperties DEF ToSet
  <2>2. CallSound(c)
    BY DEF CallsSound
  <2>3. QED
    BY <2>1, <2>2, CallStays
<1>3. QED
  BY <1>1, <1>2 DEF CallsSound

LEMMA SameGrows ==
  ASSUME KeyTypes, UNCHANGED handlers
  PROVE  Grown
BY HandlerFields DEF KeyTypes, Grown

LEMMA SlotsStay ==
  ASSUME KeyTypes, Slots, UNCHANGED <<handlers, signals>>
  PROVE  Slots'
<1>1. \A k \in IdTypes : InCallOrder(signals[k])' /\ OfId(signals[k], k)'
  <2> SUFFICES ASSUME NEW k \in IdTypes, NEW u, u = signals'[k]
               PROVE  InCallOrder(u)' /\ OfId(u, k)'
    BY DEF InCallOrder, OfId
  <2>1. u \in Seq(1..Len(handlers)) /\ InCallOrder(u) /\ OfId(u, k)
    BY DEF Slots
  <2>2. QED
    BY <2>1, SameGrows, OrderStays
<1>2. QED
  BY <1>1 DEF Slots, Occurs

\* The calls below the innermost stay what they are.
LEMMA TopChanges ==
  ASSUME KeyTypes, CallsSound, UNCHANGED handlers, calls # <<>>,
         NEW c \in Call, CallSound(c), SetTop(c)
  PROVE  CallsSound'
<1>1. calls \in Seq(Call) /\ Len(calls) \in Nat /\ Len(calls) \in 1..Len(calls)
      /\ DOMAIN calls = 1..Len(calls)
  BY LenProperties, EmptySeq DEF CallsSound
<1>2. calls' \in Seq(Call) /\ Len(calls') = Len(calls)
      /\ \A n \in 1..Len(calls) : calls'[n] = IF n = Len(calls) THEN c ELSE calls[n]
  <2>1. calls' = [calls EXCEPT ![Len(calls)] = c]
    BY DEF SetTop
  <2>2. QED
    BY <1>1, <2>1, ExceptSeq
<1>3. ASSUME NEW n \in 1..Len(calls')
      PROVE  \E d \in Call : d = calls'[n] /\ CallSound(d)'
  <2>1. Grown
    BY SameGrows
  <2>2. PICK d \in Call : d = calls'[n]
    BY <1>2, ElementOfSeq
  <2>3. CallSound(d)
    <3>1. CASE n = Len(calls)
      <4>1. d = c
        BY <1>1, <1>2, <2>2, <3>1
      <4>2. QED
        BY <4>1
    <3>2. CASE n # Len(calls)
      <4>1. d = calls[n] /\ n \in 1..Len(calls)
        BY <1>1, <1>2, <2>2, <3>2
      <4>2. QED
        BY <4>1, CallsAreSound
    <3>3. QED
      BY <3>1, <3>2
  <2>4. QED
    BY <2>1, <2>2, <2>3, CallStays
<1>4. QED
  BY <1>2, <1>3, CallsSoundBy

LEMMA TopIsACall ==
  ASSUME CallsSound, calls # <<>>
  PROVE  Top \in Call /\ CallSound(Top) /\ Len(calls) \in Nat \ {0}
<1>1. calls \in Seq(Call) /\ Len(calls) \in 1..Len(calls) /\ Len(calls) \in Nat \ {0}
  BY LenProperties, EmptySeq DEF CallsSound
<1>2. Top = calls[Len(calls)]
  BY DEF Top, Last
<1>3. Top \in Call
  BY <1>1, <1>2, ElementOfSeq
<1>4. CallSound(calls[Len(calls)])
  BY <1>1, CallsAreSound
<1>5. QED
  BY <1>1, <1>2, <1>3, <1>4

\* The innermost call ends.
LEMMA TopEnds ==
  ASSUME KeyTypes, CallsSound, UNCHANGED handlers, calls # <<>>, calls' = Front(calls)
  PROVE  CallsSound' /\ Len(calls') = Len(calls) - 1
<1>1. calls \in Seq(Call) /\ Len(calls) \in Nat \ {0}
  BY TopIsACall DEF CallsSound
<1>2. PICK m \in 0..Len(calls) : m = Len(calls) - 1 /\ calls' = SubSeq(calls, 1, m)
  BY <1>1 DEF Front
<1>3. calls' \in Seq(Call) /\ Len(calls') = m /\ \A n \in 1..m : calls'[n] = calls[n]
  BY <1>1, <1>2, Parts
<1>4. ASSUME NEW n \in 1..Len(calls')
      PROVE  \E d \in Call : d = calls'[n] /\ CallSound(d)'
  <2>1. Grown
    BY SameGrows
  <2>2. PICK d \in Call : d = calls'[n]
    BY <1>3, ElementOfSeq
  <2>3. d = calls[n] /\ n \in 1..Len(calls)
    BY <1>1, <1>2, <1>3, <2>2
  <2>4. CallSound(d)
    BY <2>3, CallsAreSound
  <2>5. QED
    BY <2>1, <2>2, <2>4, CallStays
<1>5. QED
  BY <1>2, <1>3, <1>4, CallsSoundBy

\* A call begins with the handlers that the signal of its id has.
LEMMA HandleAsStep ==
  ASSUME Inv, NEW id \in IdTypes, HandleAs(id)
  PROVE  CallsSound' /\ Len(calls') = Len(calls) + 1
<1> DEFINE c == [id |-> id, left |-> signals[id], running |-> Nobody,
                 called |-> <<>>, known |-> Len(handlers)]
<1>1. /\ KeyTypes /\ Slots /\ CallsSound /\ Grown
      /\ calls \in Seq(Call) /\ Len(calls) \in Nat /\ Len(handlers) \in Nat
  BY SameGrows, HandlerFields, LenProperties DEF Inv, CallsSound, HandleAs
<1>2. signals[id] \in Seq(1..Len(handlers)) /\ InCallOrder(signals[id]) /\ OfId(signals[id], id)
  BY <1>1 DEF Slots
<1>3. c \in Call
  <2>1. 1..Len(handlers) \subseteq Nat
    BY <1>1
  <2>2. signals[id] \in Seq(Nat)
    BY <1>2, <2>1, SeqMonotonic
  <2>3. <<>> \in Seq(Nat)
    BY EmptySeq
  <2>4. QED
    BY <1>1, <2>2, <2>3 DEF Call, Nobody
<1>4. CallSound(c)
  <2>1. /\ c.known = Len(handlers) /\ c.called = <<>> /\ c.left = signals[id] /\ c.id = id
        /\ c.called \in Seq(1..c.known) /\ Len(c.called) = 0
    BY EmptySeq
  <2> HIDE DEF c
  <2>2. OfId(c.called, c.id) /\ InCallOrder(c.called)
    BY <2>1 DEF OfId, InCallOrder
  <2>3. \A h \in 1..Len(handlers) :
           handlers[h].id = id /\ handlers[h].connected => Occurs(h, signals[id])
    BY <1>1 DEF Slots
  <2>4. c.known \in 0..Len(handlers)
    BY <1>1, <2>1
  <2>5. QED
    BY <1>2, <2>1, <2>2, <2>3, <2>4 DEF CallSound
<1>5. calls' = Append(calls, c)
  BY KeyIsId DEF HandleAs
<1> HIDE DEF c
<1>6. calls' \in Seq(Call) /\ Len(calls') = Len(calls) + 1
      /\ calls'[Len(calls) + 1] = c /\ \A n \in 1..Len(calls) : calls'[n] = calls[n]
  BY <1>1, <1>3, <1>5, AppendProperties
<1>7. ASSUME NEW n \in 1..Len(calls')
      PROVE  \E d \in Call : d = calls'[n] /\ CallSound(d)'
  <2>1. PICK d \in Call : d = calls'[n]
    BY <1>6, ElementOfSeq
  <2>2. CallSound(d)
    <3>1. CASE n = Len(calls) + 1
      <4>1. d = c
        BY <1>6, <2>1, <3>1
      <4>2. QED
        BY <1>4, <4>1
    <3>2. CASE n # Len(calls) + 1
      <4>1. n \in 1..Len(calls) /\ d = calls[n]
        BY <1>1, <1>6, <2>1, <3>2
      <4>2. QED
        BY <1>1, <4>1, CallsAreSound
    <3>3. QED
      BY <3>1, <3>2
  <2>3. QED
    BY <1>1, <2>1, <2>2, CallStays
<1>8. QED
  BY <1>6, <1>7, CallsSoundBy

\* A handler that follows those that were called and comes before those left
\* goes from the one to the other; those in front of it are disconnected.
LEMMA NextIsSound ==
  ASSUME Inv, NEW c \in Call, CallSound(c), NEW i \in DOMAIN c.left, NEW d,
         d = [c EXCEPT !.left = SubSeq(@, i + 1, Len(@)), !.running = c.left[i],
                       !.called = Append(@, c.left[i])],
         \A j \in 1..(i - 1) : ~handlers[c.left[j]].connected
  PROVE  d \in Call /\ CallSound(d)
<1>1. PICK T, s, t, h : T = 1..c.known /\ s = c.called /\ t = c.left /\ h = c.left[i]
  OBVIOUS
<1>2. /\ c.known \in Nat /\ T \subseteq Nat /\ c.known \in 0..Len(handlers)
      /\ s \in Seq(T) /\ t \in Seq(T)
      /\ OfId(s, c.id) /\ OfId(t, c.id) /\ InCallOrder(s) /\ InCallOrder(t)
      /\ \A j \in 1..Len(s), k \in 1..Len(t) : Before(s[j], t[k])
      /\ \A g \in T : handlers[g].id = c.id /\ handlers[g].connected
                         => Occurs(g, s) \/ Occurs(g, t)
  BY <1>1 DEF CallSound, Call
<1>3. PICK l, m : l = Len(s) /\ m = Len(t) /\ l \in Nat /\ m \in Nat /\ i \in 1..m /\ i \in 0..m
  <2>1. Len(s) \in Nat /\ Len(t) \in Nat /\ DOMAIN t = 1..Len(t)
    BY <1>2, LenProperties
  <2>2. i \in 1..Len(t) /\ i \in 0..Len(t)
    BY <1>1, <2>1
  <2>3. QED
    BY <2>1, <2>2
<1>4. h \in T /\ h \in Nat /\ h = t[i]
  BY <1>1, <1>2, <1>3, ElementOfSeq
<1>5. PICK u, v : u = Append(s, h) /\ v = SubSeq(t, i + 1, m)
  OBVIOUS
<1>6. /\ u \in Seq(T) /\ Len(u) = l + 1 /\ u[l + 1] = h
      /\ \A j \in 1..l : u[j] = s[j]
  BY <1>2, <1>3, <1>4, <1>5, AppendProperties
<1>7. v \in Seq(T) /\ Len(v) = m - i /\ \A j \in 1..(m - i) : v[j] = t[i + j]
  BY <1>2, <1>3, <1>5, Parts
<1>8. /\ d = [c EXCEPT !.left = v, !.running = h, !.called = u]
      /\ d.id = c.id /\ d.left = v /\ d.called = u /\ d.known = c.known
  <2>1. d = [c EXCEPT !.left = v, !.running = h, !.called = u]
    BY <1>1, <1>3, <1>5
  <2>2. QED
    BY <2>1 DEF Call
<1>9. d \in Call
  <2>1. u \in Seq(Nat) /\ v \in Seq(Nat)
    BY <1>2, <1>6, <1>7, SeqMonotonic
  <2>2. QED
    BY <1>4, <1>8, <2>1 DEF Call
<1>10. OfId(u, c.id) /\ OfId(v, c.id)
  <2>1. ASSUME NEW j \in 1..(l + 1)
        PROVE  handlers[u[j]].id = c.id
    <3>1. CASE j = l + 1
      BY <1>2, <1>3, <1>4, <1>6, <3>1 DEF OfId
    <3>2. CASE j # l + 1
      <4>1. j \in 1..l /\ u[j] = s[j]
        BY <1>3, <1>6, <3>2
      <4>2. QED
        BY <1>2, <1>3, <4>1 DEF OfId
    <3>3. QED
      BY <3>1, <3>2
  <2>2. ASSUME NEW j \in 1..(m - i)
        PROVE  handlers[v[j]].id = c.id
    <3>1. i + j \in 1..m /\ v[j] = t[i + j]
      BY <1>3, <1>7
    <3>2. QED
      BY <1>2, <1>3, <3>1 DEF OfId
  <2>3. QED
    BY <1>6, <1>7, <2>1, <2>2 DEF OfId
<1>11. InCallOrder(u)
  <2> SUFFICES ASSUME NEW j \in 1..(l + 1), NEW k \in 1..(l + 1), j < k
               PROVE  Before(u[j], u[k])
    BY <1>6 DEF InCallOrder
  <2>1. j \in 1..l /\ u[j] = s[j]
    BY <1>3, <1>6
  <2>2. CASE k = l + 1
    BY <1>2, <1>3, <1>4, <1>6, <2>1, <2>2
  <2>3. CASE k # l + 1
    <3>1. k \in 1..l /\ u[k] = s[k]
      BY <1>3, <1>6, <2>3
    <3>2. QED
      BY <1>2, <1>3, <2>1, <3>1 DEF InCallOrder
  <2>4. QED
    BY <2>2, <2>3
<1>12. InCallOrder(v)
  <2> SUFFICES ASSUME NEW j \in 1..(m - i), NEW k \in 1..(m - i), j < k
               PROVE  Before(v[j], v[k])
    BY <1>7 DEF InCallOrder
  <2>1. i + j \in 1..m /\ i + k \in 1..m /\ i + j < i + k
    BY <1>3
  <2>2. QED
    BY <1>2, <1>3, <1>7, <2>1 DEF InCallOrder
<1>13. ASSUME NEW j \in 1..(l + 1), NEW k \in 1..(m - i)
       PROVE  Before(u[j], v[k])
  <2>1. i + k \in 1..m /\ v[k] = t[i + k] /\ i < i + k
    BY <1>3, <1>7
  <2>2. CASE j = l + 1
    BY <1>2, <1>3, <1>4, <1>6, <2>1, <2>2 DEF InCallOrder
  <2>3. CASE j # l + 1
    <3>1. j \in 1..l /\ u[j] = s[j]
      BY <1>3, <1>6, <2>3
    <3>2. QED
      BY <1>2, <1>3, <2>1, <3>1
  <2>4. QED
    BY <2>2, <2>3
<1>14. ASSUME NEW g \in T, handlers[g].id = c.id, handlers[g].connected
       PROVE  Occurs(g, u) \/ Occurs(g, v)
  <2>1. CASE Occurs(g, s)
    <3>1. PICK j \in 1..l : s[j] = g
      BY <1>3, <2>1 DEF Occurs
    <3>2. j \in 1..(l + 1) /\ u[j] = g
      BY <1>3, <1>6, <3>1
    <3>3. QED
      BY <1>6, <3>2 DEF Occurs
  <2>2. CASE Occurs(g, t)
    <3>1. PICK k \in 1..m : t[k] = g
      BY <1>3, <2>2 DEF Occurs
    <3>2. CASE k < i
      <4>1. k \in 1..(i - 1) /\ t[k] = c.left[k]
        BY <1>1, <1>3, <3>2
      <4>2. QED
        BY <1>14, <3>1, <4>1
    <3>3. CASE k = i
      <4>1. l + 1 \in 1..Len(u) /\ u[l + 1] = g
        BY <1>3, <1>4, <1>6, <3>1, <3>3
      <4>2. QED
        BY <4>1 DEF Occurs
    <3>4. CASE k > i
      <4>1. k - i \in 1..(m - i) /\ i + (k - i) = k
        BY <1>3, <3>4
      <4>2. k - i \in 1..Len(v) /\ v[k - i] = g
        BY <1>7, <3>1, <4>1
      <4>3. QED
        BY <4>2 DEF Occurs
    <3>5. QED
      BY <1>3, <3>2, <3>3, <3>4
  <2>3. QED
    BY <1>2, <1>14, <2>1, <2>2
<1>15. QED
  BY <1>1, <1>2, <1>6, <1>7, <1>8, <1>9, <1>10, <1>11, <1>12, <1>13, <1>14 DEF CallSound

LEMMA CallNextStep ==
  ASSUME Inv, CallNext
  PROVE  CallsSound'
<1>1. Top \in Call /\ CallSound(Top)
  BY TopIsACall DEF Inv, CallNext
<1>2. PICK c \in Call : c = Top
  BY <1>1
<1>3. PICK i \in DOMAIN c.left :
         /\ \A j \in 1..(i - 1) : ~handlers[c.left[j]].connected
         /\ SetTop([c EXCEPT !.left = SubSeq(@, i + 1, Len(@)), !.running = c.left[i],
                             !.called = Append(@, c.left[i])])
  BY <1>2 DEF CallNext
<1>4. PICK d : d = [c EXCEPT !.left = SubSeq(@, i + 1, Len(@)), !.running = c.left[i],
                             !.called = Append(@, c.left[i])]
  OBVIOUS
<1>5. d \in Call /\ CallSound(d)
  BY <1>1, <1>2, <1>3, <1>4, NextIsSound
<1>6. SetTop(d)
  BY <1>3, <1>4
<1>7. QED
  BY <1>5, <1>6, TopChanges DEF Inv, CallNext

LEMMA ReturnStep ==
  ASSUME Inv, ReturnFromHandler
  PROVE  CallsSound'
<1>1. PICK c \in Call : c = Top /\ CallSound(c)
  BY TopIsACall DEF Inv, ReturnFromHandler
<1>2. PICK d : d = [c EXCEPT !.running = Nobody]
  OBVIOUS
<1>3. d \in Call /\ CallSound(d)
  <2>1. /\ d \in Call /\ d.id = c.id /\ d.left = c.left /\ d.called = c.called
        /\ d.known = c.known
    BY <1>2 DEF Call, Nobody
  <2>2. QED
    BY <1>1, <2>1 DEF CallSound
<1>4. SetTop(d)
  BY <1>1, <1>2 DEF ReturnFromHandler
<1>5. QED
  BY <1>3, <1>4, TopChanges DEF Inv, ReturnFromHandler

----------------------------------------------------------------------------
(* The calls in every state                                                *)

LEMMA InitInv == Init => Inv
<1> SUFFICES ASSUME Init
             PROVE  Inv
  OBVIOUS
<1>1. KeyTypes
  BY InitKeyTypes
<1>2. Len(handlers) = 0 /\ \A k \in IdTypes : signals[k] = <<>>
  BY EmptySeq DEF Init
<1>3. Slots
  <2>1. \A T : <<>> \in Seq(T)
    BY EmptySeq
  <2>2. signals \in [IdTypes -> Seq(1..Len(handlers))]
    BY <2>1 DEF Init
  <2>3. Len(<<>>) = 0
    BY EmptySeq
  <2>4. InCallOrder(<<>>) /\ \A k : OfId(<<>>, k)
    BY <2>3 DEF InCallOrder, OfId
  <2>5. QED
    BY <1>2, <2>2, <2>4 DEF Slots
<1>4. CallsSound
  <2>1. ToSet(<<>>) = {}
    BY DEF ToSet
  <2>2. QED
    BY <2>1, EmptySeq DEF Init, CallsSound
<1>5. QED
  BY <1>1, <1>3, <1>4 DEF Inv

LEMMA NextInv == Inv /\ [Next]_vars => Inv'
<1> SUFFICES ASSUME Inv, [Next]_vars
             PROVE  Slots' /\ CallsSound'
  BY NextKeyTypes DEF Inv
<1>1. KeyTypes /\ Slots /\ CallsSound
  BY DEF Inv
<1>2. ASSUME NEW id \in IdTypes, NEW p \in Priorities, NEW o \in Objects, Connect(id, p, o)
      PROVE  Slots' /\ CallsSound'
  <2>1. Slots'
    BY <1>1, <1>2, ConnectSlots
  <2>2. Grown /\ UNCHANGED calls
    BY <1>1, <1>2, ConnectGrows DEF Connect
  <2>3. QED
    BY <1>1, <2>1, <2>2, CallsStay
<1>3. ASSUME NEW o \in Objects, Disconnect(o)
      PROVE  Slots' /\ CallsSound'
  <2>1. PICK h \in Nat : h = objects[o].conn /\ Disconnector(h) /\ UNCHANGED calls
    BY <1>1, <1>3 DEF Disconnect, KeyTypes, Object
  <2>2. Slots' /\ Grown
    BY <1>1, <2>1, DisconnectSlots, DisconnectGrows
  <2>3. QED
    BY <1>1, <2>1, <2>2, CallsStay
<1>4. ASSUME UNCHANGED <<handlers, signals>>
      PROVE  Slots' /\ (UNCHANGED calls => CallsSound')
  <2>1. Slots'
    BY <1>1, <1>4, SlotsStay
  <2>2. Grown
    BY <1>1, <1>4, SameGrows
  <2>3. QED
    BY <1>1, <2>1, <2>2, CallsStay
<1>5. ASSUME NEW id \in IdTypes, HandleAs(id)
      PROVE  Slots' /\ CallsSound'
  BY <1>4, <1>5, HandleAsStep DEF HandleAs
<1>6. CASE CallNext
  <2>1. UNCHANGED <<handlers, signals>>
    BY <1>6 DEF CallNext
  <2>2. QED
    BY <1>4, <1>6, <2>1, CallNextStep
<1>7. CASE ReturnFromHandler
  <2>1. UNCHANGED <<handlers, signals>>
    BY <1>7 DEF ReturnFromHandler
  <2>2. QED
    BY <1>4, <1>7, <2>1, ReturnStep
<1>8. CASE Throw \/ ReturnFromHandleAs
  <2>1. UNCHANGED <<handlers, signals>> /\ calls # <<>> /\ calls' = Front(calls)
    BY <1>8 DEF Throw, ReturnFromHandleAs
  <2>2. CallsSound'
    BY <1>1, <2>1, TopEnds
  <2>3. QED
    BY <1>4, <2>1, <2>2
<1>9. CASE \E o, other \in Objects : Copy(o, other)
  <2>1. UNCHANGED <<handlers, signals>> /\ UNCHANGED calls
    BY <1>9 DEF Copy
  <2>2. QED
    BY <1>4, <2>1
<1>10. CASE UNCHANGED vars
  <2>1. UNCHANGED <<handlers, signals>> /\ UNCHANGED calls
    BY <1>10 DEF vars
  <2>2. QED
    BY <1>4, <2>1
<1>11. CASE Next
  BY <1>2, <1>3, <1>5, <1>6, <1>7, <1>8, <1>9, <1>11 DEF Next
<1>12. QED
  BY <1>10, <1>11

LEMMA Invariant == Spec => []Inv
  BY InitInv, NextInv, PTL DEF Spec

----------------------------------------------------------------------------
(* Who is in a signal                                                      *)

\* A signal has the handlers that are connected, and no others.
SlotsConnected ==
    \A k \in IdTypes : \A i \in 1..Len(signals[k]) : handlers[signals[k][i]].connected

\* The order of a signal is strict, so that no handler is in it twice.
LEMMA InSlotOnce ==
  ASSUME KeyTypes, NEW s \in Seq(1..Len(handlers)), InCallOrder(s),
         NEW i \in 1..Len(s), NEW j \in 1..Len(s), s[i] = s[j]
  PROVE  i = j
<1>1. i \in Int /\ j \in Int /\ Rank(s[i]) \in Int /\ s[i] \in Nat
  <2>1. Len(handlers) \in Nat /\ Len(s) \in Nat /\ s[i] \in 1..Len(handlers)
    BY HandlerFields, LenProperties, ElementOfSeq
  <2>2. QED
    BY <2>1, HandlerFields
<1>2. ~Before(s[i], s[j]) /\ ~Before(s[j], s[i])
  BY <1>1 DEF Before
<1>3. QED
  BY <1>1, <1>2 DEF InCallOrder

LEMMA ConnectConnected ==
  ASSUME KeyTypes, Slots, SlotsConnected,
         NEW id \in IdTypes, NEW p \in Priorities, NEW o \in Objects, Connect(id, p, o)
  PROVE  SlotsConnected'
<1>1. PICK h, s, t : h = Len(handlers) + 1 /\ s = signals[id] /\ t = signals'[id]
  OBVIOUS
<1>2. /\ handlers'[h].connected
      /\ \A g \in 1..Len(handlers) : handlers'[g] = handlers[g]
  <2>1. /\ handlers'[h] = [id |-> id, priority |-> p, connected |-> TRUE]
        /\ \A g \in 1..Len(handlers) : handlers'[g] = handlers[g]
    BY <1>1, ConnectGrows
  <2>2. QED
    BY <2>1
<1>3. ASSUME NEW k \in IdTypes, NEW i \in 1..Len(signals[k])
      PROVE  handlers'[signals[k][i]].connected
  <2>1. signals[k] \in Seq(1..Len(handlers))
    BY DEF Slots
  <2>2. signals[k][i] \in 1..Len(handlers)
    BY <2>1, ElementOfSeq
  <2>3. QED
    BY <1>2, <2>2 DEF SlotsConnected
<1>4. \A i \in 1..Len(t) : handlers'[t[i]].connected
  <2>1. Len(s) \in Nat /\ Len(t) = Len(s) + 1
    BY <1>1, ConnectInserts, LenProperties DEF Slots
  <2>2. PICK n \in 0..Len(s) :
          /\ \A i \in 1..n : t[i] = s[i]
          /\ t[n + 1] = h
          /\ \A i \in (n + 2)..(Len(s) + 1) : t[i] = s[i - 1]
    BY <1>1, ConnectInserts
  <2> SUFFICES ASSUME NEW i \in 1..Len(t)
               PROVE  handlers'[t[i]].connected
    OBVIOUS
  <2>3. CASE i \in 1..n
    <3>1. i \in 1..Len(s)
      BY <2>1, <2>3
    <3>2. QED
      BY <1>1, <1>3, <2>2, <2>3, <3>1
  <2>4. CASE i = n + 1
    BY <1>2, <2>2, <2>4
  <2>5. CASE i \in (n + 2)..(Len(s) + 1)
    <3>1. i - 1 \in 1..Len(s)
      BY <2>1, <2>5
    <3>2. QED
      BY <1>1, <1>3, <2>2, <2>5, <3>1
  <2>6. QED
    BY <2>1, <2>3, <2>4, <2>5
<1>5. \A k \in IdTypes : k # id => signals'[k] = signals[k]
  BY KeyIsId DEF Connect, Slots
<1>6. QED
  BY <1>1, <1>3, <1>4, <1>5 DEF SlotsConnected

LEMMA DisconnectConnected ==
  ASSUME KeyTypes, Slots, SlotsConnected, NEW h \in Nat, Disconnector(h)
  PROVE  SlotsConnected'
<1>1. \A g \in 1..Len(handlers) : g # h => handlers'[g] = handlers[g]
  BY HandlerFields DEF Disconnector
<1>2. \A k \in IdTypes : /\ signals[k] \in Seq(1..Len(handlers)) /\ InCallOrder(signals[k])
                         /\ OfId(signals[k], k)
                         /\ Len(signals[k]) \in Nat
                         /\ DOMAIN signals[k] = 1..Len(signals[k])
  BY LenProperties DEF Slots
<1>3. ASSUME NEW k \in IdTypes, NEW i \in 1..Len(signals[k]), signals[k][i] # h
      PROVE  handlers'[signals[k][i]].connected
  <2>1. signals[k][i] \in 1..Len(handlers)
    BY <1>2, ElementOfSeq
  <2>2. QED
    BY <1>1, <1>3, <2>1 DEF SlotsConnected
<1>4. CASE ~handlers[h].connected /\ UNCHANGED signals
  BY <1>3, <1>4 DEF SlotsConnected
<1>5. ASSUME NEW k \in IdTypes, NEW n \in DOMAIN signals[k], signals[k][n] = h,
             signals' = [signals EXCEPT ![k] = RemoveAt(@, n)]
      PROVE  SlotsConnected'
  <2>1. PICK s, l, t : s = signals[k] /\ l = Len(s) /\ t = RemoveAt(s, n)
    OBVIOUS
  <2>2. /\ s \in Seq(1..Len(handlers)) /\ l \in Nat /\ n \in 1..l
        /\ InCallOrder(s) /\ OfId(s, k) /\ s[n] = h
    BY <1>2, <1>5, <2>1
  <2>3. Len(t) = l - 1 /\ \A i \in 1..(l - 1) : t[i] = IF i < n THEN s[i] ELSE s[i + 1]
    BY <2>1, <2>2, Removed
  <2>4. ASSUME NEW i \in 1..Len(t)
        PROVE  handlers'[t[i]].connected
    <3>1. PICK j \in 1..l : t[i] = s[j] /\ j # n
      <4>1. CASE i < n
        <5>1. i \in 1..l /\ i # n /\ i \in 1..(l - 1)
          BY <2>2, <2>3, <4>1
        <5>2. QED
          BY <2>3, <4>1, <5>1
      <4>2. CASE ~(i < n)
        <5>1. i + 1 \in 1..l /\ i + 1 # n /\ i \in 1..(l - 1)
          BY <2>2, <2>3, <4>2
        <5>2. QED
          BY <2>3, <4>2, <5>1
      <4>3. QED
        BY <4>1, <4>2
    <3>2. s[j] # h
      BY <2>1, <2>2, <3>1, InSlotOnce
    <3>3. QED
      BY <1>3, <2>1, <3>1, <3>2
  <2>5. ASSUME NEW j \in IdTypes, j # k, NEW i \in 1..Len(signals[j])
        PROVE  handlers'[signals[j][i]].connected
    <3>1. handlers[h].id = k /\ handlers[signals[j][i]].id = j
      BY <1>2, <2>1, <2>2 DEF OfId
    <3>2. QED
      BY <1>3, <2>5, <3>1
  <2>6. signals' = [signals EXCEPT ![k] = t] /\ DOMAIN signals = IdTypes
    BY <1>5, <2>1 DEF Slots
  <2>7. QED
    BY <2>4, <2>5, <2>6 DEF SlotsConnected
<1>6. QED
  BY <1>4, <1>5 DEF Disconnector

LEMMA NextConnected == Inv /\ SlotsConnected /\ [Next]_vars => SlotsConnected'
<1> SUFFICES ASSUME Inv, SlotsConnected, [Next]_vars
             PROVE  SlotsConnected'
  OBVIOUS
<1>1. KeyTypes /\ Slots
  BY DEF Inv
<1>2. ASSUME UNCHANGED <<handlers, signals>>
      PROVE  SlotsConnected'
  BY <1>2 DEF SlotsConnected
<1>3. ASSUME NEW id \in IdTypes, NEW p \in Priorities, NEW o \in Objects, Connect(id, p, o)
      PROVE  SlotsConnected'
  BY <1>1, <1>3, ConnectConnected
<1>4. ASSUME NEW o \in Objects, Disconnect(o)
      PROVE  SlotsConnected'
  <2>1. objects[o].conn \in Nat /\ Disconnector(objects[o].conn)
    BY <1>1, <1>4 DEF Disconnect, KeyTypes, Object
  <2>2. QED
    BY <1>1, <2>1, DisconnectConnected
<1>5. CASE \E o, other \in Objects : Copy(o, other)
  BY <1>2, <1>5 DEF Copy
<1>6. CASE \E id \in IdTypes : HandleAs(id)
  BY <1>2, <1>6 DEF HandleAs
<1>7. CASE CallNext \/ ReturnFromHandler \/ Throw \/ ReturnFromHandleAs
  BY <1>2, <1>7 DEF CallNext, ReturnFromHandler, Throw, ReturnFromHandleAs
<1>8. CASE UNCHANGED vars
  BY <1>2, <1>8 DEF vars
<1>9. QED
  BY <1>3, <1>4, <1>5, <1>6, <1>7, <1>8 DEF Next

\* Ids of any enums and values, whatever their hashes: a handler is found under
\* the id that it was connected to, once, as long as it is connected, and under
\* no other id (event.hpp:757, event_manager.cpp:45-47, 131).
THEOREM AlwaysFoundUnderItsId == Spec => []FoundUnderItsId
<1>1. Init => SlotsConnected
  BY EmptySeq DEF Init, SlotsConnected
<1>2. Inv /\ SlotsConnected => FoundUnderItsId
  <2> SUFFICES ASSUME Inv, SlotsConnected, NEW id \in IdTypes, NEW s, s = signals[id]
               PROVE  /\ IsInjective(s)
                      /\ ToSet(s) = {h \in DOMAIN handlers :
                                        handlers[h].id = id /\ handlers[h].connected}
    BY KeyIsId DEF FoundUnderItsId
  <2>1. /\ KeyTypes /\ s \in Seq(1..Len(handlers)) /\ InCallOrder(s) /\ OfId(s, id)
        /\ DOMAIN s = 1..Len(s) /\ DOMAIN handlers = 1..Len(handlers)
    BY HandlerFields, LenProperties DEF Inv, Slots
  <2>2. IsInjective(s)
    BY <2>1, InSlotOnce DEF IsInjective
  <2>3. ASSUME NEW i \in 1..Len(s)
        PROVE  /\ s[i] \in DOMAIN handlers
               /\ handlers[s[i]].id = id /\ handlers[s[i]].connected
    BY <2>1, ElementOfSeq DEF OfId, SlotsConnected
  <2>4. ASSUME NEW h \in DOMAIN handlers, handlers[h].id = id, handlers[h].connected
        PROVE  h \in ToSet(s)
    <3>1. Occurs(h, s)
      BY <2>1, <2>4 DEF Inv, Slots
    <3>2. QED
      BY <2>1, <3>1 DEF Occurs, ToSet
  <2>5. QED
    BY <2>1, <2>2, <2>3, <2>4 DEF ToSet
<1>3. QED
  BY <1>1, <1>2, NextConnected, Invariant, PTL DEF Spec

\* Whatever handlers connect, disconnect and call while they are called, each
\* call goes through handlers of its id, earlier priorities first and within a
\* priority in the order of connect() (event_manager.cpp:132, 176).
THEOREM CallsInOrder == Spec => []CalledInOrder
<1>1. Inv => CalledInOrder
  <2> SUFFICES ASSUME Inv, NEW c \in ToSet(calls)
               PROVE  /\ \A h \in ToSet(c.called) : handlers[h].id = c.id
                      /\ \A i, j \in DOMAIN c.called :
                            i < j => Before(c.called[i], c.called[j])
    BY DEF CalledInOrder, Before
  <2>1. CallSound(c)
    BY DEF Inv, CallsSound
  <2>2. DOMAIN c.called = 1..Len(c.called)
    BY <2>1, LenProperties DEF CallSound
  <2>3. \A h \in ToSet(c.called) : handlers[h].id = c.id
    BY <2>1, <2>2 DEF ToSet, CallSound, OfId
  <2>4. QED
    BY <2>1, <2>2, <2>3 DEF CallSound, InCallOrder
<1>2. QED
  BY <1>1, Invariant, PTL

\* A call that no exception ends has called exactly those of the handlers
\* still connected to its id that were there when it began
\* (event_manager.cpp:176).
THEOREM CallsAreComplete == Spec => CallsWhoWasThere
<1>1. ASSUME Inv, Next, Len(calls') < Len(calls), Top.running = Nobody,
             NEW h \in DOMAIN handlers, handlers[h].id = Top.id, handlers[h].connected
      PROVE  h \in ToSet(Top.called) <=> h <= Top.known
  <2>1. calls # <<>> /\ CallSound(Top) /\ Len(calls) \in Nat
    <3>1. Len(calls) \in Nat /\ Len(calls') \in Nat
      <4>1. CallsSound /\ CallsSound'
        BY <1>1, NextInv DEF Inv
      <4>2. QED
        BY <4>1, LenProperties DEF CallsSound
    <3>2. calls # <<>>
      BY <1>1, <3>1, EmptySeq
    <3>3. QED
      BY <1>1, <3>1, <3>2, TopIsACall DEF Inv
  <2>2. ReturnFromHandleAs
    <3>1. ASSUME Len(calls') = Len(calls)
          PROVE  FALSE
      BY <1>1, <2>1, <3>1
    <3>2. ASSUME NEW c, SetTop(c)
          PROVE  FALSE
      <4>1. calls \in Seq(Call) /\ DOMAIN calls = 1..Len(calls)
        BY <1>1, LenProperties DEF Inv, CallsSound
      <4>2. calls' = [calls EXCEPT ![Len(calls)] = c]
        BY <3>2 DEF SetTop
      <4>3. Len(calls') = Len(calls)
        BY <2>1, <4>1, <4>2
      <4>4. QED
        BY <3>1, <4>3
    <3>3. ~CallNext /\ ~ReturnFromHandler
      BY <3>2 DEF CallNext, ReturnFromHandler
    <3>4. ASSUME NEW id \in IdTypes, HandleAs(id)
          PROVE  FALSE
      <4>1. Len(calls') = Len(calls) + 1
        BY <1>1, <3>4, HandleAsStep
      <4>2. QED
        BY <1>1, <2>1, <4>1
    <3>5. ~Throw
      BY <1>1 DEF Throw
    <3>6. UNCHANGED calls => FALSE
      BY <3>1
    <3>7. QED
      BY <1>1, <3>3, <3>4, <3>5, <3>6 DEF Next, Connect, Disconnect, Copy
  <2>3. PICK c : c = Top
    OBVIOUS
  <2>4. /\ CallSound(c) /\ c.called \in Seq(1..c.known) /\ c.left \in Seq(1..c.known)
        /\ c.known \in Nat
        /\ DOMAIN c.called = 1..Len(c.called) /\ DOMAIN c.left = 1..Len(c.left)
        /\ h \in Nat /\ h >= 1
    <3>1. DOMAIN handlers = 1..Len(handlers) /\ Len(handlers) \in Nat
      BY <1>1, HandlerFields DEF Inv
    <3>2. QED
      BY <1>1, <2>1, <2>3, <3>1, LenProperties DEF CallSound
  <2>5. ~Occurs(h, c.left)
    BY <1>1, <2>2, <2>3, <2>4 DEF ReturnFromHandleAs, Occurs
  <2>6. Occurs(h, c.called) <=> h \in ToSet(c.called)
    BY <2>4 DEF Occurs, ToSet
  <2>7. Occurs(h, c.called) => h <= c.known
    BY <2>4, ElementOfSeq DEF Occurs
  <2>8. h <= c.known => Occurs(h, c.called)
    BY <1>1, <2>3, <2>4, <2>5 DEF CallSound
  <2>9. QED
    BY <2>3, <2>6, <2>7, <2>8
<1>2. ASSUME UNCHANGED vars, Inv
      PROVE  ~(Len(calls') < Len(calls))
  <2>1. Len(calls) \in Nat
    BY <1>2, LenProperties DEF Inv, CallsSound
  <2>2. QED
    BY <1>2, <2>1 DEF vars
<1>3. Inv /\ [Next]_vars =>
         [Len(calls') < Len(calls) /\ Top.running = Nobody =>
            \A h \in DOMAIN handlers :
                handlers[h].id = Top.id /\ handlers[h].connected =>
                    (h \in ToSet(Top.called) <=> h <= Top.known)]_vars
  BY <1>1, <1>2
<1>4. QED
  BY <1>3, Invariant, PTL DEF Spec, CallsWhoWasThere
=============================================================================
