------------------------------- MODULE Signals -------------------------------
(***************************************************************************)
(* The handlers of an event manager: connect(), the connection objects it  *)
(* returns, and handle_as(), which calls the handlers of the current id.   *)
(*                                                                         *)
(* One thread runs all of it.  A handler may connect and disconnect        *)
(* handlers, itself too, and call handle_as() again, so calls nest.  The   *)
(* n-th handler connected is the number n.  boost::signals2 is external: a *)
(* call of a signal goes through the handlers it had when the call began   *)
(* and leaves out those that have been disconnected meanwhile.             *)
(***************************************************************************)
EXTENDS EventIdType, Integers, Sequences, SequencesExt

CONSTANTS
    Priorities,  \* the names of connection_priority in use
    MaxHandlers, \* bound on the calls of connect()
    Objects,     \* connection objects the program keeps
    MaxDepth     \* bound on the nesting of handle_as()

\* connection_priority, called from the least to the greatest value.
Priority ==
    [first |-> -1000, filter |-> -800, highest |-> -600, higher |-> -400,
     high |-> -200, normal |-> 0, low |-> 200, lower |-> 400, lowest |-> 600,
     summarize |-> 800, last |-> 1000]

ASSUME SignalsAssumption ==
    /\ Priorities \subseteq DOMAIN Priority
    /\ MaxHandlers \in Nat
    /\ MaxDepth \in Nat

VARIABLES
    handlers, \* what connect() was called with, and whether it is connected
    signals,  \* impl::signals: the connected handlers of each id, in order
    objects,  \* the manager (0 for nullptr) and disconnector of each object
    calls     \* the calls of handle_as() under way, the innermost last; each
              \* with the handlers it has called and, for the properties, how
              \* many handlers there were when it began

vars == <<handlers, signals, objects, calls>>

Nobody     == 0
Unattached == [emgr |-> 0, conn |-> Nobody]

Init ==
    /\ handlers = <<>>
    /\ signals = [i \in IdTypes |-> <<>>]
    /\ objects = [o \in Objects |-> Unattached]
    /\ calls = <<>>

\* The program runs its own code: outside of any call, or in a handler.
UserCode == calls # <<>> => Last(calls).running # Nobody

----------------------------------------------------------------------------
(* The map of signals                                                      *)

\* The key that operator[] of the unordered map finds id under; it inserts the
\* key if it is not there, with a signal that has no handlers.
KeyOf(id) == CHOOSE k \in IdTypes : Hash(k) = Hash(id) /\ Equal(k, id)

Rank(h) == Priority[handlers[h].priority]

\* Variant: connect(slot), which leaves the priority out.
InPlaceAtEnd(slots, h, priority) == Append(slots, h)

\* signal::connect(group, slot): at the end of its group, and the groups in
\* order.
InPlace(slots, h, priority) ==
    LET n == CHOOSE n \in 0..Len(slots) :
                 /\ \A i \in 1..n : Rank(slots[i]) <= Priority[priority]
                 /\ \A i \in (n + 1)..Len(slots) : Rank(slots[i]) > Priority[priority]
    IN  InsertAt(slots, n + 1, h)

----------------------------------------------------------------------------
(* Connecting and disconnecting                                            *)

\* connect(): the handler goes into the signal, and make_connection() attaches
\* the object that the result is assigned to.
Connect(id, priority, o) ==
    LET h == Len(handlers) + 1 IN
    /\ UserCode
    /\ h <= MaxHandlers
    /\ handlers' = Append(handlers, [id |-> id, priority |-> priority, connected |-> TRUE])
    /\ signals' = [signals EXCEPT ![KeyOf(id)] = InPlace(@, h, priority)]
    /\ objects' = [objects EXCEPT ![o] = [emgr |-> 1, conn |-> h]]
    /\ UNCHANGED calls

\* disconnect_signals2: to disconnect twice does nothing.
Disconnector(h) ==
    /\ handlers' = [handlers EXCEPT ![h].connected = FALSE]
    /\ \/ \E k \in IdTypes : \E i \in DOMAIN signals[k] :
              /\ signals[k][i] = h
              /\ signals' = [signals EXCEPT ![k] = RemoveAt(@, i)]
       \/ /\ ~handlers[h].connected
          /\ UNCHANGED signals

\* connection::disconnect(); nothing happens for an unattached object.
Disconnect(o) ==
    /\ UserCode
    /\ objects[o].emgr # 0
    /\ Disconnector(objects[o].conn)
    /\ objects' = [objects EXCEPT ![o] = Unattached]
    /\ UNCHANGED calls

\* A connection object is assigned to another one.
Copy(o, other) ==
    /\ UserCode
    /\ objects' = [objects EXCEPT ![other] = objects[o]]
    /\ UNCHANGED <<handlers, signals, calls>>

----------------------------------------------------------------------------
(* Comparing connection objects                                            *)

\* Variant: not strict.
ConnectionLessOrEqual(lhs, rhs) == lhs.conn <= rhs.conn

\* connection_less(): the order of the signals2 connections.
ConnectionLess(lhs, rhs) == lhs.conn < rhs.conn

\* operator!= of connection.
Differ(lhs, rhs) ==
    \/ lhs.emgr # rhs.emgr
    \/ lhs.emgr # 0 /\ (ConnectionLess(lhs, rhs) \/ ConnectionLess(rhs, lhs))

\* std::less<connection>.
ObjectLess(lhs, rhs) ==
    IF lhs.emgr # rhs.emgr THEN lhs.emgr < rhs.emgr
    ELSE lhs.emgr # 0 /\ ConnectionLess(lhs, rhs)

----------------------------------------------------------------------------
(* handle_as()                                                             *)

Top == Last(calls)
SetTop(call) == calls' = [calls EXCEPT ![Len(calls)] = call]

\* handle_as() of an event whose current_id is id.
HandleAs(id) ==
    /\ UserCode
    /\ Len(calls) < MaxDepth
    /\ calls' = Append(calls, [id |-> id, left |-> signals[KeyOf(id)], running |-> Nobody,
                               called |-> <<>>, known |-> Len(handlers)])
    /\ UNCHANGED <<handlers, signals, objects>>

\* Variant: the handlers the signal has now, not those it had.
CallNextLive ==
    LET live == SelectSeq(signals[KeyOf(Top.id)], LAMBDA h : h \notin ToSet(Top.called)) IN
    /\ calls # <<>> /\ Top.running = Nobody
    /\ live # <<>>
    /\ SetTop([Top EXCEPT !.left = <<>>, !.running = Head(live),
                          !.called = Append(@, Head(live))])
    /\ UNCHANGED <<handlers, signals, objects>>

\* The signal calls the next handler that is connected.
CallNext ==
    /\ calls # <<>> /\ Top.running = Nobody
    /\ \E i \in DOMAIN Top.left :
          /\ handlers[Top.left[i]].connected
          /\ \A j \in 1..(i - 1) : ~handlers[Top.left[j]].connected
          /\ SetTop([Top EXCEPT !.left = SubSeq(@, i + 1, Len(@)), !.running = Top.left[i],
                                !.called = Append(@, Top.left[i])])
    /\ UNCHANGED <<handlers, signals, objects>>

\* The handler returns.
ReturnFromHandler ==
    /\ calls # <<>> /\ Top.running # Nobody
    /\ SetTop([Top EXCEPT !.running = Nobody])
    /\ UNCHANGED <<handlers, signals, objects>>

\* A handler throws: the exception passes through the signal and handle_as()
\* to the handler that called it, which may throw in turn.
Throw ==
    /\ calls # <<>> /\ Top.running # Nobody
    /\ calls' = Front(calls)
    /\ UNCHANGED <<handlers, signals, objects>>

\* No handler is left that is connected: handle_as() returns.
ReturnFromHandleAs ==
    /\ calls # <<>> /\ Top.running = Nobody
    /\ \A i \in DOMAIN Top.left : ~handlers[Top.left[i]].connected
    /\ calls' = Front(calls)
    /\ UNCHANGED <<handlers, signals, objects>>

Next ==
    \/ \E id \in IdTypes \ {Invalid}, p \in Priorities, o \in Objects : Connect(id, p, o)
    \/ \E o \in Objects : Disconnect(o)
    \/ \E o, other \in Objects : Copy(o, other)
    \/ \E id \in IdTypes \ {Invalid} : HandleAs(id)
    \/ CallNext
    \/ ReturnFromHandler
    \/ Throw
    \/ ReturnFromHandleAs

Spec == Init /\ [][Next]_vars

----------------------------------------------------------------------------
(* Properties                                                              *)

\* A handler is found under the id that it was connected to, once, while it is
\* connected, and under no other id, though ids of two enums have one value
\* and the invalid id has a value too, though every object that refers to it
\* may disconnect it, and while calls of signals are under way (event.hpp:757,
\* event_manager.cpp:45-47, 131).
FoundUnderItsId ==
    \A id \in IdTypes :
        LET slots == signals[KeyOf(id)]
        IN  /\ IsInjective(slots)
            /\ ToSet(slots) =
                   {h \in DOMAIN handlers : handlers[h].id = id /\ handlers[h].connected}

\* Whatever handlers do while they are called, a call goes through the
\* handlers of its id only, earlier priorities first and within a priority in
\* the order of connect(): event_manager.cpp:131-136, 176.  That is what the
\* code does for every priority; for the priority first,
\* apis/event_manager.hpp:212 says that handlers are added in a last come,
\* first serve manner, which connect() does not do.
CalledInOrder ==
    \A c \in ToSet(calls) :
        /\ \A h \in ToSet(c.called) : handlers[h].id = c.id
        /\ \A i, j \in DOMAIN c.called :
              LET g == c.called[i]
                  h == c.called[j]
              IN  i < j => \/ Rank(g) < Rank(h)
                           \/ Rank(g) = Rank(h) /\ g < h

\* Who is connected to an id when handle_as() begins is called unless it is
\* disconnected or an exception ends the call, and nobody connected later is:
\* what a handler connects takes part from the next call on
\* (event_manager.cpp:176).
CallsWhoWasThere ==
    [][Len(calls') < Len(calls) /\ Top.running = Nobody =>
          \A h \in DOMAIN handlers :
              handlers[h].id = Top.id /\ handlers[h].connected =>
                  (h \in ToSet(Top.called) <=> h <= Top.known)]_vars

\* Connection objects can be the keys of a std::map, as what operator== tells
\* apart is what std::less orders: also attached objects beside those that
\* have been disconnected (apis/event_manager.hpp:149-168, 363-370).
ObjectsAreKeys ==
    \A a, b, c \in Objects :
        LET x == objects[a]
            y == objects[b]
            z == objects[c]
        IN  /\ Differ(x, y) <=> (ObjectLess(x, y) <=> ~ObjectLess(y, x))
            /\ ~(ObjectLess(x, y) /\ ObjectLess(y, x))
            /\ ObjectLess(x, y) /\ ObjectLess(y, z) => ObjectLess(x, z)
==============================================================================
