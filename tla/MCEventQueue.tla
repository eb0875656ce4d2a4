---------------------------- MODULE MCEventQueue ----------------------------
(* Small instances of EventQueue.                                          *)
EXTENDS EventQueue, TLC

CONSTANTS h1, b1, b2

\* One call of handle() that ends with two events for immediate handling.
BatchOfTwo == [h \in {h1} |-> <<b1, b2>>]
NoBatch == <<>>

CallSymmetry == Permutations(Posts) \cup Permutations(Waits)
                \cup Permutations(TimedWaits) \cup Permutations(Callbacks)
=============================================================================
