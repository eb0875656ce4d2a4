------------------------------ MODULE MCSignals ------------------------------
EXTENDS Signals

\* The hashes that tell the fewest ids apart: all are that of the invalid id,
\* so that operator== alone finds the right one in the bucket.
OneBucket == [e \in Enums |-> [v \in Values |-> 0]]

\* The program does not tell its connection objects apart.
ObjectSymmetry == Permutations(Objects)
==============================================================================
