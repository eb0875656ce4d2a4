----------------------------- MODULE MCEventIds -----------------------------
(* Small instances of EventIds.                                            *)
EXTENDS EventIds, SequencesExt

\* Every single id and every range of two.
RangesUpTo2 == BoundedSeq(Ids \cup {Invalid}, 2)
=============================================================================
