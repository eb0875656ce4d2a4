----------------------------- MODULE IdSequences -----------------------------
(***************************************************************************)
(* What the event ids of an event and their abstract queue both do to a    *)
(* sequence of ids.                                                        *)
(***************************************************************************)
EXTENDS Naturals, Sequences

\* The ids that occur in s.
Occurring(s) == {s[i] : i \in DOMAIN s}

\* std::remove followed by erase: s without the ids of S.
Without(s, S) ==
    LET kept[n \in 0..Len(s)] ==
            IF n = 0 THEN <<>>
            ELSE IF s[n] \in S THEN kept[n - 1] ELSE Append(kept[n - 1], s[n])
    IN kept[Len(s)]
=============================================================================
