--------------------------- MODULE EventIdsProofs ---------------------------
(***************************************************************************)
(* Proofs about the event ids of an event, for every set of ids, every set *)
(* of ranges and a vector of any length, of a client that does not call    *)
(* unqueue() for ids it has popped.                                        *)
(*                                                                         *)
(* Without is a recursive function.  The first part shows by induction     *)
(* over sets of numbers and of sequences what it computes; the second      *)
(* proves that a range queued id by id takes effect as one operation.      *)
(***************************************************************************)
EXTENDS EventIds, Integers, SequenceTheorems, WellFoundedInduction, TLAPS

----------------------------------------------------------------------------
(* Induction                                                               *)

LEMMA LeastElement ==
  ASSUME NEW T, T \subseteq Nat, T # {}
  PROVE  \E x \in T : \A y \in T : x <= y
<1> DEFINE R == OpToRel(<, Nat)
<1>1. IsWellFoundedOn(R, Nat)
  BY NatLessThanWellFounded
<1>2. ASSUME NEW x \in Nat, NEW y \in Nat, <<y, x>> \notin R
      PROVE  x <= y
  BY <1>2 DEF OpToRel
<1> HIDE DEF R
<1>3. PICK x \in T : \A y \in T : <<y, x>> \notin R
  BY <1>1, WFMin
<1>4. ASSUME NEW y \in T
      PROVE  x <= y
  <2>1. x \in Nat /\ y \in Nat /\ <<y, x>> \notin R
    BY <1>3
  <2>2. QED
    BY <2>1, <1>2
<1>5. QED
  BY <1>4

\* A set of numbers that has 0 and the successors of its elements has them all.
LEMMA Induction ==
  ASSUME NEW N \in Nat, NEW G, 0 \in G,
         \A n \in 0..(N - 1) : n \in G => n + 1 \in G
  PROVE  \A n \in 0..N : n \in G
<1> DEFINE Bad == {n \in 0..N : n \notin G}
<1>1. SUFFICES ASSUME Bad # {} PROVE FALSE
  OBVIOUS
<1>2. PICK x \in Bad : \A y \in Bad : x <= y
  <2>1. Bad \subseteq Nat
    OBVIOUS
  <2> HIDE DEF Bad
  <2>2. QED
    BY <1>1, <2>1, LeastElement
<1>3. x \in 0..N /\ x # 0 /\ x \notin G
  OBVIOUS
<1>4. x - 1 \in 0..(N - 1) /\ x - 1 \in 0..N
  BY <1>3
<1>5. x - 1 \in G
  BY <1>2, <1>3, <1>4
<1>6. (x - 1) + 1 \in G
  BY <1>4, <1>5
<1>7. (x - 1) + 1 = x
  BY <1>3
<1>8. QED
  BY <1>3, <1>6, <1>7

\* A set that has <<>> and what appending to its sequences makes has them all.
LEMMA AppendInduction ==
  ASSUME NEW T, NEW G, <<>> \in G,
         \A s \in Seq(T), x \in T : s \in G => Append(s, x) \in G
  PROVE  \A s \in Seq(T) : s \in G
<1> SUFFICES ASSUME NEW s \in Seq(T) PROVE s \in G
  OBVIOUS
<1> DEFINE H == {n \in 0..Len(s) : SubSeq(s, 1, n) \in G}
<1>1. Len(s) \in Nat
  BY LenProperties
<1>2. 0 \in H
  <2>1. SubSeq(s, 1, 0) = <<>>
    BY SubSeqEmpty
  <2>2. 0 \in 0..Len(s)
    BY <1>1
  <2>3. SubSeq(s, 1, 0) \in G
    BY <2>1
  <2>4. QED
    BY <2>2, <2>3, Zenon
<1>3. ASSUME NEW n \in 0..(Len(s) - 1), n \in H
      PROVE  n + 1 \in H
  <2>1. n + 1 \in 1..Len(s) /\ s[n + 1] \in T
    BY <1>1, ElementOfSeq
  <2>2. SubSeq(s, 1, n) \in Seq(T)
    BY <1>1, <2>1, SubSeqProperties
  <2>3. SubSeq(s, 1, n + 1) = Append(SubSeq(s, 1, n), s[n + 1])
    BY <1>1, <2>1, SubSeqRecursiveSecond
  <2>4. SubSeq(s, 1, n) \in G
    BY <1>3, Zenon
  <2>5. SubSeq(s, 1, n + 1) \in G
    BY <2>1, <2>2, <2>3, <2>4
  <2>6. n + 1 \in 0..Len(s)
    BY <1>1, <2>1
  <2>7. QED
    BY <2>5, <2>6, Zenon
<1>4. Len(s) \in H
  <2> HIDE DEF H
  <2>1. \A n \in 0..Len(s) : n \in H
    BY <1>1, <1>2, <1>3, Induction
  <2>2. QED
    BY <1>1, <2>1
<1>5. SubSeq(s, 1, Len(s)) = s
  BY SubSeqFull
<1>6. QED
  BY <1>4, <1>5

----------------------------------------------------------------------------
(* What Without computes                                                   *)

\* One step of the recursion that Without is.
Step(f, s, S, n) ==
    IF n = 0 THEN <<>> ELSE IF s[n] \in S THEN f[n - 1] ELSE Append(f[n - 1], s[n])

\* f is the recursive function of Without up to N.
Keeps(f, s, S, N) == f = [n \in 0..N |-> Step(f, s, S, n)]

\* There is such a function.
LEMMA KeepsExists ==
  ASSUME NEW s, NEW S, NEW N \in Nat
  PROVE  \E f : Keeps(f, s, S, N)
<1> DEFINE Good == {m \in Nat : \E f : Keeps(f, s, S, m)}
<1>1. 0 \in Good
  <2> DEFINE f == [n \in 0..0 |-> <<>>]
  <2>1. Keeps(f, s, S, 0)
    BY DEF Keeps, Step
  <2>2. QED
    BY <2>1
<1>2. ASSUME NEW m \in Nat, m \in Good PROVE m + 1 \in Good
  <2>1. PICK f : Keeps(f, s, S, m)
    BY <1>2
  <2> DEFINE g == [n \in 0..(m + 1) |-> IF n = m + 1 THEN Step(f, s, S, m + 1) ELSE f[n]]
  <2>2. \A n \in 0..(m + 1) : g[n] = Step(g, s, S, n)
    <3> SUFFICES ASSUME NEW n \in 0..(m + 1) PROVE g[n] = Step(g, s, S, n)
      OBVIOUS
    <3>1. n # 0 => n - 1 \in 0..m /\ g[n - 1] = f[n - 1]
      OBVIOUS
    <3>2. n # 0 => Step(g, s, S, n) = Step(f, s, S, n)
      BY <3>1 DEF Step
    <3>3. CASE n = m + 1
      BY <3>2, <3>3
    <3>4. CASE n \in 0..m
      <4>1. g[n] = f[n] /\ f[n] = Step(f, s, S, n)
        BY <2>1, <3>4 DEF Keeps
      <4>2. CASE n = 0
        BY <4>1, <4>2 DEF Step
      <4>3. QED
        BY <4>1, <4>2, <3>2
    <3>5. QED
      BY <3>3, <3>4
  <2>3. Keeps(g, s, S, m + 1)
    <3>1. g = [n \in 0..(m + 1) |-> g[n]]
      OBVIOUS
    <3> HIDE DEF g
    <3>2. QED
      BY <3>1, <2>2 DEF Keeps
  <2>4. QED
    BY <2>3
<1>3. 0..N \subseteq Good
  <2> HIDE DEF Good
  <2>1. \A n \in 0..N : n \in Good
    BY <1>1, <1>2, Induction
  <2>2. QED
    BY <2>1
<1>4. QED
  BY <1>3

LEMMA WithoutIs ==
  ASSUME NEW s, NEW S, Len(s) \in Nat
  PROVE  \E f : Keeps(f, s, S, Len(s)) /\ Without(s, S) = f[Len(s)]
<1> DEFINE f == CHOOSE f : Keeps(f, s, S, Len(s))
<1>1. Keeps(f, s, S, Len(s))
  BY KeepsExists
<1>2. Without(s, S) = f[Len(s)]
  BY DEF Without, Keeps, Step
<1>3. QED
  BY <1>1, <1>2

LEMMA WithoutEmpty ==
  ASSUME NEW S
  PROVE  Without(<<>>, S) = <<>>
<1>1. Len(<<>>) = 0
  BY EmptySeq
<1>2. PICK f : Keeps(f, <<>>, S, 0) /\ Without(<<>>, S) = f[0]
  BY <1>1, WithoutIs
<1>3. QED
  BY <1>2 DEF Keeps, Step

LEMMA WithoutAppend ==
  ASSUME NEW T, NEW s \in Seq(T), NEW x \in T, NEW S
  PROVE  Without(Append(s, x), S) =
             IF x \in S THEN Without(s, S) ELSE Append(Without(s, S), x)
<1> DEFINE t == Append(s, x)
           N == Len(s)
<1>1. /\ N \in Nat
      /\ Len(t) = N + 1
      /\ t[N + 1] = x
      /\ \A i \in 1..N : t[i] = s[i]
  BY LenProperties, AppendProperties
<1> HIDE DEF t, N
<1>2. PICK f : Keeps(f, s, S, N) /\ Without(s, S) = f[N]
  BY <1>1, WithoutIs DEF N
<1>3. PICK g : Keeps(g, t, S, N + 1) /\ Without(t, S) = g[N + 1]
  BY <1>1, WithoutIs
<1>4. ASSUME NEW n \in 0..N
      PROVE  f[n] = Step(f, s, S, n) /\ g[n] = Step(g, t, S, n)
  <2>1. n \in 0..(N + 1)
    BY <1>1
  <2>2. f[n] = Step(f, s, S, n)
    BY <1>2 DEF Keeps
  <2>3. g[n] = Step(g, t, S, n)
    BY <1>3, <2>1 DEF Keeps
  <2>4. QED
    BY <2>2, <2>3
<1>5. g[N + 1] = Step(g, t, S, N + 1)
  BY <1>1, <1>3 DEF Keeps
<1> DEFINE Same == {n \in 0..N : f[n] = g[n]}
<1>6. 0 \in Same
  BY <1>1, <1>4 DEF Step
<1>7. ASSUME NEW n \in 0..(N - 1), n \in Same
      PROVE  n + 1 \in Same
  <2>1. n + 1 \in 0..N /\ n + 1 \in 1..N /\ (n + 1) - 1 = n /\ n + 1 # 0
    BY <1>1
  <2>2. f[n] = g[n] /\ t[n + 1] = s[n + 1]
    BY <1>1, <1>7, <2>1
  <2>3. f[n + 1] = g[n + 1]
    BY <1>4, <2>1, <2>2 DEF Step
  <2>4. QED
    BY <2>1, <2>3
<1>8. f[N] = g[N]
  <2> HIDE DEF Same
  <2>1. \A n \in 0..N : n \in Same
    BY <1>1, <1>6, <1>7, Induction
  <2>2. N \in Same
    BY <1>1, <2>1
  <2>3. QED
    BY <2>2 DEF Same
<1>9. (N + 1) - 1 = N /\ N + 1 # 0
  BY <1>1
<1>10. g[N + 1] = IF x \in S THEN g[N] ELSE Append(g[N], x)
  BY <1>1, <1>5, <1>9 DEF Step
<1>11. QED
  BY <1>2, <1>3, <1>8, <1>10 DEF t

LEMMA WithoutInSeq ==
  ASSUME NEW T, NEW S
  PROVE  \A s \in Seq(T) : Without(s, S) \in Seq(T)
<1> DEFINE Good == {s \in Seq(T) : Without(s, S) \in Seq(T)}
<1>1. <<>> \in Good
  BY WithoutEmpty, EmptySeq
<1>2. ASSUME NEW s \in Seq(T), NEW x \in T, s \in Good
      PROVE  Append(s, x) \in Good
  <2>1. Without(s, S) \in Seq(T)
    BY <1>2
  <2>2. Append(s, x) \in Seq(T) /\ Append(Without(s, S), x) \in Seq(T)
    BY <2>1, AppendProperties
  <2>3. \/ Without(Append(s, x), S) = Without(s, S)
        \/ Without(Append(s, x), S) = Append(Without(s, S), x)
    BY WithoutAppend
  <2>4. Without(Append(s, x), S) \in Seq(T)
    BY <2>1, <2>2, <2>3, Zenon
  <2>5. QED
    BY <2>2, <2>4
<1>3. \A s \in Seq(T) : s \in Good
  <2> HIDE DEF Good
  <2>1. QED
    BY <1>1, <1>2, AppendInduction
<1>4. QED
  BY <1>3

LEMMA OccurringEmpty == Occurring(<<>>) = {}
  BY EmptySeq DEF Occurring

LEMMA OccurringAppend ==
  ASSUME NEW T, NEW s \in Seq(T), NEW x \in T
  PROVE  Occurring(Append(s, x)) = Occurring(s) \cup {x}
<1> DEFINE t == Append(s, x)
<1>1. /\ Len(s) \in Nat
      /\ DOMAIN s = 1..Len(s)
      /\ DOMAIN t = 1..(Len(s) + 1)
      /\ t[Len(s) + 1] = x
      /\ \A i \in 1..Len(s) : t[i] = s[i]
  BY LenProperties, AppendProperties
<1> HIDE DEF t
<1>2. Occurring(t) = Occurring(s) \cup {x}
  BY <1>1 DEF Occurring
<1>3. QED
  BY <1>2 DEF t

LEMMA OccurringInType ==
  ASSUME NEW T, NEW s \in Seq(T)
  PROVE  Occurring(s) \subseteq T
BY ElementOfSeq, LenProperties DEF Occurring

LEMMA OccurringWithout ==
  ASSUME NEW T, NEW S
  PROVE  \A s \in Seq(T) : Occurring(Without(s, S)) = Occurring(s) \ S
<1> DEFINE Good == {s \in Seq(T) : Occurring(Without(s, S)) = Occurring(s) \ S}
<1>1. <<>> \in Good
  BY WithoutEmpty, OccurringEmpty, EmptySeq
<1>2. ASSUME NEW s \in Seq(T), NEW x \in T, s \in Good
      PROVE  Append(s, x) \in Good
  <2>1. Occurring(Without(s, S)) = Occurring(s) \ S
    BY <1>2
  <2>2. Occurring(Append(s, x)) = Occurring(s) \cup {x}
    BY OccurringAppend
  <2>3. CASE x \in S
    <3>1. Without(Append(s, x), S) = Without(s, S)
      BY <2>3, WithoutAppend
    <3>2. Occurring(Without(Append(s, x), S)) = Occurring(Append(s, x)) \ S
      BY <2>1, <2>2, <2>3, <3>1
    <3>3. QED
      BY <3>2, AppendProperties
  <2>4. CASE x \notin S
    <3>1. Without(Append(s, x), S) = Append(Without(s, S), x)
      BY <2>4, WithoutAppend
    <3>2. Occurring(Append(Without(s, S), x)) = Occurring(Without(s, S)) \cup {x}
      BY WithoutInSeq, OccurringAppend
    <3>3. Occurring(Without(Append(s, x), S)) = Occurring(Append(s, x)) \ S
      BY <2>1, <2>2, <2>4, <3>1, <3>2
    <3>4. QED
      BY <3>3, AppendProperties
  <2>5. QED
    BY <2>3, <2>4
<1>3. \A s \in Seq(T) : s \in Good
  <2> HIDE DEF Good
  <2>1. QED
    BY <1>1, <1>2, AppendInduction
<1>4. QED
  BY <1>3

LEMMA WithoutNone ==
  ASSUME NEW T, NEW S
  PROVE  \A s \in Seq(T) : Occurring(s) \cap S = {} => Without(s, S) = s
<1> DEFINE Good == {s \in Seq(T) : Occurring(s) \cap S = {} => Without(s, S) = s}
<1>1. <<>> \in Good
  BY WithoutEmpty, EmptySeq
<1>2. ASSUME NEW s \in Seq(T), NEW x \in T, s \in Good,
             Occurring(Append(s, x)) \cap S = {}
      PROVE  Without(Append(s, x), S) = Append(s, x)
  <2>1. Occurring(s) \cap S = {} /\ x \notin S
    BY <1>2, OccurringAppend
  <2>2. Without(s, S) = s
    BY <1>2, <2>1
  <2>3. QED
    BY <2>1, <2>2, WithoutAppend
<1>3. ASSUME NEW s \in Seq(T), NEW x \in T, s \in Good
      PROVE  Append(s, x) \in Good
  BY <1>2, <1>3, AppendProperties
<1>4. \A s \in Seq(T) : s \in Good
  <2> HIDE DEF Good
  <2>1. QED
    BY <1>1, <1>3, AppendInduction
<1>5. QED
  BY <1>4

LEMMA WithoutTwice ==
  ASSUME NEW T, NEW S, NEW R
  PROVE  \A s \in Seq(T) : Without(Without(s, S), R) = Without(s, S \cup R)
<1> DEFINE Good == {s \in Seq(T) : Without(Without(s, S), R) = Without(s, S \cup R)}
<1>1. <<>> \in Good
  BY WithoutEmpty, EmptySeq
<1>2. ASSUME NEW s \in Seq(T), NEW x \in T, s \in Good
      PROVE  Without(Without(Append(s, x), S), R) = Without(Append(s, x), S \cup R)
  <2>1. Without(Without(s, S), R) = Without(s, S \cup R)
    BY <1>2
  <2>2. Without(s, S) \in Seq(T)
    BY WithoutInSeq
  <2>3. Without(Append(s, x), S \cup R) =
            IF x \in S \cup R THEN Without(s, S \cup R)
            ELSE Append(Without(s, S \cup R), x)
    BY WithoutAppend
  <2>4. CASE x \in S
    <3>1. Without(Append(s, x), S) = Without(s, S)
      BY <2>4, WithoutAppend
    <3>2. QED
      BY <2>1, <2>3, <2>4, <3>1
  <2>5. CASE x \notin S
    <3>1. Without(Append(s, x), S) = Append(Without(s, S), x)
      BY <2>5, WithoutAppend
    <3>2. Without(Append(Without(s, S), x), R) =
              IF x \in R THEN Without(Without(s, S), R)
              ELSE Append(Without(Without(s, S), R), x)
      BY <2>2, WithoutAppend
    <3>3. QED
      BY <2>1, <2>3, <2>5, <3>1, <3>2
  <2>6. QED
    BY <2>4, <2>5
<1>3. ASSUME NEW s \in Seq(T), NEW x \in T, s \in Good
      PROVE  Append(s, x) \in Good
  BY <1>2, <1>3, AppendProperties
<1>4. \A s \in Seq(T) : s \in Good
  <2> HIDE DEF Good
  <2>1. QED
    BY <1>1, <1>3, AppendInduction
<1>5. QED
  BY <1>4

LEMMA ConcatAppend ==
  ASSUME NEW T, NEW s \in Seq(T), NEW t \in Seq(T), NEW x \in T
  PROVE  s \o Append(t, x) = Append(s \o t, x)
<1>1. Append(t, x) = t \o <<x>> /\ <<x>> \in Seq(T) /\ s \o t \in Seq(T)
  BY AppendIsConcat, ConcatProperties
<1>2. Append(s \o t, x) = (s \o t) \o <<x>>
  BY <1>1, AppendIsConcat
<1>3. s \o (t \o <<x>>) = (s \o t) \o <<x>>
  BY <1>1, ConcatAssociative
<1>4. QED
  BY <1>1, <1>2, <1>3

LEMMA WithoutConcat ==
  ASSUME NEW T, NEW S, NEW s \in Seq(T)
  PROVE  \A t \in Seq(T) : Without(s \o t, S) = Without(s, S) \o Without(t, S)
<1> DEFINE Good == {t \in Seq(T) : Without(s \o t, S) = Without(s, S) \o Without(t, S)}
<1>1. <<>> \in Good
  <2>1. Without(s, S) \in Seq(T)
    BY WithoutInSeq
  <2>2. s \o <<>> = s /\ Without(s, S) \o <<>> = Without(s, S)
    BY <2>1, ConcatEmptySeq
  <2>3. QED
    BY <2>2, WithoutEmpty, EmptySeq
<1>2. ASSUME NEW t \in Seq(T), NEW x \in T, t \in Good
      PROVE  Without(s \o Append(t, x), S) = Without(s, S) \o Without(Append(t, x), S)
  <2>1. Without(s \o t, S) = Without(s, S) \o Without(t, S)
    BY <1>2
  <2>2. /\ Without(s, S) \in Seq(T)
        /\ Without(t, S) \in Seq(T)
        /\ s \o t \in Seq(T)
    BY WithoutInSeq, ConcatProperties
  <2>3. Without(s \o Append(t, x), S) =
            IF x \in S THEN Without(s \o t, S) ELSE Append(Without(s \o t, S), x)
    <3>1. s \o Append(t, x) = Append(s \o t, x)
      BY ConcatAppend
    <3>2. Without(Append(s \o t, x), S) =
              IF x \in S THEN Without(s \o t, S) ELSE Append(Without(s \o t, S), x)
      <4> DEFINE u == s \o t
      <4>1. u \in Seq(T)
        BY <2>2
      <4> HIDE DEF u
      <4>2. Without(Append(u, x), S) =
                IF x \in S THEN Without(u, S) ELSE Append(Without(u, S), x)
        BY <4>1, WithoutAppend
      <4>3. QED
        BY <4>2 DEF u
    <3>3. QED
      BY <3>1, <3>2
  <2>4. Without(Append(t, x), S) =
            IF x \in S THEN Without(t, S) ELSE Append(Without(t, S), x)
    BY WithoutAppend
  <2>5. Without(s, S) \o Append(Without(t, S), x) =
            Append(Without(s, S) \o Without(t, S), x)
    BY <2>2, ConcatAppend
  <2>6. QED
    BY <2>1, <2>3, <2>4, <2>5
<1>3. ASSUME NEW t \in Seq(T), NEW x \in T, t \in Good
      PROVE  Append(t, x) \in Good
  BY <1>2, <1>3, AppendProperties
<1>4. \A t \in Seq(T) : t \in Good
  <2> HIDE DEF Good
  <2>1. QED
    BY <1>1, <1>3, AppendInduction
<1>5. QED
  BY <1>4

----------------------------------------------------------------------------
(* The inductive invariant                                                 *)

Popped == SubSeq(queued_ids, 1, next_id_index)

\* The vector holds valid ids, and next_id_index is a position in it.
Vector ==
    /\ queued_ids \in Seq(Ids)
    /\ next_id_index \in 0..Len(queued_ids)

Results == {"invalid", "discarded", "replaced", "queued"}

Arguments ==
    /\ before \in Seq(Ids)
    /\ prepared \in Seq(Results)
    /\ call = Idle => prepared = <<>> /\ add_ids = <<>> /\ before = <<>>
    /\ call # Idle => /\ call.ids \in Ranges
                      /\ call.strategy \in Strategies
                      /\ call.position \in Positions
                      /\ Len(prepared) <= Len(call.ids)

\* The ids of the range that prepare_append_queue has looked at.
Looked == SubSeq(call.ids, 1, Len(prepared))

Refused ==
    {Invalid} \cup IF call.strategy = "discard" THEN Occurring(before) ELSE {}

Replaced == IF call.strategy = "replace" THEN Occurring(Looked) ELSE {}

\* What queue_as is to report of the i-th id.
Result(i) ==
    IF call.ids[i] = Invalid THEN "invalid"
    ELSE IF call.strategy = "discard" /\ call.ids[i] \in Occurring(before)
         THEN "discarded"
    ELSE IF /\ call.strategy = "replace"
            /\ call.ids[i] \in Occurring(before)
            /\ ~\E j \in 1..(i - 1) : call.ids[j] = call.ids[i]
         THEN "replaced"
    ELSE "queued"

\* A range that is half done has done what the ids looked at ask for, and no
\* more.
HalfDone ==
    call # Idle => /\ Pending = Without(before, Replaced)
                   /\ add_ids = Without(Looked, Refused)
                   /\ \A i \in 1..Len(prepared) : prepared[i] = Result(i)

Inv == Vector /\ Arguments /\ HalfDone

----------------------------------------------------------------------------
(* The vector                                                              *)

LEMMA Behind ==
  ASSUME NEW T, NEW p \in Seq(T), NEW r \in Seq(T)
  PROVE  /\ p \o r \in Seq(T)
         /\ Len(p) \in 0..Len(p \o r)
         /\ SubSeq(p \o r, Len(p) + 1, Len(p \o r)) = r
<1> DEFINE s == p \o r
           m == Len(p)
           n == Len(r)
           t == SubSeq(s, m + 1, Len(s))
<1>1. /\ m \in Nat /\ n \in Nat
      /\ s \in Seq(T)
      /\ Len(s) = m + n
      /\ \A i \in 1..n : s[m + i] = r[i]
  <2>1. /\ m \in Nat /\ n \in Nat /\ s \in Seq(T) /\ Len(s) = m + n
        /\ \A i \in 1..Len(s) : s[i] = IF i <= m THEN p[i] ELSE r[i - m]
    BY ConcatProperties, LenProperties
  <2> HIDE DEF s, m, n
  <2>2. ASSUME NEW i \in 1..n PROVE s[m + i] = r[i]
    <3>1. m + i \in 1..Len(s) /\ ~(m + i <= m) /\ (m + i) - m = i
      BY <2>1
    <3>2. QED
      BY <2>1, <3>1
  <2>3. QED
    BY <2>1, <2>2
<1> HIDE DEF s, m, n
<1>2. \A i \in (m + 1)..Len(s) : s[i] \in T
  BY <1>1, ElementOfSeq
<1>3. /\ t \in Seq(T)
      /\ Len(t) = n
      /\ \A i \in 1..n : t[i] = s[(m + 1) + i - 1]
  BY <1>1, <1>2, SubSeqProperties
<1>4. ASSUME NEW i \in 1..n PROVE t[i] = r[i]
  <2>1. (m + 1) + i - 1 = m + i
    BY <1>1
  <2>2. QED
    BY <1>1, <1>3, <2>1
<1> HIDE DEF t
<1>5. t = r
  BY <1>3, <1>4, SeqEqual DEF n
<1>6. QED
  BY <1>1, <1>5 DEF s, m, t

\* The vector is its popped ids followed by the pending ones.
LEMMA Parts ==
  ASSUME Vector
  PROVE  /\ Popped \in Seq(Ids)
         /\ Len(Popped) = next_id_index
         /\ Pending \in Seq(Ids)
         /\ Len(Pending) = Len(queued_ids) - next_id_index
         /\ \A i \in 1..Len(Pending) : Pending[i] = queued_ids[next_id_index + i]
         /\ \A i \in 1..next_id_index : Popped[i] = queued_ids[i]
         /\ queued_ids = Popped \o Pending
<1>1. /\ queued_ids \in Seq(Ids) /\ Len(queued_ids) \in Nat
      /\ next_id_index \in 0..Len(queued_ids) /\ next_id_index \in Nat
  BY LenProperties DEF Vector
<1>2. \A i \in 1..Len(queued_ids) : queued_ids[i] \in Ids
  BY <1>1, ElementOfSeq
<1>3. /\ Popped \in Seq(Ids)
      /\ Len(Popped) = next_id_index
      /\ \A i \in 1..next_id_index : Popped[i] = queued_ids[1 + i - 1]
  <2>1. \A i \in 1..next_id_index : queued_ids[i] \in Ids
    BY <1>1, <1>2
  <2>2. /\ SubSeq(queued_ids, 1, next_id_index) \in Seq(Ids)
        /\ Len(SubSeq(queued_ids, 1, next_id_index))
               = IF 1 <= next_id_index THEN next_id_index - 1 + 1 ELSE 0
        /\ \A i \in 1..(next_id_index - 1 + 1) :
               SubSeq(queued_ids, 1, next_id_index)[i] = queued_ids[1 + i - 1]
    BY <1>1, <2>1, SubSeqProperties
  <2>3. QED
    BY <1>1, <2>2 DEF Popped
<1>4. /\ Pending \in Seq(Ids)
      /\ Len(Pending) = Len(queued_ids) - next_id_index
      /\ \A i \in 1..Len(Pending) :
             Pending[i] = queued_ids[(next_id_index + 1) + i - 1]
  <2>1. \A i \in (next_id_index + 1)..Len(queued_ids) : queued_ids[i] \in Ids
    BY <1>1, <1>2
  <2>2. /\ Pending \in Seq(Ids)
        /\ Len(Pending) = IF next_id_index + 1 <= Len(queued_ids)
                          THEN Len(queued_ids) - (next_id_index + 1) + 1 ELSE 0
        /\ \A i \in 1..(Len(queued_ids) - (next_id_index + 1) + 1) :
               Pending[i] = queued_ids[(next_id_index + 1) + i - 1]
    BY <1>1, <2>1, SubSeqProperties DEF Pending
  <2>3. QED
    BY <1>1, <2>2
<1>5. \A i \in 1..Len(Pending) :
          (next_id_index + 1) + i - 1 = next_id_index + i
  BY <1>1
<1>6. queued_ids = Popped \o Pending
  <2>1. SubSeq(queued_ids, 1, next_id_index)
            \o SubSeq(queued_ids, next_id_index + 1, Len(queued_ids))
        = SubSeq(queued_ids, 1, Len(queued_ids))
    <3>1. /\ 1 \in 1..(Len(queued_ids) + 1)
          /\ next_id_index \in (1 - 1)..Len(queued_ids)
          /\ Len(queued_ids) \in next_id_index..Len(queued_ids)
      BY <1>1
    <3>2. QED
      BY <1>1, <3>1, ConcatAdjacentSubSeq
  <2>2. SubSeq(queued_ids, 1, Len(queued_ids)) = queued_ids
    BY <1>1, SubSeqFull
  <2>3. QED
    BY <2>1, <2>2 DEF Popped, Pending
<1>7. \A i \in 1..next_id_index : 1 + i - 1 = i
  BY <1>1
<1>8. QED
  BY <1>3, <1>4, <1>5, <1>6, <1>7

\* A vector laid out as p, popped, followed by r, pending.
LEMMA Laid ==
  ASSUME NEW p \in Seq(Ids), NEW r \in Seq(Ids),
         queued_ids' = p \o r, next_id_index' = Len(p)
  PROVE  Vector' /\ Pending' = r
BY Behind DEF Vector, Pending

LEMMA PendingIds ==
  ASSUME Vector
  PROVE  /\ \A id : IsPending(id) <=> id \in Occurring(Pending)
         /\ Occurring(Pending) \subseteq Ids
<1>1. /\ next_id_index \in Nat /\ Len(queued_ids) \in Nat
      /\ DOMAIN Pending = 1..Len(Pending)
      /\ Len(Pending) = Len(queued_ids) - next_id_index
      /\ \A i \in 1..Len(Pending) : Pending[i] = queued_ids[next_id_index + i]
  BY Parts, LenProperties DEF Vector
<1>2. ASSUME NEW id, IsPending(id)
      PROVE  id \in Occurring(Pending)
  <2>1. PICK i \in (next_id_index + 1)..Len(queued_ids) : queued_ids[i] = id
    BY <1>2 DEF IsPending
  <2>2. i - next_id_index \in 1..Len(Pending) /\ next_id_index + (i - next_id_index) = i
    BY <1>1
  <2>3. Pending[i - next_id_index] = id
    BY <1>1, <2>1, <2>2
  <2>4. QED
    BY <1>1, <2>2, <2>3 DEF Occurring
<1>3. ASSUME NEW id \in Occurring(Pending)
      PROVE  IsPending(id)
  <2>1. PICK i \in 1..Len(Pending) : Pending[i] = id
    BY <1>1 DEF Occurring
  <2>2. /\ next_id_index + i \in (next_id_index + 1)..Len(queued_ids)
        /\ queued_ids[next_id_index + i] = id
    BY <1>1, <2>1
  <2>3. QED
    BY <2>2 DEF IsPending
<1>4. Occurring(Pending) \subseteq Ids
  BY Parts, OccurringInType
<1>5. QED
  BY <1>2, <1>3, <1>4

----------------------------------------------------------------------------
(* A range, id by id                                                       *)

LEMMA RangeType ==
  ASSUME Arguments, call # Idle
  PROVE  /\ call.ids \in Seq(Ids \cup {Invalid})
         /\ Len(call.ids) \in Nat
         /\ DOMAIN call.ids = 1..Len(call.ids)
         /\ Len(prepared) \in Nat
         /\ Len(prepared) <= Len(call.ids)
BY IdsAssumption, LenProperties DEF Arguments

LEMMA LookedType ==
  ASSUME Arguments, call # Idle
  PROVE  /\ Looked \in Seq(Ids \cup {Invalid})
         /\ Len(Looked) = Len(prepared)
         /\ \A i \in 1..Len(prepared) : Looked[i] = call.ids[i]
<1> DEFINE T == Ids \cup {Invalid}
           k == Len(prepared)
<1>1. call.ids \in Seq(T) /\ Len(call.ids) \in Nat /\ k \in Nat /\ k <= Len(call.ids)
  BY RangeType
<1> HIDE DEF T, k
<1>2. \A i \in 1..k : call.ids[i] \in T
  BY <1>1, ElementOfSeq
<1>3. /\ SubSeq(call.ids, 1, k) \in Seq(T)
      /\ Len(SubSeq(call.ids, 1, k)) = IF 1 <= k THEN k - 1 + 1 ELSE 0
      /\ \A i \in 1..(k - 1 + 1) : SubSeq(call.ids, 1, k)[i] = call.ids[1 + i - 1]
  BY <1>1, <1>2, SubSeqProperties
<1>4. k - 1 + 1 = k /\ \A i \in 1..k : 1 + i - 1 = i
  BY <1>1
<1>5. QED
  BY <1>1, <1>3, <1>4 DEF Looked, k, T

\* What a step of prepare_append_queue does whatever its case.
LEMMA LookAtNext ==
  ASSUME Vector, Arguments, call # Idle, Len(prepared) < Len(call.ids),
         NEW result \in Results, prepared' = Append(prepared, result),
         UNCHANGED <<call, before>>
  PROVE  /\ NewId \in Ids \cup {Invalid}
         /\ Arguments'
         /\ Looked' = Append(Looked, NewId)
         /\ Refused' = Refused
         /\ Without(Looked', Refused) =
                IF NewId \in Refused THEN Without(Looked, Refused)
                ELSE Append(Without(Looked, Refused), NewId)
         /\ \A i \in 1..Len(prepared) : prepared'[i] = prepared[i]
         /\ Len(prepared') = Len(prepared) + 1
         /\ prepared'[Len(prepared) + 1] = result
         /\ \A i : Result(i)' = Result(i)
<1> DEFINE T == Ids \cup {Invalid}
           k == Len(prepared)
<1>1. /\ call.ids \in Seq(T) /\ Len(call.ids) \in Nat /\ k \in Nat
      /\ k < Len(call.ids)
  BY RangeType
<1>2. NewId \in T
  BY <1>1, ElementOfSeq DEF NewId
<1>3. /\ prepared' \in Seq(Results)
      /\ Len(prepared') = k + 1
      /\ \A i \in 1..k : prepared'[i] = prepared[i]
      /\ prepared'[k + 1] = result
  BY AppendProperties DEF Arguments
<1> HIDE DEF k
<1>4. Arguments'
  <2>1. Len(prepared') <= Len(call.ids)
    BY <1>1, <1>3
  <2>2. QED
    BY <1>3, <2>1 DEF Arguments
<1>5. Looked' = Append(Looked, NewId)
  <2>1. 1 \in 1..Len(call.ids) /\ k + 1 \in 1..Len(call.ids) /\ (k + 1) - 1 = k
    BY <1>1
  <2>2. SubSeq(call.ids, 1, k + 1) = SubSeq(call.ids, 1, (k + 1) - 1) \o <<call.ids[k + 1]>>
    BY <1>1, <2>1, SubSeqRecursiveSecond
  <2>3. Looked' = Looked \o <<NewId>>
    BY <1>3, <2>1, <2>2 DEF Looked, NewId, k
  <2>4. QED
    BY <1>2, <2>3, LookedType, AppendIsConcat
<1>6. Refused' = Refused
  BY DEF Refused
<1>7. Without(Looked', Refused) =
          IF NewId \in Refused THEN Without(Looked, Refused)
          ELSE Append(Without(Looked, Refused), NewId)
  BY <1>2, <1>5, LookedType, WithoutAppend
<1>8. \A i : Result(i)' = Result(i)
  BY DEF Result
<1>9. QED
  BY <1>2, <1>3, <1>4, <1>5, <1>6, <1>7, <1>8 DEF k

\* What replacing the next id makes of the ids that were pending.
LEMMA ReplaceNext ==
  ASSUME Vector, Arguments, HalfDone, call # Idle, NewId \in Ids \cup {Invalid},
         Looked' = Append(Looked, NewId), UNCHANGED <<call, before>>
  PROVE  Without(before, Replaced') =
             IF call.strategy = "replace" THEN Without(Pending, {NewId}) ELSE Pending
<1>1. CASE call.strategy = "replace"
  <2>1. Replaced = Occurring(Looked) /\ Replaced' = Occurring(Looked')
    BY <1>1 DEF Replaced
  <2>2. Occurring(Looked') = Occurring(Looked) \cup {NewId}
    BY LookedType, OccurringAppend
  <2>3. Without(Without(before, Replaced), {NewId}) =
            Without(before, Replaced \cup {NewId})
    BY WithoutTwice DEF Arguments
  <2>4. Replaced' = Replaced \cup {NewId}
    BY <2>1, <2>2
  <2>5. Without(before, Replaced) = Pending
    BY DEF HalfDone
  <2>6. QED
    BY <1>1, <2>3, <2>4, <2>5
<1>2. CASE call.strategy # "replace"
  <2>1. Replaced = {} /\ Replaced' = {}
    BY <1>2 DEF Replaced
  <2>2. QED
    BY <1>2, <2>1 DEF HalfDone
<1>3. QED
  BY <1>1, <1>2

\* The pending ids have what was queued before, but for the ids replaced.
LEMMA PendingWhileHalfDone ==
  ASSUME Vector, Arguments, HalfDone, call # Idle
  PROVE  Occurring(Pending) = Occurring(before) \ Replaced
BY OccurringWithout DEF HalfDone, Arguments

\* The next id is among those looked at if it was earlier in the range.
LEMMA SeenBefore ==
  ASSUME Arguments, call # Idle
  PROVE  \A id : id \in Occurring(Looked) <=>
                 \E j \in 1..Len(prepared) : call.ids[j] = id
<1>1. DOMAIN Looked = 1..Len(prepared)
  BY LookedType, LenProperties
<1>2. QED
  BY <1>1, LookedType DEF Occurring

\* What queue_as is to report of the next id, from the ids pending now.
LEMMA NextResult ==
  ASSUME Vector, Arguments, HalfDone, call # Idle
  PROVE  Result(Len(prepared) + 1) =
             IF NewId = Invalid THEN "invalid"
             ELSE IF call.strategy = "discard" /\ IsPending(NewId) THEN "discarded"
             ELSE IF call.strategy = "replace" /\ IsPending(NewId) THEN "replaced"
             ELSE "queued"
<1> DEFINE k == Len(prepared)
<1>1. k \in Nat /\ 1..((k + 1) - 1) = 1..k
  BY RangeType
<1> HIDE DEF k
<1>2. NewId = call.ids[k + 1]
  BY DEF NewId, k
<1>3. IsPending(NewId) <=> NewId \in Occurring(before) \ Replaced
  BY PendingIds, PendingWhileHalfDone
<1>4. CASE call.strategy = "replace"
  <2>1. NewId \in Replaced <=> \E j \in 1..k : call.ids[j] = NewId
    BY <1>4, SeenBefore DEF Replaced, k
  <2>2. QED
    BY <1>1, <1>2, <1>3, <1>4, <2>1 DEF Result, k
<1>5. CASE call.strategy # "replace"
  <2>1. Replaced = {}
    BY <1>5 DEF Replaced
  <2>2. QED
    BY <1>1, <1>2, <1>3, <1>5, <2>1 DEF Result, k
<1>6. QED
  BY <1>4, <1>5

LEMMA PrepareStep ==
  ASSUME Vector, Arguments, HalfDone, PrepareAppendQueue
  PROVE  Vector' /\ Arguments' /\ HalfDone'
<1>1. call # Idle /\ Len(prepared) < Len(call.ids) /\ UNCHANGED <<next_id_index, call, before>>
  BY DEF PrepareAppendQueue
<1>2. Pending \in Seq(Ids) /\ Popped \in Seq(Ids) /\ queued_ids = Popped \o Pending
      /\ Len(Popped) = next_id_index
  BY Parts
<1>3. add_ids = Without(Looked, Refused)
  BY <1>1 DEF HalfDone
<1>4. ASSUME NEW result \in Results,
             prepared' = Append(prepared, result),
             result = Result(Len(prepared) + 1),
             Vector',
             Pending' = IF call.strategy = "replace" THEN Without(Pending, {NewId}) ELSE Pending,
             add_ids' = IF NewId \in Refused THEN add_ids ELSE Append(add_ids, NewId)
      PROVE  Vector' /\ Arguments' /\ HalfDone'
  <2>1. /\ NewId \in Ids \cup {Invalid}
        /\ Arguments'
        /\ Looked' = Append(Looked, NewId)
        /\ Refused' = Refused
        /\ Without(Looked', Refused) =
               IF NewId \in Refused THEN Without(Looked, Refused)
               ELSE Append(Without(Looked, Refused), NewId)
    BY <1>1, <1>4, LookAtNext
  <2>2. /\ \A i \in 1..Len(prepared) : prepared'[i] = prepared[i]
        /\ Len(prepared') = Len(prepared) + 1
        /\ prepared'[Len(prepared) + 1] = result
        /\ \A i : Result(i)' = Result(i)
    BY <1>1, <1>4, LookAtNext
  <2>3. Pending' = Without(before, Replaced')
    BY <1>1, <1>4, <2>1, ReplaceNext
  <2>4. add_ids' = Without(Looked', Refused')
    BY <1>3, <1>4, <2>1
  <2>5. ASSUME NEW i \in 1..Len(prepared')
        PROVE  prepared'[i] = Result(i)'
    <3>1. Len(prepared) \in Nat
      BY <1>1, RangeType
    <3>2. i \in 1..Len(prepared) \/ i = Len(prepared) + 1
      BY <2>2, <3>1
    <3>3. CASE i \in 1..Len(prepared)
      BY <1>1, <2>2, <3>3 DEF HalfDone
    <3>4. CASE i = Len(prepared) + 1
      BY <1>4, <2>2, <3>4
    <3>5. QED
      BY <3>2, <3>3, <3>4
  <2>6. QED
    BY <1>1, <1>4, <2>1, <2>3, <2>4, <2>5 DEF HalfDone
<1>5. /\ IsPending(NewId) <=> NewId \in Occurring(Pending)
      /\ ~IsPending(NewId) => Without(Pending, {NewId}) = Pending
      /\ IsPending(NewId) => NewId # Invalid
  <2>1. (IsPending(NewId) <=> NewId \in Occurring(Pending)) /\ Occurring(Pending) \subseteq Ids
    BY PendingIds
  <2>2. NewId \notin Occurring(Pending) => Without(Pending, {NewId}) = Pending
    BY <1>2, WithoutNone
  <2>3. QED
    BY <2>1, <2>2, IdsAssumption
<1>6. UNCHANGED queued_ids => Vector' /\ Pending' = Pending
  BY <1>1 DEF Vector, Pending
<1>7. CASE RejectInvalid
  <2>1. NewId \in Refused /\ UNCHANGED <<queued_ids, add_ids>> /\ ~IsPending(NewId)
    BY <1>5, <1>7 DEF RejectInvalid, Refused
  <2>2. Result(Len(prepared) + 1) = "invalid"
    BY <1>1, <1>7, NextResult DEF RejectInvalid
  <2>3. prepared' = Append(prepared, "invalid") /\ "invalid" \in Results
    BY <1>7 DEF RejectInvalid, Results
  <2>4. QED
    BY <1>4, <1>5, <1>6, <2>1, <2>2, <2>3
<1>8. CASE Discard
  <2>1. /\ NewId # Invalid /\ call.strategy = "discard" /\ IsPending(NewId)
        /\ prepared' = Append(prepared, "discarded") /\ "discarded" \in Results
        /\ UNCHANGED <<queued_ids, add_ids>>
    BY <1>8 DEF Discard, Results
  <2>2. Result(Len(prepared) + 1) = "discarded"
    BY <1>1, <2>1, NextResult
  <2>3. NewId \in Refused
    <3>1. NewId \in Occurring(before) \ Replaced
      BY <1>1, <1>5, <2>1, PendingWhileHalfDone
    <3>2. QED
      BY <2>1, <3>1 DEF Refused
  <2>4. QED
    BY <1>4, <1>6, <2>1, <2>2, <2>3
<1>9. CASE Replace
  <2>1. /\ NewId # Invalid /\ call.strategy = "replace" /\ IsPending(NewId)
        /\ prepared' = Append(prepared, "replaced") /\ "replaced" \in Results
        /\ queued_ids' = Popped \o Without(Pending, {NewId})
        /\ add_ids' = Append(add_ids, NewId)
    BY <1>9 DEF Replace, Results, Popped
  <2>2. Result(Len(prepared) + 1) = "replaced"
    BY <1>1, <2>1, NextResult
  <2>3. NewId \notin Refused
    BY <2>1 DEF Refused
  <2>4. Vector' /\ Pending' = Without(Pending, {NewId})
    <3>1. Without(Pending, {NewId}) \in Seq(Ids)
      BY <1>2, WithoutInSeq
    <3>2. QED
      BY <1>1, <1>2, <2>1, <3>1, Laid
  <2>5. QED
    BY <1>4, <2>1, <2>2, <2>3, <2>4
<1>10. CASE Accept
  <2>1. /\ NewId # Invalid
        /\ call.strategy = "duplicate" \/ ~IsPending(NewId)
        /\ prepared' = Append(prepared, "queued") /\ "queued" \in Results
        /\ UNCHANGED queued_ids
        /\ add_ids' = Append(add_ids, NewId)
    BY <1>10 DEF Accept, Results
  <2>2. Result(Len(prepared) + 1) = "queued"
    BY <1>1, <2>1, NextResult
  <2>3. NewId \notin Refused
    <3>1. call.strategy = "discard" => NewId \notin Occurring(before)
      <4>1. call.strategy = "discard" => Replaced = {}
        BY DEF Replaced
      <4>2. QED
        BY <1>1, <1>5, <2>1, <4>1, PendingWhileHalfDone
    <3>2. QED
      BY <2>1, <3>1 DEF Refused
  <2>4. Pending' = IF call.strategy = "replace" THEN Without(Pending, {NewId}) ELSE Pending
    BY <1>5, <1>6, <2>1
  <2>5. QED
    BY <1>4, <1>6, <2>1, <2>2, <2>3, <2>4
<1>11. QED
  BY <1>7, <1>8, <1>9, <1>10 DEF PrepareAppendQueue

----------------------------------------------------------------------------
(* The other operations                                                    *)

LEMMA BeginStep ==
  ASSUME Vector, Arguments, NEW ids \in Ranges, NEW strategy \in Strategies,
         NEW position \in Positions, BeginQueueAs(ids, strategy, position)
  PROVE  Vector' /\ Arguments' /\ HalfDone' /\ call' # Idle
<1>1. /\ call = Idle /\ prepared = <<>> /\ add_ids = <<>>
      /\ call' = [ids |-> ids, strategy |-> strategy, position |-> position]
      /\ before' = Pending
      /\ UNCHANGED <<queued_ids, next_id_index, prepared, add_ids>>
  BY DEF BeginQueueAs, Arguments
<1>2. /\ call'.ids = ids /\ call'.strategy = strategy /\ call'.position = position
      /\ call' # Idle
  <2>1. call'.ids = ids /\ call'.strategy = strategy /\ call'.position = position
    BY <1>1
  <2>2. Idle.strategy = "none" /\ strategy # "none"
    BY DEF Idle, Strategies
  <2>3. QED
    BY <2>1, <2>2
<1>3. ids \in Seq(Ids \cup {Invalid}) /\ Len(ids) \in Nat /\ Len(<<>>) = 0
  BY IdsAssumption, LenProperties, EmptySeq
<1>4. Pending \in Seq(Ids)
  BY Parts
<1>5. Vector'
  BY <1>1 DEF Vector
<1>6. Arguments'
  <2>1. before' \in Seq(Ids) /\ prepared' \in Seq(Results)
    BY <1>1, <1>4 DEF Arguments
  <2>2. Len(prepared') <= Len(call'.ids)
    BY <1>1, <1>2, <1>3
  <2>3. QED
    BY <1>2, <2>1, <2>2 DEF Arguments
<1>7. HalfDone'
  <2>1. Looked' = <<>>
    <3>1. Looked' = SubSeq(ids, 1, 0)
      BY <1>1, <1>2, <1>3 DEF Looked
    <3>2. QED
      BY <3>1, SubSeqEmpty
  <2>2. Replaced' = {}
    BY <2>1, OccurringEmpty DEF Replaced
  <2>3. Pending' = Without(before', Replaced')
    <3>1. Pending' = Pending
      BY <1>1 DEF Pending
    <3>2. Without(Pending, {}) = Pending
      BY <1>4, WithoutNone
    <3>3. QED
      BY <1>1, <2>2, <3>1, <3>2
  <2>4. add_ids' = Without(Looked', Refused')
    BY <1>1, <2>1, WithoutEmpty
  <2>5. 1..Len(prepared') = {}
    BY <1>1, <1>3
  <2>6. QED
    BY <2>3, <2>4, <2>5 DEF HalfDone
<1>8. QED
  BY <1>2, <1>5, <1>6, <1>7

\* Inserting a range puts it in front of the pending ids or behind them,
\* whether it overwrites popped ids, moves the pending ones to a new vector or
\* drops the popped ones.
LEMMA AppendStep ==
  ASSUME Vector, Arguments, HalfDone, AppendToQueue
  PROVE  /\ Vector' /\ Arguments' /\ HalfDone'
         /\ Pending' = IF call.position = "at_front" THEN add_ids \o Pending
                       ELSE Pending \o add_ids
<1> DEFINE n == next_id_index
           m == Len(add_ids)
<1>1. /\ call # Idle /\ call' = Idle
      /\ prepared' = <<>> /\ add_ids' = <<>> /\ before' = <<>>
      /\ AppendAtFront \/ AppendAtBack
  BY DEF AppendToQueue
<1>2. /\ Pending \in Seq(Ids) /\ Popped \in Seq(Ids) /\ queued_ids = Popped \o Pending
      /\ Len(Popped) = n
  BY Parts
<1>3. add_ids \in Seq(Ids)
  <2>1. add_ids \in Seq(Ids \cup {Invalid}) /\ Occurring(add_ids) = Occurring(Looked) \ Refused
    BY <1>1, LookedType, WithoutInSeq, OccurringWithout DEF HalfDone
  <2>2. Occurring(add_ids) \subseteq Ids
    BY <1>1, <2>1, LookedType, OccurringInType DEF Refused
  <2>3. /\ DOMAIN add_ids = 1..Len(add_ids) /\ Len(add_ids) \in Nat
        /\ add_ids = [i \in 1..Len(add_ids) |-> add_ids[i]]
    BY <2>1, LenProperties
  <2>4. \A i \in 1..Len(add_ids) : add_ids[i] \in Ids
    BY <2>2, <2>3 DEF Occurring
  <2>5. QED
    BY <2>3, <2>4, IsASeq
<1>4. /\ queued_ids \in Seq(Ids) /\ Len(queued_ids) \in Nat
      /\ n \in 0..Len(queued_ids) /\ m \in Nat
  BY <1>3, LenProperties DEF Vector
<1>5. Arguments' /\ HalfDone'
  <2>1. <<>> \in Seq(Ids) /\ <<>> \in Seq(Results)
    BY EmptySeq
  <2>2. QED
    BY <1>1, <2>1 DEF Arguments, HalfDone
<1>6. add_ids \o Pending \in Seq(Ids) /\ Pending \o add_ids \in Seq(Ids)
  BY <1>2, <1>3, ConcatProperties
<1>7. <<>> \in Seq(Ids) /\ Len(<<>>) = 0
  BY EmptySeq
<1>8. ASSUME NEW r \in Seq(Ids), queued_ids' = r, next_id_index' = 0
      PROVE  Vector' /\ Pending' = r
  <2>1. <<>> \o r = r
    BY ConcatEmptySeq
  <2>2. QED
    BY <1>7, <1>8, <2>1, Laid
<1>9. CASE AppendAtFront
  <2>1. call.position = "at_front"
    BY <1>9 DEF AppendAtFront
  <2>2. CASE /\ m <= n
             /\ queued_ids' = SubSeq(queued_ids, 1, n - m) \o add_ids \o Pending
             /\ next_id_index' = n - m
    <3> DEFINE p == SubSeq(queued_ids, 1, n - m)
    <3>1. n - m \in Int /\ n - m \in 0..Len(queued_ids) /\ n - m >= 0
      BY <1>4, <2>2
    <3>2. \A i \in 1..(n - m) : queued_ids[i] \in Ids
      BY <1>4, <3>1, ElementOfSeq
    <3>3. /\ p \in Seq(Ids)
          /\ Len(p) = IF 1 <= n - m THEN (n - m) - 1 + 1 ELSE 0
      BY <3>1, <3>2, SubSeqProperties
    <3>4. Len(p) = n - m
      BY <3>1, <3>3
    <3> HIDE DEF p
    <3>5. (p \o add_ids) \o Pending = p \o (add_ids \o Pending)
      <4>1. p \in Seq(Ids) /\ add_ids \in Seq(Ids) /\ Pending \in Seq(Ids)
        BY <1>2, <1>3, <3>3
      <4>2. \A x, y, z \in Seq(Ids) : (x \o y) \o z = x \o (y \o z)
        BY ConcatAssociative
      <4>3. QED
        BY <4>1, <4>2, Zenon
    <3>6. queued_ids' = p \o (add_ids \o Pending) /\ next_id_index' = Len(p)
      BY <2>2, <3>4, <3>5 DEF p
    <3>7. QED
      BY <1>5, <1>6, <2>1, <3>3, <3>6, Laid
  <2>3. CASE queued_ids' = add_ids \o Pending /\ next_id_index' = 0
    BY <1>5, <1>6, <1>8, <2>1, <2>3
  <2>4. QED
    BY <1>9, <2>2, <2>3 DEF AppendAtFront
<1>10. CASE AppendAtBack
  <2>1. call.position # "at_front"
    BY <1>10 DEF AppendAtBack
  <2>2. CASE queued_ids' = queued_ids \o add_ids /\ UNCHANGED next_id_index
    <3>1. (Popped \o Pending) \o add_ids = Popped \o (Pending \o add_ids)
      BY <1>2, <1>3, ConcatAssociative
    <3>2. queued_ids' = Popped \o (Pending \o add_ids) /\ next_id_index' = Len(Popped)
      BY <1>2, <2>2, <3>1
    <3>3. QED
      BY <1>2, <1>5, <1>6, <2>1, <3>2, Laid
  <2>3. CASE queued_ids' = Pending \o add_ids /\ next_id_index' = 0
    BY <1>5, <1>6, <1>8, <2>1, <2>3
  <2>4. QED
    BY <1>10, <2>2, <2>3 DEF AppendAtBack
<1>11. QED
  BY <1>1, <1>9, <1>10

LEMMA ClientStaysIdle ==
  ASSUME Arguments, call = Idle, UNCHANGED <<call, prepared, add_ids, before>>
  PROVE  Arguments' /\ HalfDone'
BY DEF Arguments, HalfDone

\* Removing ids that have not been popped leaves the popped ones in place.
LEMMA UnqueueStep ==
  ASSUME Vector, Arguments, NEW S, Unqueue(S), PoppedIds \cap S = {}
  PROVE  /\ Vector' /\ Arguments' /\ HalfDone'
         /\ Pending' = Without(Pending, S)
         /\ (\E i \in DOMAIN queued_ids : queued_ids[i] \in S)
                <=> S \cap Occurring(Pending) # {}
<1>1. /\ call = Idle /\ queued_ids' = Without(queued_ids, S)
      /\ UNCHANGED <<next_id_index, call, prepared, add_ids, before>>
  BY DEF Unqueue
<1>2. /\ Pending \in Seq(Ids) /\ Popped \in Seq(Ids) /\ queued_ids = Popped \o Pending
      /\ Len(Popped) = next_id_index
      /\ Len(Pending) = Len(queued_ids) - next_id_index
      /\ \A i \in 1..Len(Pending) : Pending[i] = queued_ids[next_id_index + i]
      /\ \A i \in 1..next_id_index : Popped[i] = queued_ids[i]
  BY Parts
<1>3. /\ Len(queued_ids) \in Nat /\ next_id_index \in 0..Len(queued_ids)
      /\ DOMAIN queued_ids = 1..Len(queued_ids)
      /\ DOMAIN Popped = 1..next_id_index
      /\ DOMAIN Pending = 1..Len(Pending)
  BY <1>2, LenProperties DEF Vector
<1>4. \A i \in 1..next_id_index : queued_ids[i] \notin S
  BY <1>3 DEF PoppedIds
<1>5. Without(Popped, S) = Popped
  <2>1. Occurring(Popped) \cap S = {}
    BY <1>2, <1>3, <1>4 DEF Occurring
  <2>2. QED
    BY <1>2, <2>1, WithoutNone
<1>6. Without(queued_ids, S) = Popped \o Without(Pending, S)
  <2>1. Without(Popped \o Pending, S) = Without(Popped, S) \o Without(Pending, S)
    BY <1>2, WithoutConcat, Zenon
  <2>2. QED
    BY <1>2, <1>5, <2>1, Zenon
<1>7. Vector' /\ Pending' = Without(Pending, S)
  <2>1. Without(Pending, S) \in Seq(Ids)
    BY <1>2, WithoutInSeq
  <2>2. QED
    BY <1>1, <1>2, <1>6, <2>1, Laid
<1>8. ASSUME NEW i \in DOMAIN queued_ids, queued_ids[i] \in S
      PROVE  S \cap Occurring(Pending) # {}
  <2>1. i \notin 1..next_id_index
    BY <1>4, <1>8
  <2>2. i \in (next_id_index + 1)..Len(queued_ids)
    BY <1>3, <2>1
  <2>3. IsPending(queued_ids[i])
    BY <2>2 DEF IsPending
  <2>4. QED
    BY <1>8, <2>3, PendingIds
<1>9. ASSUME NEW id \in S \cap Occurring(Pending)
      PROVE  \E i \in DOMAIN queued_ids : queued_ids[i] \in S
  <2>1. PICK i \in (next_id_index + 1)..Len(queued_ids) : queued_ids[i] = id
    BY PendingIds DEF IsPending
  <2>2. i \in DOMAIN queued_ids
    BY <1>3
  <2>3. QED
    BY <2>1, <2>2
<1>10. Arguments' /\ HalfDone'
  BY <1>1, ClientStaysIdle
<1>11. QED
  BY <1>7, <1>8, <1>9, <1>10

LEMMA PopStep ==
  ASSUME Vector, Arguments, Pop
  PROVE  /\ Vector' /\ Arguments' /\ HalfDone'
         /\ \/ /\ Pending # <<>>
               /\ Pending' = Tail(Pending)
               /\ last' = <<"pop", Head(Pending)>>
            \/ /\ Pending = <<>>
               /\ Pending' = Pending
               /\ last' = <<"pop", Invalid>>
<1>1. /\ call = Idle
      /\ UNCHANGED <<queued_ids, call, prepared, add_ids, before>>
  BY DEF Pop
<1>2. Arguments' /\ HalfDone'
  BY <1>1, ClientStaysIdle
<1>3. /\ Pending \in Seq(Ids) /\ Len(Pending) \in Nat
      /\ Len(Pending) = Len(queued_ids) - next_id_index
      /\ \A i \in 1..Len(Pending) : Pending[i] = queued_ids[next_id_index + i]
      /\ queued_ids \in Seq(Ids) /\ Len(queued_ids) \in Nat
      /\ next_id_index \in 0..Len(queued_ids)
  BY Parts, LenProperties DEF Vector
<1>4. CASE next_id_index < Len(queued_ids)
  <2>1. next_id_index' = next_id_index + 1 /\ last' = <<"pop", queued_ids[next_id_index + 1]>>
    BY <1>3, <1>4 DEF Pop
  <2>2. Vector'
    BY <1>1, <1>3, <1>4, <2>1 DEF Vector
  <2>3. Pending # <<>>
    BY <1>3, <1>4, EmptySeq
  <2>4. Head(Pending) = queued_ids[next_id_index + 1] /\ Tail(Pending) = Pending'
    <3>1. /\ next_id_index + 1 \in 1..Len(queued_ids)
          /\ Len(queued_ids) \in (next_id_index + 1)..Len(queued_ids)
      BY <1>3, <1>4
    <3>2. Pending' = SubSeq(queued_ids, (next_id_index + 1) + 1, Len(queued_ids))
      BY <1>1, <2>1 DEF Pending
    <3>3. QED
      BY <1>3, <3>1, <3>2, HeadTailOfSubSeq DEF Pending
  <2>5. QED
    BY <1>2, <2>1, <2>2, <2>3, <2>4
<1>5. CASE next_id_index >= Len(queued_ids)
  <2>1. next_id_index' = next_id_index /\ last' = <<"pop", Invalid>>
    BY <1>3, <1>5 DEF Pop
  <2>2. Vector' /\ Pending' = Pending
    BY <1>1, <2>1 DEF Vector, Pending
  <2>3. Pending = <<>>
    BY <1>3, <1>5, EmptySeq
  <2>4. QED
    BY <1>2, <2>1, <2>2, <2>3
<1>6. QED
  BY <1>3, <1>4, <1>5

----------------------------------------------------------------------------
(* The invariant holds                                                     *)

LEMMA InitInv == Init => Inv
<1> SUFFICES ASSUME Init PROVE Inv
  OBVIOUS
<1>1. PICK id \in Ids : queued_ids = <<id>>
  BY DEF Init
<1>2. <<id>> \in Seq(Ids) /\ Len(<<id>>) = 1
  <2>1. <<id>> = Append(<<>>, id) /\ <<>> \in Seq(Ids) /\ Len(<<>>) = 0
    BY EmptySeq
  <2>2. QED
    BY <2>1, AppendProperties
<1>3. Vector
  BY <1>1, <1>2 DEF Init, Vector
<1>4. <<>> \in Seq(Ids) /\ <<>> \in Seq(Results)
  BY EmptySeq
<1>5. QED
  BY <1>3, <1>4 DEF Init, Inv, Arguments, HalfDone

LEMMA InvStep ==
  ASSUME ~UnqueueConsumed
  PROVE  Inv /\ [Next]_vars => Inv'
<1> SUFFICES ASSUME Inv, [Next]_vars PROVE Inv'
  OBVIOUS
<1> USE DEF Inv
<1>1. ASSUME NEW ids \in Ranges, NEW strategy \in Strategies, NEW position \in Positions,
             BeginQueueAs(ids, strategy, position)
      PROVE  Inv'
  BY <1>1, BeginStep
<1>2. CASE PrepareAppendQueue
  BY <1>2, PrepareStep
<1>3. CASE AppendToQueue
  BY <1>3, AppendStep
<1>4. ASSUME NEW S \in SUBSET Ids, Unqueue(S)
      PROVE  Inv'
  <2>1. PoppedIds \cap S = {}
    BY <1>4 DEF Unqueue
  <2>2. QED
    BY <1>4, <2>1, UnqueueStep
<1>5. CASE Pop
  BY <1>5, PopStep
<1>6. CASE UNCHANGED vars
  <2>1. Vector' /\ Arguments'
    BY <1>6 DEF vars, Vector, Arguments
  <2>2. /\ Pending' = Pending /\ Looked' = Looked /\ Refused' = Refused
        /\ Replaced' = Replaced /\ \A i : Result(i)' = Result(i)
    BY <1>6 DEF vars, Pending, Looked, Refused, Replaced, Result
  <2>3. HalfDone'
    BY <1>6, <2>2 DEF vars, HalfDone
  <2>4. QED
    BY <2>1, <2>3
<1>7. QED
  BY <1>1, <1>2, <1>3, <1>4, <1>5, <1>6 DEF Next

LEMMA SpecInv ==
  ASSUME ~UnqueueConsumed
  PROVE  Spec => []Inv
<1>1. Init => Inv
  BY InitInv
<1>2. Inv /\ [Next]_vars => Inv'
  BY InvStep
<1>3. QED
  BY <1>1, <1>2, PTL DEF Spec

----------------------------------------------------------------------------
(* Theorems                                                                *)

\* For a client that does not unqueue ids it has popped, next_id_index never
\* passes the end of the vector, however ids are queued, replaced, unqueued
\* and popped: the searches that start there (event.cpp:87, 94, 129 and 147)
\* are defined.
THEOREM InBounds ==
  ASSUME ~UnqueueConsumed
  PROVE  Spec => []IndexInBounds
<1>1. Inv => IndexInBounds
  <2>1. SUFFICES ASSUME Inv PROVE IndexInBounds
    OBVIOUS
  <2>2. Len(queued_ids) \in Nat /\ next_id_index \in 0..Len(queued_ids)
    BY <2>1, LenProperties DEF Inv, Vector
  <2>3. QED
    BY <2>2 DEF IndexInBounds
<1>2. QED
  BY <1>1, SpecInv, PTL

\* For such a client unqueue() removes exactly the matching ids from those
\* that are still queued, as event.hpp says of it.
THEOREM UnqueuesMatching ==
  ASSUME ~UnqueueConsumed
  PROVE  Spec => UnqueueRemovesMatching
<1>1. ASSUME Inv
      PROVE  \A S \in SUBSET Ids : Unqueue(S) => Pending' = Without(Pending, S)
  <2> SUFFICES ASSUME NEW S \in SUBSET Ids, Unqueue(S)
               PROVE  Pending' = Without(Pending, S)
    OBVIOUS
  <2>1. PoppedIds \cap S = {}
    BY DEF Unqueue
  <2>2. QED
    BY <1>1, <2>1, UnqueueStep DEF Inv
<1>2. QED
  BY <1>1, SpecInv, PTL DEF Spec, UnqueueRemovesMatching

----------------------------------------------------------------------------
(* The refinement                                                          *)

LEMMA ApiSequences ==
  /\ \A s, S : Api!Without(s, S) = Without(s, S)
  /\ \A s : Api!Occurring(s) = Occurring(s)
BY DEF Without, Api!Without, Occurring, Api!Occurring

LEMMA ApiInit == Init => Api!Init
<1> SUFFICES ASSUME Init PROVE Api!Init
  OBVIOUS
<1>1. PICK id \in Ids : queued_ids = <<id>>
  BY DEF Init
<1>2. next_id_index = 0 /\ call = Idle /\ last = <<"created">>
  BY DEF Init
<1>3. Vector
  BY InitInv DEF Inv
<1>4. Pending = queued_ids
  <2>1. next_id_index + 1 = 1
    BY <1>2
  <2>2. QED
    BY <1>3, <2>1, SubSeqFull DEF Vector, Pending
<1>5. QED
  BY <1>1, <1>2, <1>4 DEF Api!Init

\* The whole range has been looked at: what is to be inserted is what the api
\* accepts, what is pending what it keeps.
LEMMA ApiQueueAs ==
  ASSUME Inv, AppendToQueue
  PROVE  Api!QueueAs(call.ids, call.strategy, call.position)
<1> DEFINE ids == call.ids
<1>1. /\ Vector /\ Arguments /\ HalfDone
      /\ call # Idle /\ call' = Idle
      /\ Len(prepared) = Len(ids)
      /\ last' = <<"queue_as", prepared>>
  BY DEF Inv, AppendToQueue
<1>2. /\ ids \in Seq(Ids \cup {Invalid})
      /\ DOMAIN ids = 1..Len(ids)
  BY <1>1, RangeType
<1>3. Looked = ids
  BY <1>1, <1>2, SubSeqFull DEF Looked
<1>4. Api!Accepted(ids, call.strategy) = add_ids
  <2>1. Api!Accepted(ids, call.strategy) =
            Without(ids, {Invalid} \cup IF call.strategy = "discard"
                                        THEN Occurring(before) ELSE {})
    BY <1>1, ApiSequences DEF Api!Accepted
  <2>2. QED
    BY <1>1, <1>3, <2>1 DEF HalfDone, Refused
<1>5. Api!Kept(ids, call.strategy) = Pending
  <2>1. Api!Kept(ids, call.strategy) =
            Without(before, IF call.strategy = "replace" THEN Occurring(ids) ELSE {})
    BY <1>1, ApiSequences DEF Api!Kept
  <2>2. QED
    BY <1>1, <1>3, <2>1 DEF HalfDone, Replaced
<1>6. [i \in DOMAIN ids |-> Api!ResultOf(ids, call.strategy, i)] = prepared
  <2>1. /\ prepared \in Seq(Results)
        /\ DOMAIN prepared = 1..Len(ids)
        /\ prepared = [i \in 1..Len(ids) |-> prepared[i]]
    BY <1>1, LenProperties DEF Arguments
  <2>2. ASSUME NEW i \in 1..Len(ids)
        PROVE  Api!ResultOf(ids, call.strategy, i) = prepared[i]
    <3>1. prepared[i] = Result(i)
      BY <1>1 DEF HalfDone
    <3>2. Api!ResultOf(ids, call.strategy, i) = Result(i)
      BY <1>1, ApiSequences DEF Api!ResultOf, Result
    <3>3. QED
      BY <3>1, <3>2
  <2>3. QED
    BY <1>2, <2>1, <2>2
<1>7. Pending' = IF call.position = "at_front" THEN add_ids \o Pending
                 ELSE Pending \o add_ids
  BY <1>1, AppendStep
<1>8. QED
  BY <1>1, <1>4, <1>5, <1>6, <1>7 DEF Api!QueueAs

LEMMA ApiStep ==
  ASSUME ~UnqueueConsumed
  PROVE  Inv /\ [Next]_vars => [Api!Next]_(Api!vars)
<1> SUFFICES ASSUME Inv, [Next]_vars PROVE Api!Next \/ UNCHANGED Api!vars
  OBVIOUS
<1>0. Vector /\ Arguments /\ HalfDone
  BY DEF Inv
<1>1. ASSUME NEW ids \in Ranges, NEW strategy \in Strategies, NEW position \in Positions,
             BeginQueueAs(ids, strategy, position)
      PROVE  UNCHANGED Api!vars
  <2>1. call' # Idle
    BY <1>0, <1>1, BeginStep
  <2>2. call = Idle /\ before' = Pending /\ UNCHANGED last
    BY <1>1 DEF BeginQueueAs
  <2>3. QED
    BY <2>1, <2>2 DEF Api!vars
<1>2. CASE PrepareAppendQueue
  BY <1>2 DEF PrepareAppendQueue, Api!vars
<1>3. CASE AppendToQueue
  <2>1. Api!QueueAs(call.ids, call.strategy, call.position)
    BY <1>3, ApiQueueAs
  <2>2. call.ids \in Ranges /\ call.strategy \in Strategies /\ call.position \in Positions
    BY <1>0, <1>3 DEF AppendToQueue, Arguments
  <2>3. QED
    BY <2>1, <2>2 DEF Api!Next, Strategies, Positions
<1>4. ASSUME NEW S \in SUBSET Ids, Unqueue(S)
      PROVE  Api!Next
  <2>1. /\ call = Idle /\ call' = Idle /\ PoppedIds \cap S = {}
        /\ last' = <<"unqueue", \E i \in DOMAIN queued_ids : queued_ids[i] \in S>>
    BY <1>4 DEF Unqueue
  <2>2. /\ Pending' = Without(Pending, S)
        /\ (\E i \in DOMAIN queued_ids : queued_ids[i] \in S)
               <=> S \cap Occurring(Pending) # {}
    BY <1>0, <1>4, <2>1, UnqueueStep
  <2>3. Api!Unqueue(S)
    BY <2>1, <2>2, ApiSequences DEF Api!Unqueue
  <2>4. QED
    BY <2>3 DEF Api!Next
<1>5. CASE Pop
  <2>1. call = Idle /\ call' = Idle
    BY <1>5 DEF Pop
  <2>2. Api!Pop
    BY <1>0, <1>5, <2>1, PopStep DEF Api!Pop
  <2>3. QED
    BY <2>2 DEF Api!Next
<1>6. CASE UNCHANGED vars
  BY <1>6 DEF vars, Pending, Api!vars
<1>7. QED
  BY <1>1, <1>2, <1>3, <1>4, <1>5, <1>6 DEF Next

\* For such a client the vector, its index and the range queued id by id
\* implement the double-ended queue of EventIdsAbs: every range takes effect
\* at once, each id judged against the ids queued before the call, and neither
\* popped ids nor the way room is made for new ones can be told from outside.
THEOREM ImplementsApi ==
  ASSUME ~UnqueueConsumed
  PROVE  Spec => ApiSpec
<1>1. Init => Api!Init
  BY ApiInit
<1>2. Inv /\ [Next]_vars => [Api!Next]_(Api!vars)
  BY ApiStep
<1>3. QED
  BY <1>1, <1>2, SpecInv, PTL DEF Spec, ApiSpec, Api!Spec
=============================================================================
