------------------------- MODULE EventHandlingProofs -------------------------
(***************************************************************************)
(* Proofs about EventHandling, for all sets of events and ids and any      *)
(* number and depth of calls.  What relates the calls in progress to the   *)
(* data of an event is proved for one thread, which an event belongs to;   *)
(* types and the order of ids in handle() for any number.                  *)
(***************************************************************************)
EXTENDS EventHandling, SequenceTheorems, FiniteSetTheorems, TLAPS

HandleFrames ==
    [fn : {"handle"}, event : Events, dirty : BOOLEAN,
     at : {"begin", "ids", "check", "afterwards", "remove"}]

HandleAsFrames ==
    [fn : {"handle_as"}, event : Events, as : AllIds, original : AllIds \cup {None}]

----------------------------------------------------------------------------
(* The calls of one thread                                                 *)

\* A thread is in handle() first, the depth is bounded with room for the
\* handle_as() that a handle() makes, and after finishing_handling nothing is
\* left to be followed by another one.
Sound(s) ==
    /\ s \in Seq(Frames) /\ Len(s) <= MaxDepth
    /\ s # <<>> => s[1].fn = "handle"
    /\ \A i \in 1..Len(s) : s[i].fn = "handle" =>
          /\ i < MaxDepth
          /\ s[i].at \in {"check", "afterwards", "remove"} => ~s[i].dirty

\* The id of the innermost handle_as() among the first n calls, None without.
IdAt(s, n, id) ==
    \/ id = None /\ \A i \in 1..n : s[i].fn # "handle_as"
    \/ \E i \in 1..n :
          /\ s[i].fn = "handle_as" /\ s[i].as = id
          /\ \A j \in i + 1..n : s[j].fn # "handle_as"

\* All calls are of the event e, each handle_as() remembers the id that was
\* current before it, and id is the one of the innermost.
NestedIds(s, e, id) ==
    /\ \A i \in 1..Len(s) : s[i].event = e
    /\ \A i \in 1..Len(s) : s[i].fn = "handle_as" => IdAt(s, i - 1, s[i].original)
    /\ IdAt(s, Len(s), id)

LEMMA FrameKinds ==
  /\ Frames = HandleFrames \cup HandleAsFrames
  /\ \A f \in HandleFrames : f.fn = "handle" /\ f.event \in Events
  /\ \A f \in HandleAsFrames :
        /\ f.fn = "handle_as" /\ f.event \in Events
        /\ f.as \in AllIds /\ f.original \in AllIds \cup {None}
  /\ \A f \in Frames : f.fn \in {"handle", "handle_as"} /\ f.event \in Events
  BY DEF Frames, HandleFrames, HandleAsFrames

LEMMA SoundSeq ==
  ASSUME NEW s, Sound(s)
  PROVE  Len(s) \in Nat /\ \A i \in 1..Len(s) : s[i] \in Frames
  BY LenProperties, ElementOfSeq DEF Sound

LEMMA AppendTop ==
  ASSUME NEW s \in Seq(Frames), NEW f \in Frames
  PROVE  /\ Append(s, f) \in Seq(Frames) /\ Append(s, f) # <<>>
         /\ Len(Append(s, f)) = Len(s) + 1 /\ Len(s) \in Nat
         /\ \A i \in 1..Len(s) : Append(s, f)[i] = s[i]
         /\ Append(s, f)[Len(s) + 1] = f
         /\ Front(Append(s, f)) = s /\ Last(Append(s, f)) = f
  BY AppendProperties, LenProperties DEF Front, Last

LEMMA FrontTop ==
  ASSUME NEW s \in Seq(Frames), s # <<>>
  PROVE  /\ Front(s) \in Seq(Frames) /\ Len(s) \in Nat \ {0}
         /\ Len(Front(s)) = Len(s) - 1
         /\ \A i \in 1..Len(s) - 1 : Front(s)[i] = s[i]
         /\ Last(s) = s[Len(s)] /\ Last(s) \in Frames
<1>1. PICK t \in Seq(Frames), f \in Frames : s = Append(t, f)
  BY SequenceEmptyOrAppend
<1>2. QED
  BY <1>1, AppendTop

\* IdAt looks at the first n calls only, and at their handle_as() only.
LEMMA IdAtAgrees ==
  ASSUME NEW s, NEW t, NEW n \in Nat, NEW id, IdAt(s, n, id),
         \A i \in 1..n : /\ t[i].fn = s[i].fn
                         /\ s[i].fn = "handle_as" => t[i].as = s[i].as
  PROVE  IdAt(t, n, id)
<1>1. CASE id = None /\ \A i \in 1..n : s[i].fn # "handle_as"
  BY <1>1 DEF IdAt
<1>2. CASE \E i \in 1..n : /\ s[i].fn = "handle_as" /\ s[i].as = id
                           /\ \A j \in i + 1..n : s[j].fn # "handle_as"
  <2>1. PICK i \in 1..n : /\ s[i].fn = "handle_as" /\ s[i].as = id
                          /\ \A j \in i + 1..n : s[j].fn # "handle_as"
    BY <1>2
  <2>2. t[i].fn = "handle_as" /\ t[i].as = id
    BY <2>1
  <2>3. ASSUME NEW j \in i + 1..n
        PROVE  t[j].fn # "handle_as"
    <3>1. j \in 1..n
      OBVIOUS
    <3>2. QED
      BY <2>1, <3>1
  <2>4. QED
    BY <2>2, <2>3 DEF IdAt
<1>3. QED
  BY <1>1, <1>2 DEF IdAt

\* A handle() on top changes no id.
LEMMA IdAtHandle ==
  ASSUME NEW s, NEW n \in Nat \ {0}, NEW id, s[n].fn = "handle"
  PROVE  IdAt(s, n, id) <=> IdAt(s, n - 1, id)
<1>1. ASSUME IdAt(s, n, id)
      PROVE  IdAt(s, n - 1, id)
  <2>1. CASE id = None /\ \A i \in 1..n : s[i].fn # "handle_as"
    BY <2>1 DEF IdAt
  <2>2. CASE \E i \in 1..n : /\ s[i].fn = "handle_as" /\ s[i].as = id
                             /\ \A j \in i + 1..n : s[j].fn # "handle_as"
    <3>1. PICK i \in 1..n : /\ s[i].fn = "handle_as" /\ s[i].as = id
                            /\ \A j \in i + 1..n : s[j].fn # "handle_as"
      BY <2>2
    <3>2. i \in 1..n - 1
      BY <3>1
    <3>3. \A j \in i + 1..n - 1 : s[j].fn # "handle_as"
      BY <3>1
    <3>4. QED
      BY <3>1, <3>2, <3>3 DEF IdAt
  <2>3. QED
    BY <1>1, <2>1, <2>2 DEF IdAt
<1>2. ASSUME IdAt(s, n - 1, id)
      PROVE  IdAt(s, n, id)
  <2>1. CASE id = None /\ \A i \in 1..n - 1 : s[i].fn # "handle_as"
    <3>1. \A i \in 1..n : s[i].fn # "handle_as"
      BY <2>1
    <3>2. QED
      BY <2>1, <3>1 DEF IdAt
  <2>2. CASE \E i \in 1..n - 1 : /\ s[i].fn = "handle_as" /\ s[i].as = id
                                 /\ \A j \in i + 1..n - 1 : s[j].fn # "handle_as"
    <3>1. PICK i \in 1..n - 1 : /\ s[i].fn = "handle_as" /\ s[i].as = id
                                /\ \A j \in i + 1..n - 1 : s[j].fn # "handle_as"
      BY <2>2
    <3>2. \A j \in i + 1..n : s[j].fn # "handle_as"
      BY <3>1
    <3>3. i \in 1..n
      OBVIOUS
    <3>4. QED
      BY <3>1, <3>2, <3>3 DEF IdAt
  <2>3. QED
    BY <1>2, <2>1, <2>2 DEF IdAt
<1>3. QED
  BY <1>1, <1>2

----------------------------------------------------------------------------
(* How calls begin and end                                                 *)

LEMMA PushHandleAs ==
  ASSUME NEW s, Sound(s), s # <<>>, Len(s) < MaxDepth, MaxDepth \in Nat,
         NEW e \in Events, NEW id \in AllIds, NEW original \in AllIds \cup {None}
  PROVE  LET t == Append(s, [fn |-> "handle_as", event |-> e, as |-> id,
                             original |-> original])
         IN  Sound(t) /\ t # <<>> /\ (NestedIds(s, e, original) => NestedIds(t, e, id))
<1> DEFINE f == [fn |-> "handle_as", event |-> e, as |-> id, original |-> original]
           t == Append(s, f)
           n == Len(s)
<1>1. f \in Frames /\ f.fn = "handle_as" /\ f.event = e /\ f.as = id /\ f.original = original
  BY FrameKinds DEF HandleAsFrames
<1> HIDE DEF f
<1>2. /\ t \in Seq(Frames) /\ t # <<>> /\ Len(t) = n + 1 /\ n \in Nat
      /\ \A i \in 1..n : t[i] = s[i]
      /\ t[n + 1] = f
  BY <1>1, AppendTop DEF Sound
<1> HIDE DEF t
<1>3. n # 0
  BY EmptySeq DEF Sound
<1>4. Sound(t)
  <2>1. ASSUME NEW i \in 1..Len(t), t[i].fn = "handle"
        PROVE  /\ i < MaxDepth
               /\ t[i].at \in {"check", "afterwards", "remove"} => ~t[i].dirty
    <3>1. i \in 1..n
      BY <1>1, <1>2, <2>1
    <3>2. QED
      BY <1>2, <2>1, <3>1 DEF Sound
  <2>2. Len(t) <= MaxDepth /\ t[1].fn = "handle"
    BY <1>2, <1>3 DEF Sound
  <2>3. QED
    BY <1>2, <2>1, <2>2 DEF Sound
<1>5. ASSUME NestedIds(s, e, original)
      PROVE  NestedIds(t, e, id)
  <2>1. \A i \in 1..Len(t) : t[i].event = e
    BY <1>1, <1>2, <1>5 DEF NestedIds
  <2>2. ASSUME NEW i \in 1..Len(t), t[i].fn = "handle_as"
        PROVE  IdAt(t, i - 1, t[i].original)
    <3>1. IdAt(s, i - 1, t[i].original)
      <4>1. CASE i = n + 1
        BY <1>1, <1>2, <1>5, <4>1 DEF NestedIds
      <4>2. CASE i \in 1..n
        BY <1>2, <1>5, <2>2, <4>2 DEF NestedIds
      <4>3. QED
        BY <1>2, <4>1, <4>2
    <3>2. i - 1 \in Nat /\ \A j \in 1..i - 1 : t[j] = s[j]
      BY <1>2
    <3>3. QED
      BY <3>1, <3>2, IdAtAgrees
  <2>3. IdAt(t, Len(t), id)
    <3>1. \A j \in Len(t) + 1..Len(t) : t[j].fn # "handle_as"
      BY <1>2
    <3>2. Len(t) \in 1..Len(t) /\ t[Len(t)].fn = "handle_as" /\ t[Len(t)].as = id
      BY <1>1, <1>2
    <3>3. QED
      BY <3>1, <3>2 DEF IdAt
  <2>4. QED
    BY <2>1, <2>2, <2>3 DEF NestedIds
<1>6. QED
  BY <1>2, <1>4, <1>5 DEF t, f

LEMMA PushHandle ==
  ASSUME NEW s, Sound(s), Len(s) + 1 < MaxDepth, MaxDepth \in Nat, NEW e \in Events
  PROVE  LET t == Append(s, HandleCall(e))
         IN  /\ Sound(t) /\ t # <<>>
             /\ \A id : NestedIds(s, e, id) => NestedIds(t, e, id)
<1> DEFINE f == HandleCall(e)
           t == Append(s, f)
           n == Len(s)
<1>1. /\ f \in Frames /\ f.fn = "handle" /\ f.event = e /\ f.at = "begin"
  BY FrameKinds DEF HandleFrames, HandleCall
<1> HIDE DEF f
<1>2. /\ t \in Seq(Frames) /\ t # <<>> /\ Len(t) = n + 1 /\ n \in Nat
      /\ \A i \in 1..n : t[i] = s[i]
      /\ t[n + 1] = f
  BY <1>1, AppendTop DEF Sound
<1> HIDE DEF t
<1>3. Sound(t)
  <2>1. ASSUME NEW i \in 1..Len(t), t[i].fn = "handle"
        PROVE  /\ i < MaxDepth
               /\ t[i].at \in {"check", "afterwards", "remove"} => ~t[i].dirty
    <3>1. CASE i = n + 1
      BY <1>1, <1>2, <3>1
    <3>2. CASE i \in 1..n
      BY <1>2, <2>1, <3>2 DEF Sound
    <3>3. QED
      BY <1>2, <3>1, <3>2
  <2>2. t[1].fn = "handle"
    <3>1. CASE n = 0
      BY <1>1, <1>2, <3>1
    <3>2. CASE n # 0
      BY <1>2, <3>2, EmptySeq DEF Sound
    <3>3. QED
      BY <3>1, <3>2
  <2>3. Len(t) <= MaxDepth
    BY <1>2
  <2>4. QED
    BY <1>2, <2>1, <2>2, <2>3 DEF Sound
<1>4. ASSUME NEW id, NestedIds(s, e, id)
      PROVE  NestedIds(t, e, id)
  <2>1. \A i \in 1..Len(t) : t[i].event = e
    BY <1>1, <1>2, <1>4 DEF NestedIds
  <2>2. ASSUME NEW i \in 1..Len(t), t[i].fn = "handle_as"
        PROVE  IdAt(t, i - 1, t[i].original)
    <3>1. i \in 1..n
      BY <1>1, <1>2, <2>2
    <3>2. IdAt(s, i - 1, t[i].original)
      BY <1>2, <1>4, <2>2, <3>1 DEF NestedIds
    <3>3. i - 1 \in Nat /\ \A j \in 1..i - 1 : t[j] = s[j]
      BY <1>2
    <3>4. QED
      BY <3>2, <3>3, IdAtAgrees
  <2>3. IdAt(t, n, id)
    BY <1>2, <1>4, IdAtAgrees DEF NestedIds
  <2>4. IdAt(t, Len(t), id)
    <3>1. Len(t) \in Nat \ {0} /\ Len(t) - 1 = n /\ t[Len(t)].fn = "handle"
      BY <1>1, <1>2
    <3>2. QED
      BY <2>3, <3>1, IdAtHandle
  <2>5. QED
    BY <2>1, <2>2, <2>4 DEF NestedIds
<1>5. QED
  BY <1>2, <1>3, <1>4 DEF t, f

LEMMA PopFrame ==
  ASSUME NEW s, Sound(s), s # <<>>
  PROVE  /\ Sound(Front(s))
         /\ \A e, id : /\ NestedIds(s, e, id) /\ IdAt(s, Len(s) - 1, id)
                          => NestedIds(Front(s), e, id)
                       /\ NestedIds(s, e, id) /\ Last(s).fn = "handle_as"
                          => NestedIds(Front(s), e, Last(s).original)
                       /\ NestedIds(s, e, id) /\ Last(s).fn = "handle"
                          => NestedIds(Front(s), e, id)
                       /\ NestedIds(s, e, id) => Last(s).event = e
<1> DEFINE t == Front(s)
           n == Len(s)
<1>1. /\ t \in Seq(Frames) /\ n \in Nat \ {0} /\ Len(t) = n - 1
      /\ \A i \in 1..n - 1 : t[i] = s[i]
      /\ Last(s) = s[n]
  BY FrontTop DEF Sound
<1> HIDE DEF t
<1>2. Sound(t)
  <2>1. ASSUME NEW i \in 1..Len(t), t[i].fn = "handle"
        PROVE  /\ i < MaxDepth
               /\ t[i].at \in {"check", "afterwards", "remove"} => ~t[i].dirty
    <3>1. i \in 1..n /\ t[i] = s[i]
      BY <1>1
    <3>2. QED
      BY <2>1, <3>1 DEF Sound
  <2>2. t # <<>> => t[1].fn = "handle"
    <3>1. t # <<>> => Len(t) # 0
      BY <1>1, EmptySeq
    <3>2. QED
      BY <1>1, <3>1 DEF Sound
  <2>3. Len(t) <= MaxDepth
    <3>1. MaxDepth \in Nat
      BY HandlingAssumption DEF HandlingAssumption
    <3>2. QED
      BY <1>1, <3>1 DEF Sound
  <2>4. QED
    BY <1>1, <2>1, <2>2, <2>3 DEF Sound
<1>3. ASSUME NEW e, NEW id, NEW below, NestedIds(s, e, id), IdAt(s, n - 1, below)
      PROVE  NestedIds(t, e, below)
  <2>1. \A i \in 1..Len(t) : i \in 1..n /\ t[i] = s[i]
    BY <1>1
  <2>2. ASSUME NEW i \in 1..Len(t), t[i].fn = "handle_as"
        PROVE  IdAt(t, i - 1, t[i].original)
    <3>1. IdAt(s, i - 1, t[i].original)
      BY <1>3, <2>1, <2>2 DEF NestedIds
    <3>2. i - 1 \in Nat /\ \A j \in 1..i - 1 : t[j] = s[j]
      BY <1>1
    <3>3. QED
      BY <3>1, <3>2, IdAtAgrees
  <2>3. IdAt(t, Len(t), below)
    BY <1>1, <1>3, IdAtAgrees
  <2>4. QED
    BY <1>3, <2>1, <2>2, <2>3 DEF NestedIds
<1>4. ASSUME NEW e, NEW id, NestedIds(s, e, id)
      PROVE  /\ s[n].event = e
             /\ s[n].fn = "handle_as" => IdAt(s, n - 1, s[n].original)
             /\ s[n].fn = "handle" => IdAt(s, n - 1, id)
  BY <1>1, <1>4, IdAtHandle DEF NestedIds
<1>5. QED
  BY <1>1, <1>2, <1>3, <1>4 DEF t

LEMMA ReplaceTop ==
  ASSUME NEW s, Sound(s), s # <<>>, Last(s).fn = "handle",
         NEW at \in {"begin", "ids", "check", "afterwards", "remove"},
         NEW dirty \in BOOLEAN, at \in {"check", "afterwards", "remove"} => ~dirty
  PROVE  LET t == Append(Front(s), [Last(s) EXCEPT !.at = at, !.dirty = dirty])
         IN  /\ Sound(t) /\ t # <<>> /\ Len(t) < MaxDepth
             /\ \A e, id : NestedIds(s, e, id) => NestedIds(t, e, id)
<1> DEFINE f == [Last(s) EXCEPT !.at = at, !.dirty = dirty]
           t == Append(Front(s), f)
           n == Len(s)
<1>1. /\ Front(s) \in Seq(Frames) /\ n \in Nat \ {0} /\ Len(Front(s)) = n - 1
      /\ \A i \in 1..n - 1 : Front(s)[i] = s[i]
      /\ Last(s) = s[n] /\ Last(s) \in Frames
  BY FrontTop DEF Sound
<1>2. Last(s) \in HandleFrames
  BY <1>1, FrameKinds
<1>3. /\ f \in Frames /\ f.fn = "handle" /\ f.event = s[n].event
      /\ f.at = at /\ f.dirty = dirty
  BY <1>1, <1>2, FrameKinds DEF HandleFrames
<1> HIDE DEF f
<1>4. /\ t \in Seq(Frames) /\ t # <<>> /\ Len(t) = n
      /\ \A i \in 1..n - 1 : t[i] = s[i]
      /\ t[n] = f
  BY <1>1, <1>3, AppendTop
<1> HIDE DEF t
<1>5. n < MaxDepth /\ s[n].fn = "handle"
  BY <1>1 DEF Sound
<1>6. Sound(t)
  <2>1. ASSUME NEW i \in 1..Len(t), t[i].fn = "handle"
        PROVE  /\ i < MaxDepth
               /\ t[i].at \in {"check", "afterwards", "remove"} => ~t[i].dirty
    <3>1. CASE i = n
      BY <1>3, <1>4, <1>5, <3>1
    <3>2. CASE i \in 1..n - 1
      <4>1. i \in 1..Len(s) /\ t[i] = s[i]
        BY <1>1, <1>4, <3>2
      <4>2. QED
        BY <2>1, <4>1 DEF Sound
    <3>3. QED
      BY <1>1, <1>4, <3>1, <3>2
  <2>2. t[1].fn = "handle"
    BY <1>1, <1>3, <1>4 DEF Sound
  <2>3. Len(t) <= MaxDepth
    BY <1>4 DEF Sound
  <2>4. QED
    BY <1>4, <2>1, <2>2, <2>3 DEF Sound
<1>7. ASSUME NEW e, NEW id, NestedIds(s, e, id)
      PROVE  NestedIds(t, e, id)
  <2>1. \A i \in 1..n : /\ t[i].fn = s[i].fn /\ t[i].event = s[i].event
                        /\ s[i].fn = "handle_as" => t[i] = s[i]
    BY <1>1, <1>3, <1>4, <1>5
  <2>2. ASSUME NEW i \in 1..Len(t), t[i].fn = "handle_as"
        PROVE  IdAt(t, i - 1, t[i].original)
    <3>1. IdAt(s, i - 1, t[i].original)
      BY <1>4, <1>7, <2>1, <2>2 DEF NestedIds
    <3>2. i - 1 \in Nat /\ \A j \in 1..i - 1 : j \in 1..n
      BY <1>1, <1>4
    <3>3. QED
      BY <2>1, <3>1, <3>2, IdAtAgrees
  <2>3. IdAt(t, Len(t), id)
    BY <1>1, <1>4, <1>7, <2>1, IdAtAgrees DEF NestedIds
  <2>4. QED
    BY <1>4, <1>7, <2>1, <2>2, <2>3 DEF NestedIds
<1>8. QED
  BY <1>4, <1>5, <1>6, <1>7 DEF t, f

----------------------------------------------------------------------------
(* The inductive invariant                                                 *)

Data ==
    /\ queue \in Seq(Events)
    /\ pending \in [Events -> Seq(Ids)]
    /\ current_id \in [Events -> AllIds \cup {None}]
    /\ afterwards \in [Events -> Seq(Events)]
    /\ acts \in 0..MaxActs
    /\ started \in Seq(Events)
    /\ posts \in [Events -> Nat]
    /\ under \in [Events -> SUBSET Events]
    /\ late \in [Events -> SUBSET Ids]
    /\ failed \in SUBSET Events

Stacks ==
    /\ stack \in [Workers -> Seq(Frames)]
    /\ \A w \in Workers : Sound(stack[w])

IInv == Data /\ Stacks

OneThread == \E w : Workers = {w}

\* A thread is in the calls of one event, and the ids of the others are invalid.
Nesting ==
    \A w \in Workers, e \in Events :
        \/ /\ stack[w] # <<>> /\ stack[w][1].event = e
           /\ NestedIds(stack[w], e, current_id[e])
        \/ /\ stack[w] = <<>> \/ stack[w][1].event # e
           /\ current_id[e] = None

\* What a step of a thread in handle() or a handler does to its calls.
Moves(w) ==
    \E t :
        /\ stack' = [stack EXCEPT ![w] = t] /\ Sound(t)
        /\ current_id' \in [Events -> AllIds \cup {None}]
        /\ \A f \in Events \ {Top(w).event} : current_id'[f] = current_id[f]
        /\ NestedIds(stack[w], Top(w).event, current_id[Top(w).event])
              => NestedIds(t, Top(w).event, current_id'[Top(w).event])

LEMMA InitIInv == Init => IInv /\ Nesting
<1> SUFFICES ASSUME Init
             PROVE  IInv /\ Nesting
  OBVIOUS
<1>1. OriginalId \in Ids /\ MaxDepth \in Nat /\ MaxActs \in Nat
  BY HandlingAssumption DEF HandlingAssumption
<1>2. Data
  <2>1. <<OriginalId>> \in Seq(Ids)
    BY <1>1
  <2>2. QED
    BY <1>1, <2>1, EmptySeq DEF Init, Data
<1>3. Sound(<<>>)
  BY <1>1, EmptySeq DEF Sound
<1>4. Stacks
  BY <1>3, EmptySeq DEF Init, Stacks
<1>5. Nesting
  BY DEF Init, Nesting
<1>6. QED
  BY <1>2, <1>4, <1>5 DEF IInv

LEMMA TopProperties ==
  ASSUME IInv, NEW w \in Workers, ~Idle(w)
  PROVE  /\ Sound(stack[w]) /\ stack[w] # <<>>
         /\ Top(w) \in Frames /\ Top(w) = Last(stack[w])
         /\ Top(w).event \in Events /\ current_id[Top(w).event] \in AllIds \cup {None}
         /\ Top(w).fn = "handle" /\ Top(w).at \in {"check", "afterwards", "remove"}
               => ~Top(w).dirty
         /\ Top(w).fn = "handle" => Top(w) \in HandleFrames
         /\ Top(w).fn = "handle_as" => Top(w) \in HandleAsFrames
<1>1. Sound(stack[w]) /\ stack[w] # <<>>
  BY DEF IInv, Stacks, Idle
<1>2. /\ Top(w) \in Frames /\ Top(w) = Last(stack[w])
      /\ Top(w) = stack[w][Len(stack[w])] /\ Len(stack[w]) \in 1..Len(stack[w])
  BY <1>1, FrontTop DEF Top, Sound
<1>3. QED
  BY <1>1, <1>2, FrameKinds DEF IInv, Data, Sound

LEMMA MovesKeepsStacks ==
  ASSUME IInv, NEW w \in Workers, Moves(w)
  PROVE  Stacks'
  BY DEF IInv, Stacks, Moves, Sound

LEMMA MovesKeepsNesting ==
  ASSUME IInv, Nesting, OneThread, NEW w \in Workers, ~Idle(w), Moves(w)
  PROVE  Nesting'
<1> DEFINE s == stack[w]
           e == Top(w).event
<1>1. PICK t :
         /\ stack' = [stack EXCEPT ![w] = t] /\ Sound(t)
         /\ \A f \in Events \ {e} : current_id'[f] = current_id[f]
         /\ NestedIds(s, e, current_id[e]) => NestedIds(t, e, current_id'[e])
  BY DEF Moves
<1>2. e \in Events /\ s # <<>> /\ Sound(s) /\ Last(s).event = e
  BY TopProperties
<1>3. s[1].event \in Events
  <2>1. Len(s) \in Nat \ {0}
    BY <1>2, EmptySeq DEF Sound
  <2>2. QED
    BY <1>2, <2>1, SoundSeq, FrameKinds
<1>4. NestedIds(s, s[1].event, current_id[s[1].event])
  BY <1>2, <1>3 DEF Nesting
<1>5. s[1].event = e
  BY <1>2, <1>4, PopFrame
<1>6. NestedIds(t, e, current_id'[e])
  BY <1>1, <1>4, <1>5
<1>7. \A f \in Events \ {e} : current_id'[f] = None
  BY <1>1, <1>2, <1>5 DEF Nesting
<1>8. t # <<>> => t[1].event = e
  <2>1. t # <<>> => 1 \in 1..Len(t)
    BY <1>1, EmptySeq DEF Sound
  <2>2. QED
    BY <1>6, <2>1 DEF NestedIds
<1>9. t = <<>> => current_id'[e] = None
  BY <1>6 DEF NestedIds, IdAt
<1>10. Workers = {w} /\ stack'[w] = t
  BY <1>1 DEF OneThread, IInv, Stacks
<1>11. QED
  BY <1>2, <1>6, <1>7, <1>8, <1>9, <1>10 DEF Nesting

----------------------------------------------------------------------------
(* The steps                                                               *)

LEMMA CallFromHandle ==
  ASSUME IInv, NEW w \in Workers, ~Idle(w), Top(w).fn = "handle", NEW id \in AllIds,
         NEW at \in {"begin", "ids", "check", "afterwards", "remove"},
         NEW dirty \in BOOLEAN, at \in {"check", "afterwards", "remove"} => ~dirty,
         CallHandleAs(w, GoneTo(w, at, dirty), Top(w).event, id)
  PROVE  Moves(w)
<1> DEFINE s == stack[w]
           e == Top(w).event
           r == GoneTo(w, at, dirty)
           t == Append(r, [fn |-> "handle_as", event |-> e, as |-> id,
                           original |-> current_id[e]])
<1>1. /\ Sound(s) /\ s # <<>> /\ Top(w) = Last(s) /\ e \in Events
      /\ current_id[e] \in AllIds \cup {None}
  BY TopProperties
<1>2. r = Append(Front(s), [Last(s) EXCEPT !.at = at, !.dirty = dirty])
  BY <1>1 DEF GoneTo
<1>3. /\ Sound(r) /\ r # <<>> /\ Len(r) < MaxDepth
      /\ NestedIds(s, e, current_id[e]) => NestedIds(r, e, current_id[e])
  <2> DEFINE u == Append(Front(s), [Last(s) EXCEPT !.at = at, !.dirty = dirty])
  <2>1. /\ Sound(u) /\ u # <<>> /\ Len(u) < MaxDepth
        /\ \A f, i : NestedIds(s, f, i) => NestedIds(u, f, i)
    BY <1>1, ReplaceTop
  <2>2. r = u
    BY <1>2
  <2> HIDE DEF u, r
  <2>3. QED
    BY <2>1, <2>2
<1> HIDE DEF r
<1>4. MaxDepth \in Nat
  BY HandlingAssumption DEF HandlingAssumption
<1>5. Sound(t) /\ (NestedIds(r, e, current_id[e]) => NestedIds(t, e, id))
  BY <1>1, <1>3, <1>4, PushHandleAs
<1>6. stack' = [stack EXCEPT ![w] = t]
  BY DEF CallHandleAs, r
<1>7. current_id' = [current_id EXCEPT ![e] = id]
  BY DEF CallHandleAs
<1>8. /\ current_id' \in [Events -> AllIds \cup {None}]
      /\ \A f \in Events \ {e} : current_id'[f] = current_id[f]
      /\ current_id'[e] = id
  BY <1>1, <1>7 DEF IInv, Data
<1>9. QED
  BY <1>3, <1>5, <1>6, <1>8 DEF Moves

\* A step that leaves current_id alone.
LEMMA MovesQuietly ==
  ASSUME IInv, NEW w \in Workers, ~Idle(w), UNCHANGED current_id, NEW t, Sound(t),
         stack' = [stack EXCEPT ![w] = t],
         NestedIds(stack[w], Top(w).event, current_id[Top(w).event])
            => NestedIds(t, Top(w).event, current_id[Top(w).event])
  PROVE  Moves(w)
  BY DEF Moves, IInv, Data


LEMMA BeginsHandling ==
  ASSUME IInv, NEW w \in Workers, BeginHandling(w)
  PROVE  ~Idle(w) /\ Moves(w) /\ Data'
<1>1. ~Idle(w) /\ Top(w).fn = "handle"
  BY DEF BeginHandling, InHandle
<1>2. "begin_handling" \in AllIds
  BY DEF AllIds, HandlingIds
<1>3. CallHandleAs(w, GoneTo(w, "ids", FALSE), Top(w).event, "begin_handling")
  BY DEF BeginHandling
<1>4. Moves(w)
  BY <1>1, <1>2, <1>3, CallFromHandle
<1>5. Data'
  BY <1>4 DEF Moves, BeginHandling, history, IInv, Data
<1>6. QED
  BY <1>1, <1>4, <1>5

\* Taking the next id leaves a sequence of ids.
LEMMA HandlesNextId ==
  ASSUME IInv, NEW w \in Workers, HandleNextId(w)
  PROVE  ~Idle(w) /\ Moves(w) /\ Data'
<1> DEFINE e == Top(w).event
<1>1. ~Idle(w) /\ Top(w).fn = "handle"
  BY DEF HandleNextId, InHandle
<1>2. /\ pending[e] # <<>>
      /\ pending' = [pending EXCEPT ![e] = Tail(@)]
      /\ late' = [late EXCEPT ![e] = @ \ {Head(pending[e])}]
      /\ CallHandleAs(w, GoneTo(w, "ids", TRUE), e, Head(pending[e]))
      /\ UNCHANGED <<queue, afterwards, acts, history>>
  BY DEF HandleNextId
<1>3. e \in Events
  BY <1>1, TopProperties
<1>4. pending[e] \in Seq(Ids) /\ Head(pending[e]) \in Ids /\ Tail(pending[e]) \in Seq(Ids)
  BY <1>2, <1>3, HeadTailProperties DEF IInv, Data
<1>5. Head(pending[e]) \in AllIds
  BY <1>4 DEF AllIds
<1>6. Moves(w)
  BY <1>1, <1>2, <1>5, CallFromHandle
<1>7. pending' \in [Events -> Seq(Ids)] /\ late' \in [Events -> SUBSET Ids]
  BY <1>2, <1>3, <1>4 DEF IInv, Data
<1>8. Data'
  BY <1>2, <1>6, <1>7 DEF Moves, history, IInv, Data
<1>9. QED
  BY <1>1, <1>6, <1>8

LEMMA FinishesHandling ==
  ASSUME IInv, NEW w \in Workers, FinishingHandling(w) \/ FinishedHandling(w)
  PROVE  ~Idle(w) /\ Moves(w) /\ Data'
<1>1. ~Idle(w) /\ Top(w).fn = "handle"
  BY DEF FinishingHandling, FinishedHandling, InHandle
<1>2. {"finishing_handling", "finished_handling"} \subseteq AllIds
  BY DEF AllIds, HandlingIds
<1>3. Moves(w)
  <2>1. CASE FinishingHandling(w)
    <3>1. CallHandleAs(w, GoneTo(w, "check", FALSE), Top(w).event, "finishing_handling")
      BY <2>1 DEF FinishingHandling
    <3>2. QED
      BY <1>1, <1>2, <3>1, CallFromHandle
  <2>2. CASE FinishedHandling(w)
    <3>1. /\ CallHandleAs(w, GoneTo(w, "afterwards", Top(w).dirty), Top(w).event,
                          "finished_handling")
          /\ Top(w).at = "check"
      BY <2>2 DEF FinishedHandling, InHandle
    <3>2. Top(w) \in HandleFrames /\ ~Top(w).dirty
      BY <1>1, <3>1, TopProperties
    <3>3. Top(w).dirty \in BOOLEAN
      BY <3>2 DEF HandleFrames
    <3>4. QED
      BY <1>1, <1>2, <3>1, <3>2, <3>3, CallFromHandle
  <2>3. QED
    BY <2>1, <2>2
<1>4. UNCHANGED <<queue, pending, afterwards, acts, late, history>>
  BY DEF FinishingHandling, FinishedHandling
<1>5. Data'
  BY <1>3, <1>4 DEF Moves, history, IInv, Data
<1>6. QED
  BY <1>1, <1>3, <1>5

LEMMA QueuesAfterwards ==
  ASSUME IInv, NEW w \in Workers, QueueAfterwards(w)
  PROVE  ~Idle(w) /\ Moves(w) /\ Data'
<1> DEFINE s == stack[w]
           e == Top(w).event
           u == Append(Front(s), [Last(s) EXCEPT !.at = "remove", !.dirty = Top(w).dirty])
<1>1. ~Idle(w) /\ Top(w).fn = "handle" /\ Top(w).at = "afterwards"
  BY DEF QueueAfterwards, InHandle
<1>2. /\ Sound(s) /\ s # <<>> /\ Top(w) = Last(s) /\ e \in Events
      /\ Top(w) \in HandleFrames /\ ~Top(w).dirty
  BY <1>1, TopProperties
<1>3. /\ queue' = afterwards[e] \o queue
      /\ stack' = [stack EXCEPT ![w] = GoneTo(w, "remove", Top(w).dirty)]
      /\ UNCHANGED <<pending, current_id, afterwards, acts, late, history>>
  BY DEF QueueAfterwards
<1>4. Sound(u) /\ \A f, i : NestedIds(s, f, i) => NestedIds(u, f, i)
  <2>1. Top(w).dirty \in BOOLEAN
    BY <1>2 DEF HandleFrames
  <2>2. QED
    BY <1>1, <1>2, <2>1, ReplaceTop
<1>5. GoneTo(w, "remove", Top(w).dirty) = u
  BY <1>2 DEF GoneTo
<1> HIDE DEF u
<1>6. Moves(w)
  BY <1>1, <1>3, <1>4, <1>5, MovesQuietly
<1>7. queue' \in Seq(Events)
  BY <1>2, <1>3, ConcatProperties DEF IInv, Data
<1>8. Data'
  BY <1>3, <1>6, <1>7 DEF Moves, history, IInv, Data
<1>9. QED
  BY <1>1, <1>6, <1>8

LEMMA ReturnsFromHandle ==
  ASSUME IInv, NEW w \in Workers, ReturnFromHandle(w)
  PROVE  ~Idle(w) /\ Moves(w) /\ Data'
<1> DEFINE s == stack[w]
           e == Top(w).event
<1>1. ~Idle(w) /\ Top(w).fn = "handle"
  BY DEF ReturnFromHandle, Returning, InHandle
<1>2. Sound(s) /\ s # <<>> /\ Top(w) = Last(s) /\ e \in Events
  BY <1>1, TopProperties
<1>3. /\ afterwards' = [afterwards EXCEPT ![e] = <<>>]
      /\ stack' = [stack EXCEPT ![w] = Front(s)]
      /\ UNCHANGED <<queue, pending, current_id, acts, late, history>>
  BY DEF ReturnFromHandle, IInv, Stacks
<1>4. Sound(Front(s)) /\ (NestedIds(s, e, current_id[e]) => NestedIds(Front(s), e, current_id[e]))
  BY <1>1, <1>2, PopFrame
<1>5. Moves(w)
  BY <1>1, <1>3, <1>4, MovesQuietly
<1>6. afterwards' \in [Events -> Seq(Events)]
  BY <1>2, <1>3, EmptySeq DEF IInv, Data
<1>7. Data'
  BY <1>3, <1>5, <1>6 DEF Moves, history, IInv, Data
<1>8. QED
  BY <1>1, <1>5, <1>7

\* Handlers that queue ids or register events.
LEMMA ActsOnEvent ==
  ASSUME IInv, NEW w \in Workers,
         (\E id \in Ids : QueueAs(w, id)) \/ (\E f \in Events : Afterwards(w, f))
  PROVE  UNCHANGED <<stack, current_id>> /\ Data'
<1> DEFINE e == Top(w).event
<1>1. ~Idle(w) /\ acts < MaxActs /\ acts' = acts + 1
  BY DEF QueueAs, Afterwards, Act, InHandler
<1>2. e \in Events
  BY <1>1, TopProperties
<1>3. acts' \in 0..MaxActs
  BY <1>1, HandlingAssumption DEF HandlingAssumption, IInv, Data
<1>4. CASE \E id \in Ids : QueueAs(w, id)
  <2>1. PICK id \in Ids : QueueAs(w, id)
    BY <1>4
  <2>2. UNCHANGED <<queue, stack, current_id, afterwards, history>>
    BY <2>1 DEF QueueAs
  <2>3. pending' \in [Events -> Seq(Ids)]
    <3>1. pending[e] \in Seq(Ids)
      BY <1>2 DEF IInv, Data
    <3>2. Append(pending[e], id) \in Seq(Ids) /\ <<id>> \o pending[e] \in Seq(Ids)
      <4>1. <<id>> \in Seq(Ids)
        OBVIOUS
      <4>2. QED
        BY <3>1, <4>1, AppendProperties, ConcatProperties
    <3>3. \/ pending' = [pending EXCEPT ![e] = <<id>> \o @]
          \/ pending' = [pending EXCEPT ![e] = Append(@, id)]
      BY <2>1 DEF QueueAs
    <3>4. QED
      BY <1>2, <3>2, <3>3 DEF IInv, Data
  <2>4. late' \in [Events -> SUBSET Ids]
    <3>1. \/ late' = [late EXCEPT ![e] = @ \cup {id}]
          \/ late' = [late EXCEPT ![e] = @]
      BY <2>1 DEF QueueAs
    <3>2. late \in [Events -> SUBSET Ids] /\ late[e] \cup {id} \in SUBSET Ids
      BY <1>2 DEF IInv, Data
    <3>3. QED
      BY <3>1, <3>2
  <2>5. QED
    BY <1>3, <2>2, <2>3, <2>4 DEF history, IInv, Data
<1>5. CASE \E f \in Events : Afterwards(w, f)
  <2>1. PICK f \in Events : Afterwards(w, f)
    BY <1>5
  <2>2. /\ afterwards' = [afterwards EXCEPT ![e] = Append(@, f)]
        /\ posts' = [posts EXCEPT ![f] = @ + 1]
        /\ under' = [under EXCEPT ![f] = under[e] \cup {e}]
        /\ UNCHANGED <<queue, stack, pending, current_id, started, late, failed>>
    BY <2>1 DEF Afterwards
  <2>3. afterwards' \in [Events -> Seq(Events)]
    BY <1>2, <2>2, AppendProperties DEF IInv, Data
  <2>4. posts' \in [Events -> Nat]
    BY <2>2 DEF IInv, Data
  <2>5. under' \in [Events -> SUBSET Events]
    BY <1>2, <2>2 DEF IInv, Data
  <2>6. QED
    BY <1>3, <2>2, <2>3, <2>4, <2>5 DEF IInv, Data
<1>6. QED
  BY <1>4, <1>5

LEMMA CallsNested ==
  ASSUME IInv, NEW w \in Workers,
         NestedHandle(w) \/ \E id \in Ids : NestedHandleAs(w, id)
  PROVE  ~Idle(w) /\ Moves(w) /\ Data'
<1> DEFINE s == stack[w]
           e == Top(w).event
<1>1. ~Idle(w) /\ acts < MaxActs /\ acts' = acts + 1
  BY DEF NestedHandle, NestedHandleAs, Act, InHandler
<1>2. /\ Sound(s) /\ s # <<>> /\ e \in Events
      /\ current_id[e] \in AllIds \cup {None}
  BY <1>1, TopProperties
<1>3. MaxDepth \in Nat /\ acts' \in 0..MaxActs
  BY <1>1, HandlingAssumption DEF HandlingAssumption, IInv, Data
<1>4. CASE NestedHandle(w)
  <2> DEFINE t == Append(s, HandleCall(e))
  <2>1. /\ Len(s) + 1 < MaxDepth
        /\ stack' = [stack EXCEPT ![w] = t]
        /\ UNCHANGED <<queue, pending, current_id, afterwards, late, history>>
    BY <1>4 DEF NestedHandle, IInv, Stacks
  <2>2. Sound(t) /\ \A i : NestedIds(s, e, i) => NestedIds(t, e, i)
    BY <1>2, <1>3, <2>1, PushHandle
  <2> HIDE DEF t
  <2>3. Moves(w)
    BY <1>1, <2>1, <2>2, MovesQuietly
  <2>4. Data'
    BY <1>3, <2>1, <2>3 DEF Moves, history, IInv, Data
  <2>5. QED
    BY <1>1, <2>3, <2>4
<1>5. CASE \E id \in Ids : NestedHandleAs(w, id)
  <2>1. PICK id \in Ids : NestedHandleAs(w, id)
    BY <1>5
  <2> DEFINE t == Append(s, [fn |-> "handle_as", event |-> e, as |-> id,
                             original |-> current_id[e]])
  <2>2. /\ Len(s) < MaxDepth
        /\ stack' = [stack EXCEPT ![w] = t]
        /\ current_id' = [current_id EXCEPT ![e] = id]
        /\ UNCHANGED <<queue, pending, afterwards, late, history>>
    BY <2>1 DEF NestedHandleAs, CallHandleAs
  <2>3. id \in AllIds
    BY DEF AllIds
  <2>4. Sound(t) /\ (NestedIds(s, e, current_id[e]) => NestedIds(t, e, id))
    BY <1>2, <1>3, <2>2, <2>3, PushHandleAs
  <2> HIDE DEF t
  <2>5. /\ current_id' \in [Events -> AllIds \cup {None}]
        /\ \A f \in Events \ {e} : current_id'[f] = current_id[f]
        /\ current_id'[e] = id
    BY <1>2, <2>2, <2>3 DEF IInv, Data
  <2>6. Moves(w)
    BY <2>2, <2>4, <2>5 DEF Moves
  <2>7. Data'
    BY <1>3, <2>2, <2>5 DEF history, IInv, Data
  <2>8. QED
    BY <1>1, <2>6, <2>7
<1>6. QED
  BY <1>4, <1>5

\* handle_as() ends, with or without an exception: the id it remembered is
\* current again.
LEMMA ReturnsFromHandleAs ==
  ASSUME IInv, NEW w \in Workers, Return(w)
  PROVE  ~Idle(w) /\ Moves(w) /\ Data'
<1> DEFINE s == stack[w]
           e == Top(w).event
           below == Front(s)
           original == Top(w).original
<1>1. ~Idle(w) /\ Top(w).fn = "handle_as"
  BY DEF Return, ReturnFromHandleAs, Throw, InHandler
<1>2. /\ Sound(s) /\ s # <<>> /\ Top(w) = Last(s) /\ e \in Events
      /\ original \in AllIds \cup {None}
  BY <1>1, TopProperties, FrameKinds
<1>3. Sound(below) /\ (NestedIds(s, e, current_id[e]) => NestedIds(below, e, original))
  BY <1>1, <1>2, PopFrame
<1>4. current_id' = [current_id EXCEPT ![e] = original]
  BY DEF Return, ReturnFromHandleAs, Throw
<1>5. /\ current_id' \in [Events -> AllIds \cup {None}]
      /\ \A f \in Events \ {e} : current_id'[f] = current_id[f]
      /\ current_id'[e] = original
  BY <1>2, <1>4 DEF IInv, Data
<1>6. CASE ReturnFromHandleAs(w)
  <2>1. /\ stack' = [stack EXCEPT ![w] = below]
        /\ UNCHANGED <<queue, pending, afterwards, acts, late, history>>
    BY <1>6 DEF ReturnFromHandleAs, IInv, Stacks
  <2>2. Moves(w)
    BY <1>3, <1>5, <2>1 DEF Moves
  <2>3. Data'
    BY <1>5, <2>1 DEF history, IInv, Data
  <2>4. QED
    BY <1>1, <2>2, <2>3
<1>7. CASE Throw(w)
  <2> DEFINE t == Unwound(w)
  <2>1. /\ stack' = [stack EXCEPT ![w] = t]
        /\ failed' = IF t = <<>> THEN failed \cup {e} ELSE failed
        /\ UNCHANGED <<queue, pending, afterwards, acts, started, posts, under, late>>
    BY <1>7 DEF Throw
  <2>2. below # <<>>
    <3>1. s[1].fn = "handle" /\ Last(s) = s[Len(s)] /\ Len(below) = Len(s) - 1
          /\ Len(s) \in Nat \ {0}
      BY <1>2, FrontTop DEF Sound
    <3>2. Len(s) # 1
      BY <1>1, <1>2, <3>1
    <3>3. Len(below) # 0
      BY <3>1, <3>2
    <3>4. Len(<<>>) = 0
      BY EmptySeq
    <3>5. QED
      BY <3>3, <3>4
  <2>3. t = IF Last(below).fn = "handle" THEN Front(below) ELSE below
    BY DEF Unwound
  <2>4. Sound(t) /\ (NestedIds(below, e, original) => NestedIds(t, e, original))
    <3>1. CASE Last(below).fn = "handle"
      BY <1>3, <2>2, <2>3, <3>1, PopFrame
    <3>2. CASE Last(below).fn # "handle"
      BY <1>3, <2>3, <3>2
    <3>3. QED
      BY <3>1, <3>2
  <2> HIDE DEF t
  <2>5. Moves(w)
    BY <1>3, <1>5, <2>1, <2>4 DEF Moves
  <2>6. failed' \in SUBSET Events
    BY <1>2, <2>1 DEF IInv, Data
  <2>7. Data'
    BY <1>5, <2>1, <2>6 DEF IInv, Data
  <2>8. QED
    BY <1>1, <2>5, <2>7
<1>8. QED
  BY <1>6, <1>7 DEF Return

LEMMA Queues ==
  ASSUME IInv, NEW f \in Events, Queue(f)
  PROVE  UNCHANGED <<stack, current_id>> /\ Data'
<1>1. /\ queue' = Append(queue, f)
      /\ posts' = [posts EXCEPT ![f] = 1]
      /\ UNCHANGED <<stack, pending, current_id, afterwards, acts, started, under,
                     late, failed>>
  BY DEF Queue
<1>2. queue' \in Seq(Events) /\ posts' \in [Events -> Nat]
  BY <1>1, AppendProperties DEF IInv, Data
<1>3. QED
  BY <1>1, <1>2 DEF IInv, Data

\* A thread that is in no call begins with handle() of the event it takes.
LEMMA TakesEvent ==
  ASSUME IInv, NEW w \in Workers, TakeEvent(w)
  PROVE  /\ Data' /\ Stacks'
         /\ Nesting /\ OneThread => Nesting'
<1> DEFINE e == Head(queue)
           f == HandleCall(e)
           t == <<f>>
<1>1. /\ stack[w] = <<>> /\ queue # <<>>
      /\ stack' = [stack EXCEPT ![w] = t]
      /\ queue' = Tail(queue)
      /\ started' = Append(started, e)
      /\ UNCHANGED <<pending, current_id, afterwards, acts, posts, under, late, failed>>
  BY DEF TakeEvent, Idle
<1>2. e \in Events /\ queue' \in Seq(Events)
  BY <1>1, HeadTailProperties DEF IInv, Data
<1>3. Data'
  BY <1>1, <1>2, AppendProperties DEF IInv, Data
<1>4. /\ f \in Frames /\ f.fn = "handle" /\ f.event = e /\ f.at = "begin"
  BY <1>2, FrameKinds DEF HandleFrames, HandleCall
<1>5. t \in Seq(Frames) /\ Len(t) = 1 /\ t[1] = f /\ t # <<>>
  BY <1>4, EmptySeq
<1> HIDE DEF t, f
<1>6. Sound(t)
  <2>1. MaxDepth \in Nat \ {0, 1}
    BY HandlingAssumption DEF HandlingAssumption
  <2>2. QED
    BY <1>4, <1>5, <2>1 DEF Sound
<1>7. Stacks'
  BY <1>1, <1>5, <1>6 DEF IInv, Stacks
<1>8. ASSUME Nesting, OneThread
      PROVE  Nesting'
  <2>1. \A g \in Events : current_id'[g] = None
    BY <1>1, <1>8 DEF Nesting
  <2>2. NestedIds(t, e, None)
    BY <1>4, <1>5 DEF NestedIds, IdAt
  <2>3. Workers = {w} /\ stack'[w] = t
    BY <1>1, <1>8 DEF OneThread, IInv, Stacks
  <2>4. QED
    BY <1>4, <1>5, <2>1, <2>2, <2>3 DEF Nesting
<1>9. QED
  BY <1>3, <1>7, <1>8

LEMMA StillStacks ==
  ASSUME IInv, UNCHANGED <<stack, current_id>>
  PROVE  Stacks' /\ (Nesting => Nesting')
  BY DEF IInv, Stacks, Nesting

LEMMA NextStep ==
  ASSUME IInv, [Next]_vars
  PROVE  /\ IInv'
         /\ Nesting /\ OneThread => Nesting'
<1>1. ASSUME NEW w \in Workers, ~Idle(w) /\ Moves(w) /\ Data'
      PROVE  IInv' /\ (Nesting /\ OneThread => Nesting')
  BY <1>1, MovesKeepsStacks, MovesKeepsNesting DEF IInv
<1>2. ASSUME UNCHANGED <<stack, current_id>> /\ Data'
      PROVE  IInv' /\ (Nesting /\ OneThread => Nesting')
  BY <1>2, StillStacks DEF IInv
<1>3. CASE UNCHANGED vars
  <2>1. Data'
    BY <1>3 DEF IInv, Data, vars, history
  <2>2. UNCHANGED <<stack, current_id>>
    BY <1>3 DEF vars
  <2>3. QED
    BY <1>2, <2>1, <2>2
<1>4. CASE \E f \in Events : Queue(f)
  BY <1>2, <1>4, Queues
<1>5. CASE \E w \in Workers : TakeEvent(w)
  BY <1>5, TakesEvent DEF IInv
<1>6. CASE \E w \in Workers : HandleStep(w)
  BY <1>1, <1>6, BeginsHandling, HandlesNextId, FinishesHandling, QueuesAfterwards,
     ReturnsFromHandle DEF HandleStep
<1>7. CASE \E w \in Workers : HandlerStep(w)
  BY <1>1, <1>2, <1>7, ActsOnEvent, CallsNested DEF HandlerStep
<1>8. CASE \E w \in Workers : Return(w)
  BY <1>1, <1>8, ReturnsFromHandleAs
<1>9. QED
  BY <1>3, <1>4, <1>5, <1>6, <1>7, <1>8 DEF Next

----------------------------------------------------------------------------
(* The theorems                                                            *)

\* What the proofs about EventHandling rest on is invariant.
THEOREM HandlingInvariance == Spec => []IInv
<1>1. Init => IInv
  BY InitIInv
<1>2. IInv /\ [Next]_vars => IInv'
  BY NextStep
<1>3. QED
  BY <1>1, <1>2, PTL DEF Spec

\* event_manager::handle and event::handle_as keep the queue, the ids an event
\* is queued as, its current id and their calls what they are declared as.
THEOREM HandlingTypesCorrect == Spec => []TypeOK
<1>1. IInv => TypeOK
  BY DEF IInv, Data, Stacks, TypeOK
<1>2. QED
  BY <1>1, HandlingInvariance, PTL

\* The loop of event_manager::handle comes to finished_handling only if no id
\* was handled since the last finishing_handling.
THEOREM FinishingAlwaysFollows == Spec => []FinishingFollowsIds
<1>1. IInv => FinishingFollowsIds
  <2> SUFFICES ASSUME IInv, NEW w \in Workers, NEW i \in DOMAIN stack[w],
                      stack[w][i].fn = "handle",
                      stack[w][i].at \in {"afterwards", "remove"}
               PROVE  ~stack[w][i].dirty
    BY DEF FinishingFollowsIds
  <2>1. Sound(stack[w]) /\ i \in 1..Len(stack[w])
    BY LenProperties DEF IInv, Stacks, Sound
  <2>2. QED
    BY <2>1 DEF Sound
<1>2. QED
  BY <1>1, HandlingInvariance, PTL

LEMMA InnermostFromNesting ==
  ASSUME IInv, Nesting, OneThread
  PROVE  CurrentIdIsInnermost
<1> SUFFICES ASSUME NEW e \in Events
             PROVE  LET HandledBy(w, i) == /\ i \in DOMAIN stack[w]
                                           /\ stack[w][i].fn = "handle_as"
                                           /\ stack[w][i].event = e
                    IN  \/ /\ current_id[e] = None
                           /\ \A w \in Workers, i \in 1..MaxDepth : ~HandledBy(w, i)
                        \/ \E w \in Workers, i \in 1..MaxDepth :
                               /\ HandledBy(w, i) /\ stack[w][i].as = current_id[e]
                               /\ \A v \in Workers, j \in 1..MaxDepth :
                                      HandledBy(v, j) => v = w /\ j <= i
  BY DEF CurrentIdIsInnermost
<1>1. PICK w : Workers = {w}
  BY DEF OneThread
<1> DEFINE s == stack[w]
<1>2. /\ Sound(s) /\ DOMAIN s = 1..Len(s) /\ Len(s) \in Nat /\ MaxDepth \in Nat
      /\ Len(s) <= MaxDepth
      /\ s # <<>> => 1 \in 1..Len(s)
  BY <1>1, LenProperties, EmptySeq, HandlingAssumption
     DEF HandlingAssumption, IInv, Stacks, Sound
<1>3. CASE s = <<>>
  BY <1>1, <1>3 DEF Nesting
<1>4. CASE s # <<>> /\ s[1].event # e
  <2>1. current_id[e] = None
    BY <1>1, <1>4 DEF Nesting
  <2>2. s[1].event \in Events
    BY <1>2, <1>4, SoundSeq, FrameKinds
  <2>3. \A i \in 1..Len(s) : s[i].event # e
    BY <1>1, <1>4, <2>2 DEF Nesting, NestedIds
  <2>4. QED
    BY <1>1, <1>2, <2>1, <2>3
<1>5. CASE s # <<>> /\ s[1].event = e
  <2>1. NestedIds(s, e, current_id[e])
    BY <1>1, <1>5 DEF Nesting
  <2>2. CASE current_id[e] = None /\ \A i \in 1..Len(s) : s[i].fn # "handle_as"
    BY <1>1, <1>2, <2>2
  <2>3. CASE \E i \in 1..Len(s) : /\ s[i].fn = "handle_as" /\ s[i].as = current_id[e]
                                  /\ \A j \in i + 1..Len(s) : s[j].fn # "handle_as"
    <3>1. PICK i \in 1..Len(s) : /\ s[i].fn = "handle_as" /\ s[i].as = current_id[e]
                                 /\ \A j \in i + 1..Len(s) : s[j].fn # "handle_as"
      BY <2>3
    <3>2. i \in 1..MaxDepth /\ s[i].event = e /\ i \in DOMAIN s
      <4>1. s[i].event = e
        BY <2>1, <3>1 DEF NestedIds
      <4>2. i \in 1..MaxDepth
        <5> DEFINE n == Len(s)
        <5>1. i \in 1..n /\ n \in Nat /\ n <= MaxDepth /\ MaxDepth \in Nat
          BY <1>2, <3>1
        <5> HIDE DEF n
        <5>2. QED
          BY <5>1
      <4>3. i \in DOMAIN s
        BY <1>2, <3>1
      <4>4. QED
        BY <4>1, <4>2, <4>3
    <3>3. ASSUME NEW j \in 1..MaxDepth, j \in DOMAIN s, s[j].fn = "handle_as"
          PROVE  j <= i
      <4>1. j \in 1..Len(s)
        BY <1>2, <3>3
      <4>2. QED
        BY <1>2, <3>1, <3>3, <4>1
    <3>4. QED
      BY <1>1, <3>1, <3>2, <3>3
  <2>4. QED
    BY <2>1, <2>2, <2>3 DEF NestedIds, IdAt
<1>6. QED
  BY <1>3, <1>4, <1>5

\* ~scoped_swap in event::handle_as restores the id that was current before the
\* call, however calls are nested and left: for one thread, a handler always
\* finds the id it was called for.
THEOREM CurrentIdRestored ==
  ASSUME OneThread
  PROVE  Spec => []CurrentIdIsInnermost
<1>1. Init => IInv /\ Nesting
  BY InitIInv
<1>2. IInv /\ Nesting /\ [Next]_vars => (IInv /\ Nesting)'
  BY NextStep
<1>3. IInv /\ Nesting => CurrentIdIsInnermost
  BY InnermostFromNesting
<1>4. QED
  BY <1>1, <1>2, <1>3, PTL DEF Spec

----------------------------------------------------------------------------
(* What handle() leaves queued                                             *)

AtEnd(f) == f.fn = "handle" /\ f.at \in {"afterwards", "remove"}

IsFinished(f) == f.fn = "handle_as" /\ f.as = "finished_handling"

AllLate(p, l, e) == \A k \in 1..Len(p[e]) : p[e][k] \in l[e]

\* A handle() at its end is on top or has called finished_handling, and its
\* event is queued only as ids that came late.
LateOnly(s, p, l) ==
    \A i \in 1..Len(s) : AtEnd(s[i]) =>
        /\ i < Len(s) => IsFinished(s[i + 1])
        /\ AllLate(p, l, s[i].event)

Distinct(q) == \A j, k \in 1..Len(q) : q[j] = q[k] => j = k

Leftover ==
    /\ \A e \in Events : Distinct(pending[e])
    /\ \A w \in Workers : LateOnly(stack[w], pending, late)

LEMMA PopLate ==
  ASSUME NEW s \in Seq(Frames), s # <<>>, NEW p, NEW l, LateOnly(s, p, l)
  PROVE  LateOnly(Front(s), p, l)
<1> DEFINE n == Len(s)
           t == Front(s)
<1>1. /\ n \in Nat \ {0} /\ Len(t) = n - 1
      /\ \A i \in 1..n - 1 : t[i] = s[i]
  BY FrontTop
<1> HIDE DEF n, t
<1>2. ASSUME NEW i \in 1..Len(t), AtEnd(t[i])
      PROVE  /\ i < Len(t) => IsFinished(t[i + 1])
             /\ AllLate(p, l, t[i].event)
  <2>1. i \in 1..n /\ i < n /\ t[i] = s[i] /\ (i < Len(t) => t[i + 1] = s[i + 1])
    BY <1>1
  <2>2. IsFinished(s[i + 1]) /\ AllLate(p, l, s[i].event)
    BY <1>2, <2>1 DEF LateOnly, n
  <2>3. QED
    BY <2>1, <2>2
<1>3. LateOnly(t, p, l)
  BY <1>2 DEF LateOnly
<1>4. QED
  BY <1>3 DEF t

LEMMA PushLate ==
  ASSUME NEW s \in Seq(Frames), NEW f \in Frames, NEW p, NEW l, LateOnly(s, p, l),
         s # <<>> /\ AtEnd(Last(s)) => IsFinished(f),
         AtEnd(f) => AllLate(p, l, f.event)
  PROVE  LateOnly(Append(s, f), p, l)
<1> DEFINE n == Len(s)
           t == Append(s, f)
<1>1. /\ n \in Nat /\ Len(t) = n + 1
      /\ \A i \in 1..n : t[i] = s[i]
      /\ t[n + 1] = f
  BY AppendTop
<1>2. n # 0 => s # <<>> /\ Last(s) = s[n]
  BY EmptySeq, FrontTop
<1> HIDE DEF n, t
<1>3. ASSUME NEW i \in 1..Len(t), AtEnd(t[i])
      PROVE  /\ i < Len(t) => IsFinished(t[i + 1])
             /\ AllLate(p, l, t[i].event)
  <2>1. CASE i = n + 1
    BY <1>1, <1>3, <2>1
  <2>2. CASE i = n
    <3>1. n \in 1..n /\ n # 0 /\ t[i] = s[n] /\ t[i + 1] = f
      BY <1>1, <2>2
    <3>2. IsFinished(f) /\ AllLate(p, l, s[n].event)
      BY <1>2, <1>3, <3>1 DEF LateOnly, n
    <3>3. QED
      BY <3>1, <3>2
  <2>3. CASE i \in 1..n - 1
    <3>1. i \in 1..n /\ i < n /\ i + 1 \in 1..n
      BY <1>1, <2>3
    <3>2. t[i] = s[i] /\ t[i + 1] = s[i + 1]
      BY <1>1, <3>1
    <3>3. QED
      BY <1>3, <3>1, <3>2 DEF LateOnly, n
  <2>4. QED
    BY <1>1, <2>1, <2>2, <2>3
<1>4. LateOnly(t, p, l)
  BY <1>3 DEF LateOnly
<1>5. QED
  BY <1>4 DEF t

\* Only finished_handling is called by a handle() at its end.
LEMMA NotAtEndBelow ==
  ASSUME NEW s \in Seq(Frames), s # <<>>, NEW p, NEW l, LateOnly(s, p, l),
         ~IsFinished(Last(s)), Front(s) # <<>>
  PROVE  ~AtEnd(Last(Front(s)))
<1> DEFINE n == Len(s)
           t == Front(s)
<1>1. /\ n \in Nat \ {0} /\ Len(t) = n - 1 /\ t \in Seq(Frames)
      /\ \A i \in 1..n - 1 : t[i] = s[i]
      /\ Last(s) = s[n]
  BY FrontTop
<1>2. Len(t) \in Nat \ {0} /\ Last(t) = t[Len(t)]
  BY <1>1, FrontTop
<1>3. n - 1 \in 1..n - 1 /\ n - 1 \in 1..n /\ n - 1 < n /\ (n - 1) + 1 = n
  BY <1>1, <1>2
<1>4. Last(t) = s[n - 1]
  BY <1>1, <1>2, <1>3
<1>5. ~AtEnd(s[n - 1])
  BY <1>1, <1>3 DEF LateOnly
<1>6. QED
  BY <1>4, <1>5

\* The calls stay, the ids change.
LEMMA ChangeLate ==
  ASSUME NEW s \in Seq(Frames), NEW p, NEW l, LateOnly(s, p, l), NEW q, NEW m,
         \A e \in Events : AllLate(p, l, e) => AllLate(q, m, e)
  PROVE  LateOnly(s, q, m)
<1>1. \A i \in 1..Len(s) : s[i].event \in Events
  BY ElementOfSeq, FrameKinds
<1>2. QED
  BY <1>1 DEF LateOnly

LEMMA OneLeftover ==
  ASSUME IInv, OneThread, NEW w \in Workers, NEW t, stack' = [stack EXCEPT ![w] = t],
         LateOnly(t, pending', late'), \A e \in Events : Distinct(pending'[e])
  PROVE  Leftover'
<1>1. Workers = {w} /\ stack'[w] = t
  BY DEF OneThread, IInv, Stacks
<1>2. QED
  BY <1>1 DEF Leftover

\* A handle() on top goes on at another place.
LEMMA GoneToLate ==
  ASSUME IInv, Leftover, NEW w \in Workers, ~Idle(w), Top(w).fn = "handle",
         NEW at \in {"begin", "ids", "check", "afterwards", "remove"},
         NEW dirty \in BOOLEAN,
         at \in {"afterwards", "remove"} => AllLate(pending, late, Top(w).event)
  PROVE  /\ GoneTo(w, at, dirty) \in Seq(Frames)
         /\ GoneTo(w, at, dirty) # <<>>
         /\ LateOnly(GoneTo(w, at, dirty), pending, late)
         /\ Last(GoneTo(w, at, dirty)).at = at
<1> DEFINE s == stack[w]
           f == [Top(w) EXCEPT !.at = at, !.dirty = dirty]
<1>1. /\ s \in Seq(Frames) /\ s # <<>> /\ Top(w) = Last(s) /\ Top(w) \in HandleFrames
  BY TopProperties DEF Sound
<1>2. /\ f \in Frames /\ f.fn = "handle" /\ f.event = Top(w).event /\ f.at = at
  <2>1. f \in HandleFrames /\ f.fn = "handle" /\ f.event = Top(w).event /\ f.at = at
    BY <1>1 DEF HandleFrames
  <2>2. QED
    BY <2>1, FrameKinds
<1> HIDE DEF f
<1>3. LateOnly(s, pending, late) /\ ~IsFinished(Last(s))
  BY <1>1 DEF Leftover, IsFinished
<1>4. Front(s) \in Seq(Frames) /\ LateOnly(Front(s), pending, late)
  BY <1>1, <1>3, FrontTop, PopLate
<1>5. Front(s) # <<>> => ~AtEnd(Last(Front(s)))
  BY <1>1, <1>3, NotAtEndBelow
<1>6. AtEnd(f) => AllLate(pending, late, f.event)
  BY <1>2 DEF AtEnd
<1>7. GoneTo(w, at, dirty) = Append(Front(s), f)
  BY DEF GoneTo, f
<1>8. LateOnly(Append(Front(s), f), pending, late)
  BY <1>2, <1>4, <1>5, <1>6, PushLate
<1>9. QED
  BY <1>2, <1>4, <1>7, <1>8, AppendTop

\* A handle() on top goes on and calls handle_as().
LEMMA CallLate ==
  ASSUME IInv, Leftover, NEW w \in Workers, ~Idle(w), Top(w).fn = "handle",
         NEW at \in {"begin", "ids", "check", "afterwards", "remove"},
         NEW dirty \in BOOLEAN, NEW id \in AllIds,
         at \in {"afterwards", "remove"} =>
             id = "finished_handling" /\ AllLate(pending, late, Top(w).event),
         CallHandleAs(w, GoneTo(w, at, dirty), Top(w).event, id)
  PROVE  \E t \in Seq(Frames) :
             stack' = [stack EXCEPT ![w] = t] /\ LateOnly(t, pending, late)
<1> DEFINE e == Top(w).event
           r == GoneTo(w, at, dirty)
           f == [fn |-> "handle_as", event |-> e, as |-> id, original |-> current_id[e]]
<1>1. /\ r \in Seq(Frames) /\ r # <<>> /\ LateOnly(r, pending, late)
      /\ Last(r).at = at
  BY GoneToLate
<1>2. e \in Events /\ current_id[e] \in AllIds \cup {None}
  BY TopProperties
<1>3. f \in Frames /\ f.fn = "handle_as" /\ f.as = id
  BY <1>2, FrameKinds DEF HandleAsFrames
<1>4. stack' = [stack EXCEPT ![w] = Append(r, f)]
  BY DEF CallHandleAs
<1> HIDE DEF f, r
<1>5. AtEnd(Last(r)) => IsFinished(f)
  BY <1>1, <1>3 DEF AtEnd, IsFinished
<1>6. ~AtEnd(f)
  BY <1>3 DEF AtEnd
<1>7. LateOnly(Append(r, f), pending, late)
  BY <1>1, <1>3, <1>5, <1>6, PushLate
<1>8. QED
  BY <1>1, <1>3, <1>4, <1>7, AppendTop

LEMMA InitLeftover == Init => Leftover
<1> SUFFICES ASSUME Init PROVE Leftover
  OBVIOUS
<1>1. \A e \in Events : Distinct(pending[e])
  <2>1. Len(<<OriginalId>>) = 1
    OBVIOUS
  <2>2. QED
    BY <2>1 DEF Init, Distinct
<1>2. \A w \in Workers : LateOnly(stack[w], pending, late)
  <2>1. Len(<<>>) = 0
    BY EmptySeq
  <2>2. QED
    BY <2>1 DEF Init, LateOnly
<1>3. QED
  BY <1>1, <1>2 DEF Leftover

\* The steps of handle() that leave the ids alone.
LEMMA HandleStepLate ==
  ASSUME IInv, Leftover, OneThread, NEW w \in Workers,
         \/ BeginHandling(w) \/ FinishingHandling(w) \/ FinishedHandling(w)
         \/ QueueAfterwards(w) \/ ReturnFromHandle(w)
  PROVE  Leftover'
<1>1. ~Idle(w) /\ Top(w).fn = "handle" /\ UNCHANGED <<pending, late>>
  BY DEF BeginHandling, FinishingHandling, FinishedHandling, QueueAfterwards,
         ReturnFromHandle, Returning, InHandle
<1>2. SUFFICES \E t : stack' = [stack EXCEPT ![w] = t] /\ LateOnly(t, pending, late)
  BY <1>1, OneLeftover DEF Leftover
<1>3. /\ stack[w] \in Seq(Frames) /\ stack[w] # <<>> /\ Top(w) = Last(stack[w])
      /\ Top(w) \in HandleFrames /\ Top(w).event \in Events
      /\ LateOnly(stack[w], pending, late)
  BY <1>1, TopProperties DEF Sound, Leftover
<1>4. Top(w).dirty \in BOOLEAN /\ HandlingIds \subseteq AllIds
  BY <1>3 DEF HandleFrames, AllIds
<1>5. CASE BeginHandling(w)
  <2>1. CallHandleAs(w, GoneTo(w, "ids", FALSE), Top(w).event, "begin_handling")
    BY <1>5 DEF BeginHandling
  <2>2. "begin_handling" \in AllIds
    BY <1>4 DEF HandlingIds
  <2>3. QED
    BY <1>1, <2>1, <2>2, CallLate
<1>6. CASE FinishingHandling(w)
  <2>1. CallHandleAs(w, GoneTo(w, "check", FALSE), Top(w).event, "finishing_handling")
    BY <1>6 DEF FinishingHandling
  <2>2. "finishing_handling" \in AllIds
    BY <1>4 DEF HandlingIds
  <2>3. QED
    BY <1>1, <2>1, <2>2, CallLate
<1>7. CASE FinishedHandling(w)
  <2>1. /\ CallHandleAs(w, GoneTo(w, "afterwards", Top(w).dirty), Top(w).event,
                        "finished_handling")
        /\ pending[Top(w).event] = <<>>
    BY <1>7 DEF FinishedHandling
  <2>2. "finished_handling" \in AllIds
    BY <1>4 DEF HandlingIds
  <2>3. AllLate(pending, late, Top(w).event)
    BY <2>1, EmptySeq DEF AllLate
  <2>4. QED
    BY <1>1, <1>4, <2>1, <2>2, <2>3, CallLate
<1>8. CASE QueueAfterwards(w)
  <2>1. AllLate(pending, late, Top(w).event)
    <3>1. AtEnd(Top(w))
      BY <1>1, <1>8 DEF QueueAfterwards, InHandle, AtEnd
    <3>2. Len(stack[w]) \in 1..Len(stack[w]) /\ Top(w) = stack[w][Len(stack[w])]
      BY <1>3, FrontTop
    <3>3. QED
      BY <1>3, <3>1, <3>2 DEF LateOnly
  <2>2. LateOnly(GoneTo(w, "remove", Top(w).dirty), pending, late)
    BY <1>1, <1>4, <2>1, GoneToLate
  <2>3. QED
    BY <1>8, <2>2 DEF QueueAfterwards
<1>9. CASE ReturnFromHandle(w)
  <2>1. stack' = [stack EXCEPT ![w] = Front(stack[w])]
    BY <1>9 DEF ReturnFromHandle, IInv, Stacks
  <2>2. LateOnly(Front(stack[w]), pending, late)
    BY <1>3, PopLate
  <2>3. QED
    BY <2>1, <2>2
<1>10. QED
  BY <1>5, <1>6, <1>7, <1>8, <1>9

\* The next id is taken from the ids, and from the late ones.
LEMMA HandleNextIdLate ==
  ASSUME IInv, Leftover, OneThread, NEW w \in Workers, HandleNextId(w)
  PROVE  Leftover'
<1> DEFINE e == Top(w).event
           q == pending[e]
<1>1. ~Idle(w) /\ Top(w).fn = "handle"
  BY DEF HandleNextId, InHandle
<1>2. /\ q # <<>>
      /\ pending' = [pending EXCEPT ![e] = Tail(@)]
      /\ late' = [late EXCEPT ![e] = @ \ {Head(q)}]
      /\ CallHandleAs(w, GoneTo(w, "ids", TRUE), e, Head(q))
  BY DEF HandleNextId
<1>3. e \in Events /\ pending \in [Events -> Seq(Ids)] /\ late \in [Events -> SUBSET Ids]
  BY <1>1, TopProperties DEF IInv, Data
<1>4. /\ q \in Seq(Ids) /\ Head(q) \in AllIds
      /\ Tail(q) \in Seq(Ids) /\ Len(q) \in Nat \ {0} /\ Head(q) = q[1]
      /\ Len(Tail(q)) = Len(q) - 1
      /\ \A i \in 1..Len(Tail(q)) : Tail(q)[i] = q[i + 1]
  <2>1. q \in Seq(Ids) /\ Len(q) \in Nat
    BY <1>3, LenProperties
  <2>2. Len(q) # 0
    BY <1>2, <2>1, EmptySeq
  <2>3. /\ Head(q) \in Ids /\ Tail(q) \in Seq(Ids) /\ Len(Tail(q)) = Len(q) - 1
        /\ \A i \in 1..Len(Tail(q)) : Tail(q)[i] = q[i + 1]
    BY <1>2, <2>1, HeadTailProperties
  <2>4. Head(q) = q[1]
    BY <2>1, <2>2
  <2>5. QED
    BY <2>1, <2>2, <2>3, <2>4 DEF AllIds
<1>5. PICK t \in Seq(Frames) :
          stack' = [stack EXCEPT ![w] = t] /\ LateOnly(t, pending, late)
  BY <1>1, <1>2, <1>4, CallLate
<1>6. /\ \A f \in Events : pending'[f] = IF f = e THEN Tail(q) ELSE pending[f]
      /\ \A f \in Events : late'[f] = IF f = e THEN late[e] \ {Head(q)} ELSE late[f]
  BY <1>2, <1>3
<1>7. Distinct(q) /\ \A f \in Events : Distinct(pending[f])
  BY <1>3 DEF Leftover
<1> HIDE DEF q, e
<1>8. \A i \in 1..Len(Tail(q)) : i + 1 \in 1..Len(q) /\ 1 \in 1..Len(q) /\ i + 1 # 1
  BY <1>4
<1>9. Distinct(Tail(q))
  BY <1>4, <1>7, <1>8 DEF Distinct
<1>10. \A f \in Events : Distinct(pending'[f])
  BY <1>6, <1>7, <1>9
<1>11. ASSUME NEW f \in Events, AllLate(pending, late, f)
       PROVE  AllLate(pending', late', f)
  <2>1. CASE f = e
    <3>1. ASSUME NEW k \in 1..Len(Tail(q))
          PROVE  Tail(q)[k] \in late[e] \ {Head(q)}
      <4>1. q[k + 1] \in late[e]
        BY <1>8, <1>11, <2>1 DEF AllLate, q
      <4>2. q[k + 1] # q[1]
        BY <1>7, <1>8 DEF Distinct
      <4>3. QED
        BY <1>4, <4>1, <4>2
    <3>2. QED
      BY <1>6, <2>1, <3>1 DEF AllLate
  <2>2. CASE f # e
    BY <1>6, <1>11, <2>2 DEF AllLate
  <2>3. QED
    BY <2>1, <2>2
<1>12. LateOnly(t, pending', late')
  BY <1>5, <1>11, ChangeLate
<1>13. QED
  BY <1>5, <1>10, <1>12, OneLeftover

\* A handler in which no handle() of the thread is at its end, or that
\* finished_handling has called.
LEMMA FinishedBelow ==
  ASSUME NEW s \in Seq(Frames), s # <<>>, NEW p, NEW l, LateOnly(s, p, l),
         Last(s).fn = "handle_as",
         ~\E call \in ToSet(s) : call.fn = "handle_as" /\ call.as = "finished_handling"
  PROVE  \A i \in 1..Len(s) : ~AtEnd(s[i])
<1> SUFFICES ASSUME NEW i \in 1..Len(s), AtEnd(s[i]) PROVE FALSE
  OBVIOUS
<1>1. Len(s) \in Nat \ {0} /\ Last(s) = s[Len(s)] /\ DOMAIN s = 1..Len(s)
  BY FrontTop, LenProperties
<1>2. i # Len(s)
  BY <1>1 DEF AtEnd
<1>3. i < Len(s) /\ i + 1 \in 1..Len(s)
  <2> DEFINE n == Len(s)
  <2>1. n \in Nat /\ i \in 1..n /\ i # n
    BY <1>1, <1>2
  <2> HIDE DEF n
  <2>2. i < n /\ i + 1 \in 1..n
    BY <2>1
  <2>3. QED
    BY <2>2 DEF n
<1>4. IsFinished(s[i + 1])
  BY <1>3 DEF LateOnly
<1>5. s[i + 1] \in ToSet(s)
  BY <1>1, <1>3 DEF ToSet
<1>6. QED
  BY <1>4, <1>5 DEF IsFinished

LEMMA ContainsIt ==
  ASSUME NEW q \in Seq(Ids), NEW id
  PROVE  Contains(q, id) <=> \E i \in 1..Len(q) : q[i] = id
BY LenProperties DEF Contains

LEMMA QueueAsLate ==
  ASSUME IInv, Leftover, OneThread, NEW w \in Workers, NEW id \in Ids, QueueAs(w, id)
  PROVE  Leftover'
<1> DEFINE e == Top(w).event
           q == pending[e]
           s == stack[w]
           finished == \E call \in ToSet(s) :
                           call.fn = "handle_as" /\ call.as = "finished_handling"
<1>1. /\ ~Idle(w) /\ Top(w).fn = "handle_as"
      /\ ~Contains(q, id)
      /\ \/ pending' = [pending EXCEPT ![e] = <<id>> \o @]
         \/ pending' = [pending EXCEPT ![e] = Append(@, id)]
      /\ late' = [late EXCEPT ![e] = IF finished THEN @ \cup {id} ELSE @]
      /\ UNCHANGED stack
  BY DEF QueueAs, Act, InHandler
<1>2. /\ s \in Seq(Frames) /\ s # <<>> /\ Top(w) = Last(s) /\ e \in Events
      /\ pending \in [Events -> Seq(Ids)] /\ late \in [Events -> SUBSET Ids]
      /\ stack \in [Workers -> Seq(Frames)]
  BY <1>1, TopProperties DEF IInv, Data, Stacks, Sound
<1>3. /\ LateOnly(s, pending, late)
      /\ \A f \in Events : Distinct(pending[f])
  BY DEF Leftover
<1>4. q \in Seq(Ids) /\ Len(q) \in Nat /\ Distinct(q) /\ \A i \in 1..Len(q) : q[i] # id
  BY <1>1, <1>2, <1>3, LenProperties, ContainsIt
<1>5. PICK r : /\ pending' = [pending EXCEPT ![e] = r]
               /\ r = <<id>> \o q \/ r = Append(q, id)
  BY <1>1
<1>6. /\ Len(r) = Len(q) + 1
      /\ \/ r[1] = id /\ \A i \in 2..Len(r) : i - 1 \in 1..Len(q) /\ r[i] = q[i - 1]
         \/ r[Len(r)] = id /\ \A i \in 1..Len(q) : r[i] = q[i]
  <2>1. CASE r = <<id>> \o q
    <3>1. <<id>> \in Seq(Ids) /\ Len(<<id>>) = 1 /\ <<id>>[1] = id
      OBVIOUS
    <3>2. /\ Len(r) = 1 + Len(q)
          /\ \A i \in 1..(1 + Len(q)) : r[i] = IF i <= 1 THEN <<id>>[i] ELSE q[i - 1]
      BY <1>4, <2>1, <3>1, ConcatProperties
    <3>3. \A i \in 2..Len(r) : i \in 1..(1 + Len(q)) /\ ~(i <= 1) /\ i - 1 \in 1..Len(q)
      BY <1>4, <3>2
    <3>4. 1 \in 1..(1 + Len(q)) /\ 1 + Len(q) = Len(q) + 1
      BY <1>4
    <3>5. r[1] = id
      BY <3>1, <3>2, <3>4
    <3>6. \A i \in 2..Len(r) : i - 1 \in 1..Len(q) /\ r[i] = q[i - 1]
      BY <3>2, <3>3
    <3>7. QED
      BY <3>2, <3>4, <3>5, <3>6
  <2>2. CASE r = Append(q, id)
    BY <1>4, <2>2, AppendProperties
  <2>3. QED
    BY <1>5, <2>1, <2>2
<1>7. /\ \A f \in Events : pending'[f] = IF f = e THEN r ELSE pending[f]
      /\ \A f \in Events : late'[f] = IF f = e /\ finished THEN late[e] \cup {id}
                                      ELSE late[f]
  BY <1>1, <1>2, <1>5
<1> HIDE DEF e, q, finished
<1>8. Distinct(r) /\ \A j \in 1..Len(r) : r[j] = id \/ \E i \in 1..Len(q) : r[j] = q[i]
  <2>1. CASE r[1] = id /\ \A i \in 2..Len(r) : i - 1 \in 1..Len(q) /\ r[i] = q[i - 1]
    <3>1. \A j \in 1..Len(r) : j = 1 \/ j \in 2..Len(r)
      BY <1>4, <1>6
    <3>2. \A j, k \in 2..Len(r) : j - 1 = k - 1 => j = k
      BY <1>4, <1>6
    <3>3. Distinct(r)
      BY <1>4, <2>1, <3>1, <3>2 DEF Distinct
    <3>4. QED
      BY <2>1, <3>1, <3>3
  <2>2. CASE r[Len(r)] = id /\ \A i \in 1..Len(q) : r[i] = q[i]
    <3>1. \A j \in 1..Len(r) : j = Len(r) \/ j \in 1..Len(q)
      BY <1>4, <1>6
    <3>2. Distinct(r)
      BY <1>4, <2>2, <3>1 DEF Distinct
    <3>3. QED
      BY <2>2, <3>1, <3>2
  <2>3. QED
    BY <1>6, <2>1, <2>2
<1>9. \A f \in Events : Distinct(pending'[f])
  BY <1>3, <1>7, <1>8
<1>10. LateOnly(s, pending', late')
  <2>1. CASE finished
    <3>1. ASSUME NEW f \in Events, AllLate(pending, late, f)
          PROVE  AllLate(pending', late', f)
      <4>1. CASE f = e
        <5>1. \A i \in 1..Len(q) : q[i] \in late[e]
          BY <3>1, <4>1 DEF AllLate, q
        <5>2. \A j \in 1..Len(r) : r[j] \in late[e] \cup {id}
          BY <1>8, <5>1
        <5>3. QED
          BY <1>7, <2>1, <4>1, <5>2 DEF AllLate
      <4>2. CASE f # e
        BY <1>7, <3>1, <4>2 DEF AllLate
      <4>3. QED
        BY <4>1, <4>2
    <3>2. QED
      BY <1>2, <1>3, <3>1, ChangeLate
  <2>2. CASE ~finished
    <3>1. \A i \in 1..Len(s) : ~AtEnd(s[i])
      BY <1>1, <1>2, <1>3, <2>2, FinishedBelow DEF finished
    <3>2. QED
      BY <3>1 DEF LateOnly
  <2>3. QED
    BY <2>1, <2>2
<1>11. stack' = [stack EXCEPT ![w] = s]
  BY <1>1, <1>2
<1>12. QED
  BY <1>9, <1>10, <1>11, OneLeftover

\* Handlers that call handle_as() or handle() again.
LEMMA NestedLate ==
  ASSUME IInv, Leftover, OneThread, NEW w \in Workers,
         NestedHandle(w) \/ \E id \in Ids : NestedHandleAs(w, id)
  PROVE  Leftover'
<1> DEFINE e == Top(w).event
           s == stack[w]
<1>1. /\ ~Idle(w) /\ Top(w).fn = "handle_as" /\ UNCHANGED <<pending, late>>
  BY DEF NestedHandle, NestedHandleAs, Act, InHandler
<1>2. /\ s \in Seq(Frames) /\ s # <<>> /\ Top(w) = Last(s) /\ e \in Events
      /\ current_id[e] \in AllIds \cup {None} /\ LateOnly(s, pending, late)
      /\ ~AtEnd(Last(s))
  BY <1>1, TopProperties DEF Sound, Leftover, AtEnd
<1>3. PICK f \in Frames : stack' = [stack EXCEPT ![w] = Append(s, f)] /\ ~AtEnd(f)
  <2>1. CASE NestedHandle(w)
    <3>1. stack' = [stack EXCEPT ![w] = Append(s, HandleCall(e))]
      BY <2>1 DEF NestedHandle, IInv, Stacks
    <3>2. HandleCall(e) \in Frames /\ ~AtEnd(HandleCall(e))
      BY <1>2, FrameKinds DEF HandleFrames, HandleCall, AtEnd
    <3>3. QED
      BY <3>1, <3>2
  <2>2. CASE \E id \in Ids : NestedHandleAs(w, id)
    <3>1. PICK id \in Ids : NestedHandleAs(w, id)
      BY <2>2
    <3> DEFINE f == [fn |-> "handle_as", event |-> e, as |-> id,
                     original |-> current_id[e]]
    <3>2. stack' = [stack EXCEPT ![w] = Append(s, f)]
      BY <3>1 DEF NestedHandleAs, CallHandleAs
    <3>3. f \in Frames /\ ~AtEnd(f)
      BY <1>2, FrameKinds DEF HandleAsFrames, AllIds, AtEnd
    <3>4. QED
      BY <3>2, <3>3
  <2>3. QED
    BY <2>1, <2>2
<1>4. LateOnly(Append(s, f), pending, late)
  BY <1>2, <1>3, PushLate
<1>5. QED
  BY <1>1, <1>3, <1>4, OneLeftover DEF Leftover

\* handle_as() ends, and by an exception the handle() that called it, too.
LEMMA ReturnLate ==
  ASSUME IInv, Leftover, OneThread, NEW w \in Workers, Return(w)
  PROVE  Leftover'
<1> DEFINE s == stack[w]
           below == Front(s)
<1>1. /\ ~Idle(w) /\ Top(w).fn = "handle_as" /\ UNCHANGED <<pending, late>>
  BY DEF Return, ReturnFromHandleAs, Throw, InHandler
<1>2. /\ s \in Seq(Frames) /\ s # <<>> /\ Sound(s) /\ Top(w) = Last(s)
      /\ LateOnly(s, pending, late)
  BY <1>1, TopProperties DEF Sound, Leftover
<1>3. below \in Seq(Frames) /\ LateOnly(below, pending, late)
  BY <1>2, FrontTop, PopLate
<1>4. below # <<>>
  <2>1. s[1].fn = "handle" /\ Last(s) = s[Len(s)] /\ Len(below) = Len(s) - 1
        /\ Len(s) \in Nat \ {0}
    BY <1>2, FrontTop DEF Sound
  <2>2. Len(s) # 1
    BY <1>1, <1>2, <2>1
  <2>3. Len(below) # 0
    BY <2>1, <2>2
  <2>4. Len(<<>>) = 0
    BY EmptySeq
  <2>5. QED
    BY <2>3, <2>4
<1>5. \E t : stack' = [stack EXCEPT ![w] = t] /\ LateOnly(t, pending, late)
  <2>1. CASE ReturnFromHandleAs(w)
    <3>1. stack' = [stack EXCEPT ![w] = below]
      BY <2>1 DEF ReturnFromHandleAs, IInv, Stacks
    <3>2. QED
      BY <1>3, <3>1
  <2>2. CASE Throw(w)
    <3>1. stack' = [stack EXCEPT ![w] = Unwound(w)]
      BY <2>2 DEF Throw
    <3>2. Unwound(w) = IF Last(below).fn = "handle" THEN Front(below) ELSE below
      BY DEF Unwound
    <3>3. LateOnly(Front(below), pending, late)
      BY <1>3, <1>4, PopLate
    <3>4. LateOnly(Unwound(w), pending, late)
      BY <1>3, <3>2, <3>3
    <3>5. QED
      BY <3>1, <3>4
  <2>3. QED
    BY <2>1, <2>2 DEF Return
<1>6. QED
  BY <1>1, <1>5, OneLeftover DEF Leftover

LEMMA TakeLate ==
  ASSUME IInv, Leftover, OneThread, NEW w \in Workers, TakeEvent(w)
  PROVE  Leftover'
<1> DEFINE f == HandleCall(Head(queue))
<1>1. /\ stack' = [stack EXCEPT ![w] = <<f>>]
      /\ UNCHANGED <<pending, late>>
  BY DEF TakeEvent
<1>2. ~AtEnd(f)
  BY DEF HandleCall, AtEnd
<1> HIDE DEF f
<1>3. Len(<<f>>) = 1 /\ <<f>>[1] = f
  OBVIOUS
<1>4. LateOnly(<<f>>, pending, late)
  BY <1>2, <1>3 DEF LateOnly
<1>5. QED
  BY <1>1, <1>4, OneLeftover DEF Leftover

LEMMA NextLeftover ==
  ASSUME IInv, Leftover, OneThread, [Next]_vars
  PROVE  Leftover'
<1>1. ASSUME UNCHANGED <<stack, pending, late>>
      PROVE  Leftover'
  BY <1>1 DEF Leftover
<1>2. CASE UNCHANGED vars
  BY <1>1, <1>2 DEF vars
<1>3. CASE \E f \in Events : Queue(f)
  BY <1>1, <1>3 DEF Queue
<1>4. CASE \E w \in Workers : TakeEvent(w)
  BY <1>4, TakeLate
<1>5. CASE \E w \in Workers : HandleStep(w)
  BY <1>5, HandleStepLate, HandleNextIdLate DEF HandleStep
<1>6. CASE \E w \in Workers : HandlerStep(w)
  <2>1. PICK w \in Workers : HandlerStep(w)
    BY <1>6
  <2>2. CASE \E f \in Events : Afterwards(w, f)
    BY <1>1, <2>2 DEF Afterwards
  <2>3. QED
    BY <2>1, <2>2, QueueAsLate, NestedLate DEF HandlerStep
<1>7. CASE \E w \in Workers : Return(w)
  BY <1>7, ReturnLate
<1>8. QED
  BY <1>2, <1>3, <1>4, <1>5, <1>6, <1>7 DEF Next

\* When event_manager::handle returns, the event is queued as no ids but those
\* that were queued while finished_handling was handled
\* (apis/event_manager.hpp:184), for one thread, whatever handlers queue, call
\* and throw at any depth.
THEOREM LateIdsStay ==
  ASSUME OneThread
  PROVE  Spec => OnlyLateIdsStay
<1>1. Init => IInv /\ Leftover
  BY InitIInv, InitLeftover
<1>2. IInv /\ Leftover /\ [Next]_vars => (IInv /\ Leftover)'
  BY NextStep, NextLeftover
<1>3. ASSUME IInv, Leftover
      PROVE  \A w \in Workers :
                 Returning(w) /\ stack'[w] = Front(stack[w]) =>
                     ToSet(pending[Top(w).event]) \subseteq late[Top(w).event]
  <2> SUFFICES ASSUME NEW w \in Workers, Returning(w)
               PROVE  ToSet(pending[Top(w).event]) \subseteq late[Top(w).event]
    OBVIOUS
  <2>1. ~Idle(w) /\ AtEnd(Top(w))
    BY DEF Returning, InHandle, AtEnd
  <2>2. /\ stack[w] \in Seq(Frames) /\ stack[w] # <<>> /\ Top(w) = Last(stack[w])
        /\ Top(w).event \in Events
    BY <1>3, <2>1, TopProperties DEF Sound
  <2>3. Len(stack[w]) \in 1..Len(stack[w]) /\ Top(w) = stack[w][Len(stack[w])]
    BY <2>2, FrontTop
  <2>4. AllLate(pending, late, Top(w).event)
    BY <1>3, <2>1, <2>3 DEF Leftover, LateOnly
  <2>5. pending[Top(w).event] \in Seq(Ids)
    BY <1>3, <2>2 DEF IInv, Data
  <2>6. QED
    BY <2>4, <2>5, LenProperties DEF AllLate, ToSet
<1>4. QED
  BY <1>1, <1>2, <1>3, PTL DEF Spec, OnlyLateIdsStay

----------------------------------------------------------------------------
(* What was queued is taken once or waits                                  *)

\* How often e is in a queue or batch.
N(e, s) == Cardinality(PlacesOf(e, s))

\* The batches of the events in K that e is registered in.
Batches(a, e, K) == UNION {{f} \X PlacesOf(e, a[f]) : f \in K}

LEMMA PlacesFinite ==
  ASSUME NEW s \in Seq(Events), NEW e
  PROVE  IsFiniteSet(PlacesOf(e, s)) /\ N(e, s) \in Nat /\ PlacesOf(e, s) \subseteq 1..Len(s)
<1>1. Len(s) \in Nat /\ DOMAIN s = 1..Len(s)
  BY LenProperties
<1>2. PlacesOf(e, s) \in SUBSET (1..Len(s))
  BY <1>1 DEF PlacesOf
<1>3. IsFiniteSet(1..Len(s))
  BY <1>1, FS_Interval
<1>4. IsFiniteSet(PlacesOf(e, s))
  BY <1>2, <1>3, FS_Subset
<1>5. QED
  BY <1>2, <1>4, FS_CardinalityType DEF N

LEMMA CountNone ==
  ASSUME NEW e
  PROVE  PlacesOf(e, <<>>) = {} /\ N(e, <<>>) = 0
<1>1. PlacesOf(e, <<>>) = {}
  BY DEF PlacesOf
<1>2. QED
  BY <1>1, FS_EmptySet DEF N

LEMMA PlacesAppend ==
  ASSUME NEW s \in Seq(Events), NEW x \in Events, NEW e
  PROVE  /\ PlacesOf(e, Append(s, x)) = IF x = e THEN PlacesOf(e, s) \cup {Len(s) + 1}
                                        ELSE PlacesOf(e, s)
         /\ Len(s) + 1 \notin PlacesOf(e, s)
<1>1. /\ DOMAIN s = 1..Len(s) /\ Len(s) \in Nat
      /\ DOMAIN Append(s, x) = 1..(Len(s) + 1)
      /\ \A i \in 1..Len(s) : Append(s, x)[i] = s[i]
      /\ Append(s, x)[Len(s) + 1] = x
  BY AppendProperties, LenProperties
<1>2. 1..(Len(s) + 1) = 1..Len(s) \cup {Len(s) + 1} /\ Len(s) + 1 \notin 1..Len(s)
  BY <1>1
<1> DEFINE n == Len(s)
           t == Append(s, x)
<1> HIDE DEF n, t
<1>3. QED
  BY <1>1, <1>2 DEF PlacesOf, n, t

LEMMA CountAppend ==
  ASSUME NEW s \in Seq(Events), NEW x \in Events, NEW e
  PROVE  N(e, Append(s, x)) = IF x = e THEN N(e, s) + 1 ELSE N(e, s)
BY PlacesAppend, PlacesFinite, FS_AddElement DEF N

LEMMA CountConcat ==
  ASSUME NEW s \in Seq(Events), NEW t \in Seq(Events), NEW e
  PROVE  N(e, s \o t) = N(e, s) + N(e, t)
<1> DEFINE l == Len(s)
           m == Len(t)
           u == s \o t
           S == PlacesOf(e, s)
           T == PlacesOf(e, t)
           U == {l + i : i \in T}
<1>1. l \in Nat /\ m \in Nat /\ DOMAIN s = 1..l /\ DOMAIN t = 1..m
  BY LenProperties
<1>2. /\ DOMAIN u = 1..(l + m)
      /\ \A i \in 1..(l + m) : u[i] = IF i <= l THEN s[i] ELSE t[i - l]
  <2>1. u \in Seq(Events) /\ Len(u) = l + m
        /\ \A i \in 1..(l + m) : u[i] = IF i <= l THEN s[i] ELSE t[i - l]
    BY ConcatProperties
  <2>2. QED
    BY <2>1, LenProperties
<1>3. /\ S = {i \in 1..l : s[i] = e} /\ T = {i \in 1..m : t[i] = e}
      /\ PlacesOf(e, u) = {i \in 1..(l + m) : u[i] = e}
  BY <1>1, <1>2 DEF PlacesOf
<1>4. IsFiniteSet(S) /\ IsFiniteSet(T) /\ N(e, s) \in Nat /\ N(e, t) \in Nat
  BY PlacesFinite
<1> HIDE DEF l, m, u, S, T
<1>5. PlacesOf(e, u) = S \cup U
  <2>1. ASSUME NEW i \in PlacesOf(e, u)
        PROVE  i \in S \cup U
    <3>1. i \in 1..(l + m) /\ u[i] = e
      BY <1>3
    <3>2. CASE i <= l
      <4>1. i \in 1..l /\ s[i] = e
        BY <1>1, <1>2, <3>1, <3>2
      <4>2. QED
        BY <1>3, <4>1
    <3>3. CASE ~(i <= l)
      <4>1. i - l \in 1..m /\ t[i - l] = e /\ i = l + (i - l)
        BY <1>1, <1>2, <3>1, <3>3
      <4>2. i - l \in T
        BY <1>3, <4>1
      <4>3. QED
        BY <4>1, <4>2
    <3>4. QED
      BY <3>2, <3>3
  <2>2. ASSUME NEW i \in S
        PROVE  i \in PlacesOf(e, u)
    BY <1>1, <1>2, <1>3
  <2>3. ASSUME NEW i \in T
        PROVE  l + i \in PlacesOf(e, u)
    <3>1. l + i \in 1..(l + m) /\ ~(l + i <= l) /\ (l + i) - l = i /\ t[i] = e
      BY <1>1, <1>3
    <3>2. QED
      BY <1>2, <1>3, <3>1
  <2>4. QED
    BY <2>1, <2>2, <2>3
<1>6. S \cap U = {}
  BY <1>1, <1>3
<1>7. IsFiniteSet(U) /\ Cardinality(U) = Cardinality(T)
  <2> DEFINE F == [i \in T |-> l + i]
  <2>1. F \in [T -> U] /\ \A y \in U : \E x \in T : F[x] = y
    OBVIOUS
  <2>2. ASSUME NEW i \in T, NEW j \in T, F[i] = F[j]
        PROVE  i = j
    BY <1>1, <1>3, <2>2
  <2> HIDE DEF F
  <2>3. F \in Bijection(T, U)
    BY <2>1, <2>2 DEF Bijection, Injection, Surjection, IsInjective
  <2>4. ExistsBijection(T, U)
    BY <2>3 DEF ExistsBijection
  <2>5. QED
    BY <1>4, <2>4, FS_Bijection
<1>8. Cardinality(S \cup U) = Cardinality(S) + Cardinality(U)
  <2>1. /\ Cardinality(S \cup U) = Cardinality(S) + Cardinality(U) - Cardinality(S \cap U)
        /\ Cardinality(S) \in Nat /\ Cardinality(U) \in Nat
    BY <1>4, <1>7, FS_Union, FS_CardinalityType
  <2>2. Cardinality(S \cap U) = 0
    BY <1>6, FS_EmptySet
  <2>3. QED
    BY <2>1, <2>2
<1>9. QED
  BY <1>5, <1>7, <1>8 DEF N, S, T, u

LEMMA CountHead ==
  ASSUME NEW s \in Seq(Events), s # <<>>, NEW e
  PROVE  N(e, s) = IF Head(s) = e THEN N(e, Tail(s)) + 1 ELSE N(e, Tail(s))
<1>1. Head(s) \in Events /\ Tail(s) \in Seq(Events) /\ s = <<Head(s)>> \o Tail(s)
  BY HeadTailProperties
<1>2. PICK x, t : x = Head(s) /\ t = Tail(s)
  OBVIOUS
<1>3. x \in Events /\ t \in Seq(Events) /\ s = <<x>> \o t
  BY <1>1, <1>2
<1>4. <<x>> \in Seq(Events) /\ <<x>> = Append(<<>>, x) /\ <<>> \in Seq(Events)
  BY <1>3
<1>5. N(e, <<x>>) = IF x = e THEN 1 ELSE 0
  <2>1. N(e, Append(<<>>, x)) = IF x = e THEN N(e, <<>>) + 1 ELSE N(e, <<>>)
    BY <1>3, <1>4, CountAppend
  <2>2. N(e, <<x>>) = N(e, Append(<<>>, x))
    BY <1>4, Zenon
  <2>3. N(e, <<>>) = 0
    BY CountNone
  <2> DEFINE n == N(e, <<>>)
             m == N(e, <<x>>)
  <2>4. n = 0 /\ m = IF x = e THEN n + 1 ELSE n
    BY <2>1, <2>2, <2>3, Zenon
  <2> HIDE DEF n, m
  <2>5. m = IF x = e THEN 1 ELSE 0
    BY <2>4
  <2>6. QED
    BY <2>5 DEF m
<1>6. N(e, <<x>> \o t) = N(e, <<x>>) + N(e, t) /\ N(e, t) \in Nat
  BY <1>3, <1>4, CountConcat, PlacesFinite
<1> DEFINE m == N(e, <<x>>)
           k == N(e, t)
<1>7. N(e, s) = m + k /\ k \in Nat /\ m = IF x = e THEN 1 ELSE 0
  BY <1>3, <1>5, <1>6, Zenon
<1> HIDE DEF m, k
<1>8. N(e, s) = IF x = e THEN k + 1 ELSE k
  BY <1>7
<1>9. QED
  BY <1>2, <1>8, Zenon DEF k

\* Every event was taken, is queued or waits in a batch as often as it was
\* queued or registered.
Balanced(p, st, q, a, K) ==
    /\ p \in [Events -> Nat] /\ st \in Seq(Events) /\ q \in Seq(Events)
    /\ a \in [Events -> Seq(Events)]
    /\ \A e \in Events :
          /\ IsFiniteSet(Batches(a, e, Events))
          /\ p[e] = N(e, st) + N(e, q) + Cardinality(Batches(a, e, K))

LEMMA BatchesFinite ==
  ASSUME NEW a, NEW e, NEW K \in SUBSET Events, IsFiniteSet(Batches(a, e, Events))
  PROVE  IsFiniteSet(Batches(a, e, K)) /\ Cardinality(Batches(a, e, K)) \in Nat
<1>1. Batches(a, e, K) \in SUBSET Batches(a, e, Events)
  BY DEF Batches
<1>2. QED
  BY <1>1, FS_Subset, FS_CardinalityType

\* An event is queued for the first time.
LEMMA QueuedBalanced ==
  ASSUME NEW p, NEW st, NEW q, NEW a, NEW K \in SUBSET Events,
         Balanced(p, st, q, a, K), NEW f \in Events, NEW n, n = p[f] + 1
  PROVE  Balanced([p EXCEPT ![f] = n], st, Append(q, f), a, K)
<1> DEFINE r == [p EXCEPT ![f] = n]
           t == Append(q, f)
<1>1. p \in [Events -> Nat] /\ q \in Seq(Events) /\ st \in Seq(Events)
  BY DEF Balanced
<1>2. /\ r \in [Events -> Nat] /\ t \in Seq(Events)
      /\ \A e \in Events : r[e] = IF e = f THEN p[e] + 1 ELSE p[e]
  BY <1>1, AppendProperties
<1> HIDE DEF r, t
<1>3. ASSUME NEW e \in Events
      PROVE  r[e] = N(e, st) + N(e, t) + Cardinality(Batches(a, e, K))
  <2>1. /\ p[e] = N(e, st) + N(e, q) + Cardinality(Batches(a, e, K))
        /\ Cardinality(Batches(a, e, K)) \in Nat
    BY BatchesFinite DEF Balanced
  <2>2. N(e, st) \in Nat /\ N(e, q) \in Nat
    BY <1>1, PlacesFinite
  <2>3. N(e, t) = IF f = e THEN N(e, q) + 1 ELSE N(e, q)
    BY <1>1, CountAppend DEF t
  <2>4. QED
    BY <1>2, <2>1, <2>2, <2>3
<1>4. QED
  BY <1>2, <1>3 DEF Balanced, r, t

\* The first event of the queue is taken.
LEMMA TakenBalanced ==
  ASSUME NEW p, NEW st, NEW q, NEW a, NEW K \in SUBSET Events,
         Balanced(p, st, q, a, K), q # <<>>
  PROVE  Balanced(p, Append(st, Head(q)), Tail(q), a, K)
<1>1. p \in [Events -> Nat] /\ q \in Seq(Events) /\ st \in Seq(Events)
  BY DEF Balanced
<1>2. PICK x, t, u : x = Head(q) /\ t = Tail(q) /\ u = Append(st, x)
  OBVIOUS
<1>3. x \in Events /\ t \in Seq(Events) /\ u \in Seq(Events)
  BY <1>1, <1>2, HeadTailProperties, AppendProperties
<1>4. ASSUME NEW e \in Events
      PROVE  p[e] = N(e, u) + N(e, t) + Cardinality(Batches(a, e, K))
  <2>1. /\ p[e] = N(e, st) + N(e, q) + Cardinality(Batches(a, e, K))
        /\ Cardinality(Batches(a, e, K)) \in Nat
    BY BatchesFinite DEF Balanced
  <2>2. N(e, st) \in Nat /\ N(e, t) \in Nat
    BY <1>1, <1>3, PlacesFinite
  <2>3. N(e, q) = IF x = e THEN N(e, t) + 1 ELSE N(e, t)
    BY <1>1, <1>2, CountHead
  <2>4. N(e, u) = IF x = e THEN N(e, st) + 1 ELSE N(e, st)
    BY <1>1, <1>2, <1>3, CountAppend
  <2>5. QED
    BY <2>1, <2>2, <2>3, <2>4
<1>5. Balanced(p, u, t, a, K)
  BY <1>3, <1>4 DEF Balanced
<1>6. QED
  BY <1>2, <1>5

\* f is registered with e.
LEMMA RegisteredBalanced ==
  ASSUME NEW p, NEW st, NEW q, NEW a, Balanced(p, st, q, a, Events),
         NEW e \in Events, NEW f \in Events
  PROVE  Balanced([p EXCEPT ![f] = @ + 1], st, q, [a EXCEPT ![e] = Append(@, f)], Events)
<1> DEFINE r == [p EXCEPT ![f] = @ + 1]
           b == [a EXCEPT ![e] = Append(@, f)]
           n == Len(a[e]) + 1
<1>1. /\ p \in [Events -> Nat] /\ q \in Seq(Events) /\ st \in Seq(Events)
      /\ a \in [Events -> Seq(Events)] /\ a[e] \in Seq(Events)
  BY DEF Balanced
<1>2. /\ r \in [Events -> Nat] /\ b \in [Events -> Seq(Events)]
      /\ \A x \in Events : r[x] = IF x = f THEN p[x] + 1 ELSE p[x]
      /\ \A x \in Events : b[x] = IF x = e THEN Append(a[e], f) ELSE a[x]
  <2>1. Append(a[e], f) \in Seq(Events)
    BY <1>1, AppendProperties
  <2>2. QED
    BY <1>1, <2>1
<1>3. \A x \in Events :
         /\ PlacesOf(x, Append(a[e], f)) = IF f = x THEN PlacesOf(x, a[e]) \cup {n}
                                           ELSE PlacesOf(x, a[e])
         /\ n \notin PlacesOf(x, a[e])
  BY <1>1, PlacesAppend
<1> HIDE DEF r, b, n
<1>4. ASSUME NEW x \in Events
      PROVE  /\ IsFiniteSet(Batches(b, x, Events))
             /\ r[x] = N(x, st) + N(x, q) + Cardinality(Batches(b, x, Events))
  <2>1. /\ p[x] = N(x, st) + N(x, q) + Cardinality(Batches(a, x, Events))
        /\ IsFiniteSet(Batches(a, x, Events))
        /\ Cardinality(Batches(a, x, Events)) \in Nat
    BY BatchesFinite DEF Balanced
  <2>2. N(x, st) \in Nat /\ N(x, q) \in Nat
    BY <1>1, PlacesFinite
  <2>3. CASE x = f
    <3>1. <<e, n>> \notin Batches(a, x, Events)
      BY <1>3 DEF Batches
    <3>2. Batches(b, x, Events) = Batches(a, x, Events) \cup {<<e, n>>}
      <4>1. \A g \in Events : {g} \X PlacesOf(x, b[g]) =
               IF g = e THEN ({e} \X PlacesOf(x, a[e])) \cup {<<e, n>>}
               ELSE {g} \X PlacesOf(x, a[g])
        <5>1. PlacesOf(x, b[e]) = PlacesOf(x, a[e]) \cup {n}
          BY <1>2, <1>3, <2>3
        <5>2. {e} \X PlacesOf(x, b[e]) = ({e} \X PlacesOf(x, a[e])) \cup {<<e, n>>}
          BY <5>1
        <5>3. \A g \in Events \ {e} : b[g] = a[g]
          BY <1>2
        <5>4. QED
          BY <5>2, <5>3
      <4>2. QED
        BY <4>1 DEF Batches
    <3>3. /\ IsFiniteSet(Batches(b, x, Events))
          /\ Cardinality(Batches(b, x, Events)) = Cardinality(Batches(a, x, Events)) + 1
      BY <2>1, <3>1, <3>2, FS_AddElement
    <3>4. QED
      BY <1>2, <2>1, <2>2, <2>3, <3>3
  <2>4. CASE x # f
    <3>1. \A g \in Events : PlacesOf(x, b[g]) = PlacesOf(x, a[g])
      BY <1>2, <1>3, <2>4
    <3>2. Batches(b, x, Events) = Batches(a, x, Events)
      BY <3>1 DEF Batches
    <3>3. QED
      BY <1>2, <2>1, <2>4, <3>2
  <2>5. QED
    BY <2>3, <2>4
<1>5. QED
  BY <1>1, <1>2, <1>4 DEF Balanced, r, b

\* The batch of e goes to the front of the queue, and is no longer counted.
LEMMA BatchBalanced ==
  ASSUME NEW p, NEW st, NEW q, NEW a, Balanced(p, st, q, a, Events), NEW e \in Events
  PROVE  Balanced(p, st, a[e] \o q, a, Events \ {e})
<1>1. /\ p \in [Events -> Nat] /\ q \in Seq(Events) /\ st \in Seq(Events)
      /\ a \in [Events -> Seq(Events)]
  BY DEF Balanced
<1>2. PICK t, u : t = a[e] /\ u = t \o q
  OBVIOUS
<1>3. t \in Seq(Events) /\ u \in Seq(Events)
  BY <1>1, <1>2, ConcatProperties
<1>4. ASSUME NEW x \in Events
      PROVE  p[x] = N(x, st) + N(x, u) + Cardinality(Batches(a, x, Events \ {e}))
  <2> DEFINE A == Batches(a, x, Events)
             B == Batches(a, x, Events \ {e})
             C == {e} \X PlacesOf(x, t)
  <2>1. /\ p[x] = N(x, st) + N(x, q) + Cardinality(A)
        /\ IsFiniteSet(B) /\ Cardinality(B) \in Nat
    BY BatchesFinite DEF Balanced
  <2>2. N(x, st) \in Nat /\ N(x, q) \in Nat /\ N(x, t) \in Nat /\ N(x, u) = N(x, t) + N(x, q)
    BY <1>1, <1>2, <1>3, PlacesFinite, CountConcat
  <2>3. IsFiniteSet(C) /\ Cardinality(C) = N(x, t)
    <3>1. IsFiniteSet({e}) /\ Cardinality({e}) = 1 /\ IsFiniteSet(PlacesOf(x, t))
      BY <1>3, FS_Singleton, PlacesFinite
    <3>2. IsFiniteSet(C) /\ Cardinality(C) = 1 * N(x, t)
      BY <3>1, FS_Product DEF N
    <3>3. QED
      BY <2>2, <3>2
  <2>4. A = B \cup C /\ B \cap C = {}
    BY <1>2 DEF Batches
  <2> HIDE DEF A, B, C
  <2>5. Cardinality(A) = Cardinality(B) + Cardinality(C)
    <3>1. Cardinality(B \cup C) = Cardinality(B) + Cardinality(C) - Cardinality(B \cap C)
      BY <2>1, <2>3, FS_Union
    <3>2. Cardinality(B \cap C) = 0
      BY <2>4, FS_EmptySet
    <3>3. QED
      BY <2>1, <2>2, <2>3, <2>4, <3>1, <3>2
  <2>6. QED
    BY <2>1, <2>2, <2>3, <2>5 DEF B
<1>5. Balanced(p, st, u, a, Events \ {e})
  BY <1>1, <1>3, <1>4 DEF Balanced
<1>6. QED
  BY <1>2, <1>5

\* The batch of e is dropped, which was not counted or is empty.
LEMMA DroppedBalanced ==
  ASSUME NEW p, NEW st, NEW q, NEW a, NEW K, Balanced(p, st, q, a, K), NEW e \in Events,
         K = Events \ {e} \/ (K = Events /\ a[e] = <<>>)
  PROVE  Balanced(p, st, q, [a EXCEPT ![e] = <<>>], Events)
<1> DEFINE b == [a EXCEPT ![e] = <<>>]
<1>1. a \in [Events -> Seq(Events)]
  BY DEF Balanced
<1>2. /\ b \in [Events -> Seq(Events)]
      /\ \A x \in Events : b[x] = IF x = e THEN <<>> ELSE a[x]
  BY <1>1, EmptySeq
<1> HIDE DEF b
<1>3. ASSUME NEW x \in Events
      PROVE  Batches(b, x, Events) = Batches(a, x, K) /\ IsFiniteSet(Batches(a, x, K))
  <2>1. PlacesOf(x, b[e]) = {} /\ (a[e] = <<>> => PlacesOf(x, a[e]) = {})
    BY <1>2, CountNone
  <2>2. \A g \in Events \ {e} : PlacesOf(x, b[g]) = PlacesOf(x, a[g])
    BY <1>2
  <2>3. Batches(b, x, Events) = Batches(a, x, K)
    BY <2>1, <2>2 DEF Batches
  <2>4. IsFiniteSet(Batches(a, x, K))
    BY BatchesFinite DEF Balanced
  <2>5. QED
    BY <2>3, <2>4
<1>4. QED
  BY <1>2, <1>3 DEF Balanced, b

Removes(f) == f.fn = "handle" /\ f.at = "remove"

NoneRemoves(s) == \A i \in 1..Len(s) : ~Removes(s[i])

\* Only the innermost call can be at the removal of the batch.
Settled(s) == s = <<>> \/ NoneRemoves(Front(s))

\* The events whose batches are not in the queue already.
Keeping(s) == IF NoneRemoves(s) THEN Events ELSE Events \ {Last(s).event}

LEMMA SettledPop ==
  ASSUME NEW s \in Seq(Frames), s # <<>>
  PROVE  /\ Settled(s) => NoneRemoves(Front(s))
         /\ Settled(s) /\ ~Removes(Last(s)) => NoneRemoves(s)
         /\ NoneRemoves(s) => Settled(s) /\ NoneRemoves(Front(s)) /\ ~Removes(Last(s))
<1> DEFINE n == Len(s)
           t == Front(s)
<1>1. /\ n \in Nat \ {0} /\ Len(t) = n - 1 /\ Last(s) = s[n]
      /\ \A i \in 1..(n - 1) : t[i] = s[i]
  BY FrontTop
<1>2. 1..n = 1..(n - 1) \cup {n}
  BY <1>1
<1> HIDE DEF n, t
<1>3. NoneRemoves(s) <=> NoneRemoves(t) /\ ~Removes(Last(s))
  BY <1>1, <1>2 DEF NoneRemoves, n
<1>4. QED
  BY <1>3 DEF Settled, t

LEMMA SettledPush ==
  ASSUME NEW s \in Seq(Frames), NoneRemoves(s), NEW f \in Frames
  PROVE  Settled(Append(s, f)) /\ (~Removes(f) => NoneRemoves(Append(s, f)))
<1>1. /\ Append(s, f) \in Seq(Frames) /\ Append(s, f) # <<>>
      /\ Front(Append(s, f)) = s /\ Last(Append(s, f)) = f
  BY AppendTop
<1>2. Settled(Append(s, f))
  BY <1>1 DEF Settled
<1>3. QED
  BY <1>1, <1>2, SettledPop

LEMMA SettledEmpty == NoneRemoves(<<>>) /\ Settled(<<>>)
<1>1. Len(<<>>) = 0
  BY EmptySeq
<1>2. QED
  BY <1>1 DEF NoneRemoves, Settled

\* In every state, the batch that handle() has queued and not removed yet left
\* out.
Books ==
    \A w \in Workers :
        /\ Settled(stack[w])
        /\ Balanced(posts, started, queue, afterwards, Keeping(stack[w]))

LEMMA InitBooks == Init => Books
<1> SUFFICES ASSUME Init, NEW w \in Workers
             PROVE  /\ Settled(stack[w])
                    /\ Balanced(posts, started, queue, afterwards, Keeping(stack[w]))
  BY DEF Books
<1>1. Settled(<<>>) /\ Keeping(<<>>) = Events
  BY SettledEmpty DEF Keeping
<1>2. PICK a : a = afterwards /\ a \in [Events -> Seq(Events)] /\ \A g \in Events : a[g] = <<>>
  <2>1. <<>> \in Seq(Events)
    BY EmptySeq
  <2>2. PICK a : a = afterwards /\ a = [e \in Events |-> <<>>]
    BY DEF Init
  <2>3. QED
    BY <2>1, <2>2
<1>3. ASSUME NEW e \in Events
      PROVE  Batches(a, e, Events) = {}
  BY <1>2, CountNone DEF Batches
<1>4. Balanced(posts, <<>>, <<>>, a, Events)
  BY <1>2, <1>3, CountNone, FS_EmptySet, EmptySeq DEF Balanced, Init
<1>5. QED
  BY <1>1, <1>2, <1>4 DEF Init

\* One thread: what holds of its calls holds of all.
LEMMA OneBooks ==
  ASSUME OneThread, NEW w \in Workers, Settled(stack'[w]),
         Balanced(posts', started', queue', afterwards', Keeping(stack'[w]))
  PROVE  Books'
<1>1. Workers = {w}
  BY DEF OneThread
<1>2. QED
  BY <1>1 DEF Books

\* Calls that begin and end beside the removal of a batch.
LEMMA QuietBooks ==
  ASSUME Books, OneThread, NEW w \in Workers, NEW s, NEW t, s = stack[w], t = stack'[w],
         NoneRemoves(s), NoneRemoves(t), Settled(t),
         UNCHANGED <<posts, started, queue, afterwards>>
  PROVE  Books'
<1>1. Keeping(s) = Events /\ Keeping(t) = Events
  BY DEF Keeping
<1>2. Balanced(posts, started, queue, afterwards, Events)
  BY <1>1 DEF Books
<1>3. QED
  BY <1>1, <1>2, OneBooks

\* handle() goes on at another place, from one where it removes nothing.
LEMMA GoneToBooks ==
  ASSUME IInv, Books, NEW w \in Workers, ~Idle(w), Top(w).fn = "handle",
         Top(w).at # "remove", NEW at \in {"ids", "check", "afterwards", "remove"},
         NEW dirty \in BOOLEAN
  PROVE  /\ GoneTo(w, at, dirty) \in Seq(Frames) /\ NoneRemoves(stack[w])
         /\ GoneTo(w, at, dirty) # <<>> /\ Settled(GoneTo(w, at, dirty))
         /\ Last(GoneTo(w, at, dirty)).event = Top(w).event
         /\ IF at = "remove" THEN Removes(Last(GoneTo(w, at, dirty)))
            ELSE NoneRemoves(GoneTo(w, at, dirty))
<1> DEFINE s == stack[w]
           f == [Top(w) EXCEPT !.at = at, !.dirty = dirty]
<1>1. /\ s \in Seq(Frames) /\ s # <<>> /\ Top(w) = Last(s) /\ Top(w) \in HandleFrames
  BY TopProperties DEF Sound
<1>2. /\ f \in Frames /\ f.fn = "handle" /\ f.event = Top(w).event /\ f.at = at
  <2>1. f \in HandleFrames /\ f.fn = "handle" /\ f.event = Top(w).event /\ f.at = at
    BY <1>1 DEF HandleFrames
  <2>2. QED
    BY <2>1, FrameKinds
<1> HIDE DEF f
<1>3. Settled(s) /\ ~Removes(Last(s))
  BY <1>1 DEF Books, Removes
<1>4. NoneRemoves(s) /\ NoneRemoves(Front(s)) /\ Front(s) \in Seq(Frames)
  BY <1>1, <1>3, SettledPop, FrontTop
<1>5. GoneTo(w, at, dirty) = Append(Front(s), f)
  BY DEF GoneTo, f
<1>6. /\ Append(Front(s), f) \in Seq(Frames) /\ Append(Front(s), f) # <<>>
      /\ Last(Append(Front(s), f)) = f
  BY <1>2, <1>4, AppendTop
<1>7. Settled(Append(Front(s), f)) /\ (~Removes(f) => NoneRemoves(Append(Front(s), f)))
  BY <1>2, <1>4, SettledPush
<1>8. QED
  BY <1>2, <1>4, <1>5, <1>6, <1>7 DEF Removes

LEMMA CallBooks ==
  ASSUME IInv, Books, OneThread, NEW w \in Workers, ~Idle(w), Top(w).fn = "handle",
         Top(w).at # "remove", NEW at \in {"ids", "check", "afterwards"},
         NEW dirty \in BOOLEAN, NEW id \in AllIds,
         CallHandleAs(w, GoneTo(w, at, dirty), Top(w).event, id),
         UNCHANGED <<posts, started, queue, afterwards>>
  PROVE  Books'
<1> DEFINE e == Top(w).event
           r == GoneTo(w, at, dirty)
           f == [fn |-> "handle_as", event |-> e, as |-> id, original |-> current_id[e]]
<1>1. r \in Seq(Frames) /\ NoneRemoves(r) /\ NoneRemoves(stack[w])
  BY GoneToBooks
<1>2. e \in Events /\ current_id[e] \in AllIds \cup {None}
  BY TopProperties
<1>3. f \in Frames /\ ~Removes(f)
  BY <1>2, FrameKinds DEF HandleAsFrames, Removes
<1>4. stack' = [stack EXCEPT ![w] = Append(r, f)]
  BY DEF CallHandleAs
<1> HIDE DEF f, r
<1>5. PICK s, t : s = stack[w] /\ t = Append(r, f) /\ t = stack'[w]
  BY <1>4 DEF IInv, Stacks
<1>6. NoneRemoves(t) /\ Settled(t)
  BY <1>1, <1>3, <1>5, SettledPush
<1>7. QED
  BY <1>1, <1>5, <1>6, QuietBooks

\* The batch is copied to the queue, and from then on counted there.
LEMMA QueueAfterwardsBooks ==
  ASSUME IInv, Books, OneThread, NEW w \in Workers, QueueAfterwards(w)
  PROVE  Books'
<1> DEFINE e == Top(w).event
<1>1. /\ ~Idle(w) /\ Top(w).fn = "handle" /\ Top(w).at = "afterwards"
      /\ queue' = afterwards[e] \o queue
      /\ stack' = [stack EXCEPT ![w] = GoneTo(w, "remove", Top(w).dirty)]
      /\ UNCHANGED <<posts, started, afterwards>>
  BY DEF QueueAfterwards, InHandle, history
<1>2. Top(w) \in HandleFrames /\ Top(w).dirty \in BOOLEAN /\ e \in Events
  <2>1. Top(w) \in HandleFrames /\ e \in Events
    BY <1>1, TopProperties
  <2>2. QED
    BY <2>1 DEF HandleFrames
<1>3. PICK t : t = GoneTo(w, "remove", Top(w).dirty) /\ t = stack'[w]
  BY <1>1 DEF IInv, Stacks
<1>4. /\ t \in Seq(Frames) /\ NoneRemoves(stack[w]) /\ t # <<>> /\ Settled(t)
      /\ Last(t).event = e /\ Removes(Last(t))
  BY <1>1, <1>2, <1>3, GoneToBooks
<1>5. ~NoneRemoves(t)
  BY <1>4, SettledPop
<1>6. Keeping(t) = Events \ {e} /\ Keeping(stack[w]) = Events
  BY <1>4, <1>5 DEF Keeping
<1>7. Balanced(posts, started, queue, afterwards, Events)
  BY <1>6 DEF Books
<1>8. Balanced(posts, started, afterwards[e] \o queue, afterwards, Events \ {e})
  BY <1>2, <1>7, BatchBalanced
<1>9. QED
  BY <1>1, <1>3, <1>4, <1>6, <1>8, OneBooks

\* The component goes, and with it a batch that is queued or empty.
LEMMA ReturnFromHandleBooks ==
  ASSUME IInv, Books, OneThread, NEW w \in Workers, ReturnFromHandle(w)
  PROVE  Books'
<1> DEFINE e == Top(w).event
           s == stack[w]
<1>1. /\ ~Idle(w) /\ Top(w).fn = "handle"
      /\ \/ Top(w).at = "afterwards" /\ afterwards[e] = <<>>
         \/ Top(w).at = "remove"
      /\ afterwards' = [afterwards EXCEPT ![e] = <<>>]
      /\ stack' = [stack EXCEPT ![w] = Front(s)]
      /\ UNCHANGED <<posts, started, queue>>
  BY DEF ReturnFromHandle, Returning, InHandle, history, IInv, Stacks
<1>2. s \in Seq(Frames) /\ s # <<>> /\ Top(w) = Last(s) /\ e \in Events
  BY <1>1, TopProperties DEF Sound
<1>3. PICK t : t = Front(s) /\ t = stack'[w]
  BY <1>1 DEF IInv, Stacks
<1>4. Settled(s) /\ NoneRemoves(t) /\ t \in Seq(Frames)
  BY <1>2, <1>3, SettledPop, FrontTop DEF Books
<1>5. Settled(t)
  BY <1>4, SettledPop, SettledEmpty
<1>6. Balanced(posts, started, queue, afterwards, Keeping(s))
  BY DEF Books
<1>7. Keeping(s) = Events \ {e} \/ (Keeping(s) = Events /\ afterwards[e] = <<>>)
  <2>1. CASE Removes(Last(s))
    <3>1. ~NoneRemoves(s)
      BY <1>2, <2>1, SettledPop
    <3>2. QED
      BY <1>2, <3>1 DEF Keeping
  <2>2. CASE ~Removes(Last(s))
    <3>1. NoneRemoves(s)
      BY <1>2, <1>4, <2>2, SettledPop
    <3>2. Top(w).at # "remove"
      BY <1>1, <1>2, <2>2 DEF Removes
    <3>3. QED
      BY <1>1, <3>1, <3>2 DEF Keeping
  <2>3. QED
    BY <2>1, <2>2
<1>8. Balanced(posts, started, queue, [afterwards EXCEPT ![e] = <<>>], Events)
  BY <1>2, <1>6, <1>7, DroppedBalanced
<1>9. Keeping(t) = Events
  BY <1>4 DEF Keeping
<1>10. QED
  BY <1>1, <1>3, <1>5, <1>8, <1>9, OneBooks

\* Where a handler runs, no batch is being removed.
LEMMA HandlerTop ==
  ASSUME IInv, Books, NEW w \in Workers, InHandler(w)
  PROVE  /\ stack[w] \in Seq(Frames) /\ stack[w] # <<>> /\ Top(w) = Last(stack[w])
         /\ Sound(stack[w]) /\ Top(w).event \in Events
         /\ NoneRemoves(stack[w]) /\ Keeping(stack[w]) = Events
         /\ Balanced(posts, started, queue, afterwards, Events)
<1>1. /\ stack[w] \in Seq(Frames) /\ stack[w] # <<>> /\ Top(w) = Last(stack[w])
      /\ Sound(stack[w]) /\ Top(w).event \in Events /\ Top(w).fn = "handle_as"
  BY TopProperties DEF InHandler, Sound
<1>2. NoneRemoves(stack[w])
  BY <1>1, SettledPop DEF Books, Removes
<1>3. QED
  BY <1>1, <1>2 DEF Keeping, Books

LEMMA AfterwardsBooks ==
  ASSUME IInv, Books, OneThread, NEW w \in Workers, NEW f \in Events, Afterwards(w, f)
  PROVE  Books'
<1> DEFINE e == Top(w).event
<1>1. /\ InHandler(w)
      /\ afterwards' = [afterwards EXCEPT ![e] = Append(@, f)]
      /\ posts' = [posts EXCEPT ![f] = @ + 1]
      /\ UNCHANGED <<started, queue, stack>>
  BY DEF Afterwards, Act
<1>2. /\ e \in Events /\ NoneRemoves(stack[w])
      /\ Balanced(posts, started, queue, afterwards, Events)
  BY <1>1, HandlerTop
<1>3. Balanced([posts EXCEPT ![f] = @ + 1], started, queue,
               [afterwards EXCEPT ![e] = Append(@, f)], Events)
  BY <1>2, RegisteredBalanced
<1>4. PICK s : s = stack[w] /\ s = stack'[w] /\ Settled(s) /\ Keeping(s) = Events
  BY <1>1, <1>2 DEF Keeping, Books
<1>5. QED
  BY <1>1, <1>3, <1>4, OneBooks

\* Handlers that call handle_as() or handle() again.
LEMMA NestedBooks ==
  ASSUME IInv, Books, OneThread, NEW w \in Workers,
         NestedHandle(w) \/ \E id \in Ids : NestedHandleAs(w, id)
  PROVE  Books'
<1> DEFINE e == Top(w).event
           s == stack[w]
<1>1. /\ InHandler(w) /\ ~Idle(w) /\ UNCHANGED <<posts, started, queue, afterwards>>
  BY DEF NestedHandle, NestedHandleAs, Act, InHandler, history
<1>2. /\ s \in Seq(Frames) /\ e \in Events /\ NoneRemoves(s)
      /\ current_id[e] \in AllIds \cup {None}
  BY <1>1, HandlerTop, TopProperties
<1>3. PICK f \in Frames : stack' = [stack EXCEPT ![w] = Append(s, f)] /\ ~Removes(f)
  <2>1. CASE NestedHandle(w)
    <3>1. stack' = [stack EXCEPT ![w] = Append(s, HandleCall(e))]
      BY <2>1 DEF NestedHandle, IInv, Stacks
    <3>2. HandleCall(e) \in Frames /\ ~Removes(HandleCall(e))
      BY <1>2, FrameKinds DEF HandleFrames, HandleCall, Removes
    <3>3. QED
      BY <3>1, <3>2
  <2>2. CASE \E id \in Ids : NestedHandleAs(w, id)
    <3>1. PICK id \in Ids : NestedHandleAs(w, id)
      BY <2>2
    <3> DEFINE f == [fn |-> "handle_as", event |-> e, as |-> id,
                     original |-> current_id[e]]
    <3>2. stack' = [stack EXCEPT ![w] = Append(s, f)]
      BY <3>1 DEF NestedHandleAs, CallHandleAs
    <3>3. f \in Frames /\ ~Removes(f)
      BY <1>2, FrameKinds DEF HandleAsFrames, AllIds, Removes
    <3>4. QED
      BY <3>2, <3>3
  <2>3. QED
    BY <2>1, <2>2
<1>4. PICK t : t = Append(s, f) /\ t = stack'[w]
  BY <1>3 DEF IInv, Stacks
<1>5. NoneRemoves(t) /\ Settled(t)
  BY <1>2, <1>3, <1>4, SettledPush
<1>6. QED
  BY <1>1, <1>2, <1>4, <1>5, QuietBooks

\* handle_as() ends, and by an exception the handle() that called it, too: the
\* batch of the event stays with it.
LEMMA ReturnBooks ==
  ASSUME IInv, Books, OneThread, NEW w \in Workers, Return(w)
  PROVE  Books'
<1> DEFINE s == stack[w]
           below == Front(s)
<1>1. /\ InHandler(w) /\ UNCHANGED <<posts, started, queue, afterwards>>
  BY DEF Return, ReturnFromHandleAs, Throw, history
<1>2. /\ s \in Seq(Frames) /\ s # <<>> /\ Sound(s) /\ Top(w) = Last(s) /\ NoneRemoves(s)
      /\ Top(w).fn = "handle_as"
  BY <1>1, HandlerTop DEF InHandler
<1>3. below \in Seq(Frames) /\ NoneRemoves(below)
  BY <1>2, FrontTop, SettledPop
<1>4. below # <<>>
  <2>1. s[1].fn = "handle" /\ Last(s) = s[Len(s)] /\ Len(below) = Len(s) - 1
        /\ Len(s) \in Nat \ {0}
    BY <1>2, FrontTop DEF Sound
  <2>2. Len(s) # 1
    BY <1>2, <2>1
  <2>3. Len(below) # 0
    BY <2>1, <2>2
  <2>4. Len(<<>>) = 0
    BY EmptySeq
  <2>5. QED
    BY <2>3, <2>4
<1>5. \E t \in Seq(Frames) : stack' = [stack EXCEPT ![w] = t] /\ NoneRemoves(t)
  <2>1. CASE ReturnFromHandleAs(w)
    <3>1. stack' = [stack EXCEPT ![w] = below]
      BY <2>1 DEF ReturnFromHandleAs, IInv, Stacks
    <3>2. QED
      BY <1>3, <3>1
  <2>2. CASE Throw(w)
    <3>1. stack' = [stack EXCEPT ![w] = Unwound(w)]
      BY <2>2 DEF Throw
    <3>2. Unwound(w) = IF Last(below).fn = "handle" THEN Front(below) ELSE below
      BY DEF Unwound
    <3>3. NoneRemoves(Front(below)) /\ Front(below) \in Seq(Frames)
      BY <1>3, <1>4, SettledPop, FrontTop
    <3>4. NoneRemoves(Unwound(w)) /\ Unwound(w) \in Seq(Frames)
      BY <1>3, <3>2, <3>3
    <3>5. QED
      BY <3>1, <3>4
  <2>3. QED
    BY <2>1, <2>2 DEF Return
<1>6. PICK t \in Seq(Frames) : t = stack'[w] /\ NoneRemoves(t)
  BY <1>5 DEF IInv, Stacks
<1>7. Settled(t)
  BY <1>6, SettledPop, SettledEmpty
<1>8. QED
  BY <1>1, <1>2, <1>6, <1>7, QuietBooks

LEMMA TakeBooks ==
  ASSUME IInv, Books, OneThread, NEW w \in Workers, TakeEvent(w)
  PROVE  Books'
<1>1. /\ stack[w] = <<>> /\ queue # <<>>
      /\ stack' = [stack EXCEPT ![w] = <<HandleCall(Head(queue))>>]
      /\ queue' = Tail(queue) /\ started' = Append(started, Head(queue))
      /\ UNCHANGED <<posts, afterwards>>
  BY DEF TakeEvent, Idle
<1>2. Keeping(<<>>) = Events
  BY SettledEmpty DEF Keeping
<1>3. Balanced(posts, started, queue, afterwards, Events)
  BY <1>1, <1>2 DEF Books
<1>4. Balanced(posts, Append(started, Head(queue)), Tail(queue), afterwards, Events)
  BY <1>1, <1>3, TakenBalanced
<1>5. PICK f : f = HandleCall(Head(queue)) /\ f \in Frames /\ ~Removes(f)
  <2>1. Head(queue) \in Events
    BY <1>1, HeadTailProperties DEF IInv, Data
  <2>2. PICK f : f = HandleCall(Head(queue))
    OBVIOUS
  <2>3. f \in HandleFrames /\ f.at = "begin"
    BY <2>1, <2>2 DEF HandleFrames, HandleCall
  <2>4. QED
    BY <2>2, <2>3, FrameKinds DEF Removes
<1>6. PICK t : t = Append(<<>>, f) /\ t = stack'[w]
  BY <1>1, <1>5 DEF IInv, Stacks
<1>7. Settled(t) /\ NoneRemoves(t)
  BY <1>5, <1>6, SettledPush, SettledEmpty, EmptySeq
<1>8. Keeping(t) = Events
  BY <1>7 DEF Keeping
<1>9. QED
  BY <1>1, <1>4, <1>6, <1>7, <1>8, OneBooks

LEMMA QueueBooks ==
  ASSUME IInv, Books, OneThread, NEW f \in Events, Queue(f)
  PROVE  Books'
<1>1. PICK w \in Workers : TRUE
  BY DEF OneThread
<1>2. PICK s : s = stack[w] /\ s = stack'[w]
  BY DEF Queue
<1>3. Settled(s) /\ Balanced(posts, started, queue, afterwards, Keeping(s))
  BY <1>2 DEF Books
<1>4. Keeping(s) \in SUBSET Events
  BY DEF Keeping
<1>5. 1 = posts[f] + 1
  BY DEF Queue, Fresh
<1>6. Balanced([posts EXCEPT ![f] = 1], started, Append(queue, f), afterwards, Keeping(s))
  BY <1>3, <1>4, <1>5, QueuedBalanced
<1>7. QED
  BY <1>2, <1>3, <1>6, OneBooks DEF Queue

LEMMA HandleStepBooks ==
  ASSUME IInv, Books, OneThread, NEW w \in Workers, HandleStep(w)
  PROVE  Books'
<1>1. ~Idle(w) /\ Top(w).fn = "handle"
  BY DEF HandleStep, BeginHandling, HandleNextId, FinishingHandling, FinishedHandling,
         QueueAfterwards, ReturnFromHandle, Returning, InHandle
<1>2. Top(w) \in HandleFrames /\ Top(w).event \in Events /\ Top(w).dirty \in BOOLEAN
  <2>1. Top(w) \in HandleFrames /\ Top(w).event \in Events
    BY <1>1, TopProperties
  <2>2. QED
    BY <2>1 DEF HandleFrames
<1>3. HandlingIds \subseteq AllIds
  BY DEF AllIds
<1>4. CASE BeginHandling(w)
  BY <1>1, <1>3, <1>4, CallBooks DEF BeginHandling, InHandle, HandlingIds, history
<1>5. CASE HandleNextId(w)
  <2>1. Head(pending[Top(w).event]) \in AllIds
    BY <1>2, <1>5, HeadTailProperties DEF HandleNextId, IInv, Data, AllIds
  <2>2. QED
    BY <1>1, <1>5, <2>1, CallBooks DEF HandleNextId, InHandle, history
<1>6. CASE FinishingHandling(w)
  BY <1>1, <1>3, <1>6, CallBooks DEF FinishingHandling, InHandle, HandlingIds, history
<1>7. CASE FinishedHandling(w)
  BY <1>1, <1>2, <1>3, <1>7, CallBooks DEF FinishedHandling, InHandle, HandlingIds, history
<1>8. QED
  BY <1>4, <1>5, <1>6, <1>7, QueueAfterwardsBooks, ReturnFromHandleBooks DEF HandleStep

LEMMA NextBooks ==
  ASSUME IInv, Books, OneThread, [Next]_vars
  PROVE  Books'
<1>1. ASSUME UNCHANGED <<stack, posts, started, queue, afterwards>>
      PROVE  Books'
  BY <1>1 DEF Books
<1>2. CASE UNCHANGED vars
  BY <1>1, <1>2 DEF vars, history
<1>3. CASE \E f \in Events : Queue(f)
  BY <1>3, QueueBooks
<1>4. CASE \E w \in Workers : TakeEvent(w)
  BY <1>4, TakeBooks
<1>5. CASE \E w \in Workers : HandleStep(w)
  BY <1>5, HandleStepBooks
<1>6. CASE \E w \in Workers : HandlerStep(w)
  <2>1. PICK w \in Workers : HandlerStep(w)
    BY <1>6
  <2>2. CASE \E id \in Ids : QueueAs(w, id)
    BY <1>1, <2>2 DEF QueueAs, history
  <2>3. QED
    BY <2>1, <2>2, AfterwardsBooks, NestedBooks DEF HandlerStep
<1>7. CASE \E w \in Workers : Return(w)
  BY <1>7, ReturnBooks
<1>8. QED
  BY <1>2, <1>3, <1>4, <1>5, <1>6, <1>7 DEF Next

\* Between two events, each event was taken from the queue or waits, in the
\* queue or in the batch of an event, exactly as often as it was queued and
\* registered with afterwards() (event_manager.cpp:165-172), for one thread,
\* whatever handlers register, handle again and throw at any depth.
THEOREM EachTakenOnce ==
  ASSUME OneThread
  PROVE  Spec => []NoneLostOrDoubled
<1>1. Init => IInv /\ Books
  BY InitIInv, InitBooks
<1>2. IInv /\ Books /\ [Next]_vars => (IInv /\ Books)'
  BY NextStep, NextBooks
<1>3. Books => NoneLostOrDoubled
  <2> SUFFICES ASSUME Books, \A w \in Workers : Idle(w), NEW e \in Events
               PROVE  posts[e] = N(e, started) + N(e, queue)
                                   + Cardinality(Batches(afterwards, e, Events))
    BY DEF NoneLostOrDoubled, N, Batches
  <2>1. PICK w \in Workers : stack[w] = <<>>
    BY DEF OneThread, Idle
  <2>2. Keeping(stack[w]) = Events
    BY <2>1, SettledEmpty DEF Keeping
  <2>3. QED
    BY <2>2 DEF Books, Balanced
<1>4. QED
  BY <1>1, <1>2, <1>3, PTL DEF Spec

----------------------------------------------------------------------------
(* What is registered with an event comes before the next one              *)

Among(x, s) == \E i \in 1..Len(s) : s[i] = x

\* Once x was taken, what is taken is x again or registered under x.
Follows(x, st, u) ==
    \A i, j \in 1..Len(st) : i < j /\ st[i] = x => st[j] = x \/ x \in u[st[j]]

\* The events taken (st), queued (q) and registered (a), those each is under (u)
\* and how often each was queued (p).  The queue begins with what is under the
\* event taken last, then what is under fewer of those it is under, and so on.
Lineage(st, q, a, u, p) ==
    /\ \A f \in Events : /\ p[f] = 0 => u[f] = {}
                         /\ p[f] > 1 => f \in u[f]
    /\ \A y, f \in Events : Among(f, a[y]) =>
          /\ u[f] = u[y] \cup {y}
          /\ Among(y, st)
          /\ f # y => p[f] = 1
    /\ \A i, j \in 1..Len(q) : i < j => u[q[j]] \subseteq u[q[i]] \cup {q[i]}
    /\ st # <<>> =>
          /\ \A i \in 1..Len(q) : u[q[i]] \subseteq u[st[Len(st)]] \cup {st[Len(st)]}
          /\ \A x \in u[st[Len(st)]] \cup {st[Len(st)]} : Follows(x, st, u)

\* AfterwardsBeforeNext
InTime(st, u, fl) ==
    \A i, j \in 1..Len(st) :
        i < j /\ st[i] # st[j] /\ st[i] \notin u[st[j]] =>
            \A f \in Events : st[i] \in u[f] /\ u[f] \cap fl = {} =>
                \E k \in 1..j : st[k] = f

LEMMA Counted ==
  ASSUME NEW s \in Seq(Events), NEW e
  PROVE  N(e, s) \in Nat /\ (Among(e, s) <=> N(e, s) >= 1)
<1>1. IsFiniteSet(PlacesOf(e, s)) /\ N(e, s) \in Nat
  BY PlacesFinite
<1>2. N(e, s) = 0 <=> PlacesOf(e, s) = {}
  BY <1>1, FS_EmptySet DEF N
<1>3. Among(e, s) <=> PlacesOf(e, s) # {}
  BY LenProperties DEF Among, PlacesOf
<1>4. QED
  BY <1>1, <1>2, <1>3

\* What the balance says of where an event can be.
LEMMA Placed ==
  ASSUME NEW p, NEW st, NEW q, NEW a, NEW K \in SUBSET Events,
         Balanced(p, st, q, a, K), NEW f \in Events
  PROVE  /\ p[f] \in Nat
         /\ p[f] = 0 => ~Among(f, st) /\ ~Among(f, q)
         /\ Among(f, st) /\ Among(f, q) => p[f] > 1
         /\ \A y \in K : Among(f, a[y]) =>
               /\ p[f] # 0
               /\ Among(f, st) \/ Among(f, q) => p[f] > 1
         /\ p[f] # 0 => \/ Among(f, st) \/ Among(f, q)
                        \/ \E y \in K : Among(f, a[y])
<1> DEFINE B == Batches(a, f, K)
           c == Cardinality(B)
           n == N(f, st)
           m == N(f, q)
<1>1. IsFiniteSet(B) /\ c \in Nat
  BY BatchesFinite DEF Balanced
<1>2. /\ p[f] = n + m + c /\ p[f] \in Nat
      /\ st \in Seq(Events) /\ q \in Seq(Events) /\ a \in [Events -> Seq(Events)]
  BY DEF Balanced
<1>3. n \in Nat /\ m \in Nat /\ (Among(f, st) <=> n >= 1) /\ (Among(f, q) <=> m >= 1)
  BY <1>2, Counted
<1>4. c = 0 <=> B = {}
  BY <1>1, FS_EmptySet
<1>5. B # {} <=> \E y \in K : Among(f, a[y])
  <2>1. \A y \in K : DOMAIN a[y] = 1..Len(a[y])
    BY <1>2, LenProperties
  <2>2. \A y \in K : Among(f, a[y]) <=> PlacesOf(f, a[y]) # {}
    BY <2>1 DEF Among, PlacesOf
  <2>3. ASSUME NEW b, b \in B
        PROVE  \E y \in K : Among(f, a[y])
    <3>1. PICK y \in K : b \in {y} \X PlacesOf(f, a[y])
      BY <2>3 DEF Batches
    <3>2. PlacesOf(f, a[y]) # {}
      BY <3>1
    <3>3. QED
      BY <2>2, <3>2
  <2>4. ASSUME NEW y \in K, Among(f, a[y])
        PROVE  B # {}
    <3>1. PICK i \in PlacesOf(f, a[y]) : TRUE
      BY <2>2, <2>4
    <3>2. <<y, i>> \in {y} \X PlacesOf(f, a[y])
      BY <3>1
    <3>3. <<y, i>> \in B
      BY <3>2 DEF Batches
    <3>4. QED
      BY <3>3
  <2>5. QED
    BY <2>3, <2>4
<1> HIDE DEF B, c, n, m
<1>6. QED
  BY <1>1, <1>2, <1>3, <1>4, <1>5

LEMMA AmongAppend ==
  ASSUME NEW s \in Seq(Events), NEW x \in Events, NEW f
  PROVE  Among(f, Append(s, x)) <=> Among(f, s) \/ f = x
<1>1. /\ Len(s) \in Nat /\ Len(Append(s, x)) = Len(s) + 1
      /\ \A i \in 1..Len(s) : Append(s, x)[i] = s[i]
      /\ Append(s, x)[Len(s) + 1] = x
  BY AppendProperties, LenProperties
<1> DEFINE n == Len(s)
           t == Append(s, x)
<1> HIDE DEF n, t
<1>2. 1..(n + 1) = 1..n \cup {n + 1}
  BY <1>1 DEF n
<1>3. QED
  BY <1>1, <1>2 DEF Among, n, t

\* An event queued for the first time is under none.
LEMMA QueuedLineage ==
  ASSUME NEW p, NEW st, NEW q, NEW a, NEW u, NEW K \in SUBSET Events,
         Balanced(p, st, q, a, K), Lineage(st, q, a, u, p),
         NEW f \in Events, p[f] = 0
  PROVE  Lineage(st, Append(q, f), a, u, [p EXCEPT ![f] = 1])
<1>1. PICK r, t : r = [p EXCEPT ![f] = 1] /\ t = Append(q, f)
  OBVIOUS
<1>2. /\ q \in Seq(Events) /\ p \in [Events -> Nat] /\ Len(q) \in Nat
  BY LenProperties DEF Balanced
<1>3. /\ Len(t) = Len(q) + 1 /\ t[Len(q) + 1] = f
      /\ \A i \in 1..Len(q) : t[i] = q[i]
  BY <1>1, <1>2, AppendProperties
<1>4. \A g \in Events : r[g] = IF g = f THEN 1 ELSE p[g]
  BY <1>1, <1>2
<1>5. u[f] = {}
  BY DEF Lineage
<1>6. \A g \in Events : /\ r[g] = 0 => u[g] = {}
                        /\ r[g] > 1 => g \in u[g]
  BY <1>2, <1>4 DEF Lineage
<1>7. \A y, g \in Events : Among(g, a[y]) =>
          u[g] = u[y] \cup {y} /\ Among(y, st) /\ (g # y => r[g] = 1)
  BY <1>4 DEF Lineage
<1>8. \A i \in 1..Len(t) : i \in 1..Len(q) \/ u[t[i]] = {}
  BY <1>2, <1>3, <1>5
<1>9. ASSUME NEW i \in 1..Len(t), NEW j \in 1..Len(t), i < j
      PROVE  u[t[j]] \subseteq u[t[i]] \cup {t[i]}
  <2>1. CASE j \in 1..Len(q)
    <3>1. i \in 1..Len(q)
      BY <1>2, <1>3, <1>9, <2>1
    <3>2. QED
      BY <1>3, <1>9, <2>1, <3>1 DEF Lineage
  <2>2. QED
    BY <1>8, <2>1
<1>10. st # <<>> =>
          /\ \A i \in 1..Len(t) : u[t[i]] \subseteq u[st[Len(st)]] \cup {st[Len(st)]}
          /\ \A x \in u[st[Len(st)]] \cup {st[Len(st)]} : Follows(x, st, u)
  BY <1>3, <1>8 DEF Lineage
<1>11. Lineage(st, t, a, u, r)
  BY <1>6, <1>7, <1>9, <1>10 DEF Lineage
<1>12. QED
  BY <1>1, <1>11

\* The first event of the queue is taken.
LEMMA TakenLineage ==
  ASSUME NEW p, NEW st, NEW q, NEW a, NEW u, NEW K \in SUBSET Events,
         Balanced(p, st, q, a, K), Lineage(st, q, a, u, p), q # <<>>
  PROVE  Lineage(Append(st, Head(q)), Tail(q), a, u, p)
<1>1. st \in Seq(Events) /\ q \in Seq(Events) /\ p \in [Events -> Nat]
  BY DEF Balanced
<1>2. PICK x, r, t : x = Head(q) /\ r = Tail(q) /\ t = Append(st, x)
  OBVIOUS
<1>3. /\ x \in Events /\ Len(q) \in Nat \ {0} /\ Len(r) = Len(q) - 1
      /\ x = q[1] /\ \A i \in 1..Len(r) : r[i] = q[i + 1]
  BY <1>1, <1>2, HeadTailProperties, LenProperties, EmptySeq
<1>4. /\ Len(st) \in Nat /\ Len(t) = Len(st) + 1 /\ t[Len(t)] = x
      /\ \A i \in 1..Len(st) : t[i] = st[i]
  BY <1>1, <1>2, <1>3, AppendProperties, LenProperties
<1>5. PICK n, m : n = Len(st) /\ m = Len(q)
  OBVIOUS
<1>6. \A i \in 1..Len(r) : i + 1 \in 1..m /\ 1 < i + 1 /\ 1 \in 1..m
  BY <1>3, <1>5
<1>7. \A i, j \in 1..Len(r) : i < j => u[r[j]] \subseteq u[r[i]] \cup {r[i]}
  <2>1. SUFFICES ASSUME NEW i \in 1..Len(r), NEW j \in 1..Len(r), i < j
                 PROVE  u[r[j]] \subseteq u[r[i]] \cup {r[i]}
    OBVIOUS
  <2>2. i + 1 \in 1..Len(q) /\ j + 1 \in 1..Len(q) /\ i + 1 < j + 1
    BY <1>3, <1>5, <1>6, <2>1
  <2>3. PICK k, l : k = i + 1 /\ l = j + 1
    OBVIOUS
  <2>4. k \in 1..Len(q) /\ l \in 1..Len(q) /\ k < l /\ r[i] = q[k] /\ r[j] = q[l]
    BY <1>3, <2>2, <2>3
  <2>5. u[q[l]] \subseteq u[q[k]] \cup {q[k]}
    BY <2>4 DEF Lineage
  <2>6. QED
    BY <2>4, <2>5
<1>8. \A i \in 1..Len(r) : u[r[i]] \subseteq u[x] \cup {x}
  <2>1. SUFFICES ASSUME NEW i \in 1..Len(r)
                 PROVE  u[r[i]] \subseteq u[x] \cup {x}
    OBVIOUS
  <2>2. PICK k, l : k = i + 1 /\ l = 1
    OBVIOUS
  <2>3. k \in 1..Len(q) /\ l \in 1..Len(q) /\ l < k /\ r[i] = q[k] /\ x = q[l]
    BY <1>3, <1>5, <1>6, <2>2
  <2>4. u[q[k]] \subseteq u[q[l]] \cup {q[l]}
    BY <2>3 DEF Lineage
  <2>5. QED
    BY <2>3, <2>4
<1>9. ASSUME NEW z \in u[x] \cup {x}
      PROVE  Follows(z, t, u)
  <2>1. SUFFICES ASSUME NEW i \in 1..Len(t), NEW j \in 1..Len(t), i < j, t[i] = z
                 PROVE  t[j] = z \/ z \in u[t[j]]
    BY DEF Follows
  <2>2. i \in 1..n /\ st[i] = z
    BY <1>4, <1>5, <2>1
  <2>3. CASE j = Len(t)
    BY <1>4, <1>9, <2>3
  <2>4. CASE j \in 1..n
    <3>1. st # <<>>
      BY <1>4, <1>5, <2>2, EmptySeq
    <3>2. z \in u[st[Len(st)]] \cup {st[Len(st)]} \/ z = x
      <4>1. 1 \in 1..Len(q)
        BY <1>3
      <4>2. u[x] \subseteq u[st[Len(st)]] \cup {st[Len(st)]}
        BY <1>3, <3>1, <4>1 DEF Lineage
      <4>3. QED
        BY <1>9, <4>2
    <3>3. z \in u[st[Len(st)]] \cup {st[Len(st)]}
      <4>1. CASE z = x
        <5>1. Among(x, st) /\ Among(x, q)
          BY <1>3, <1>5, <2>2, <4>1 DEF Among
        <5>2. p[x] > 1
          BY <1>3, <5>1, Placed
        <5>3. x \in u[x]
          BY <1>3, <5>2 DEF Lineage
        <5>4. 1 \in 1..Len(q)
          BY <1>3
        <5>5. QED
          BY <1>3, <3>1, <4>1, <5>3, <5>4 DEF Lineage
      <4>2. QED
        BY <3>2, <4>1
    <3>4. Follows(z, st, u)
      BY <3>1, <3>3 DEF Lineage
    <3>5. QED
      BY <1>4, <1>5, <2>1, <2>2, <2>4, <3>4 DEF Follows
  <2>5. QED
    BY <1>4, <1>5, <2>3, <2>4
<1>10. \A y, f \in Events : Among(f, a[y]) =>
          u[f] = u[y] \cup {y} /\ Among(y, t) /\ (f # y => p[f] = 1)
  BY <1>1, <1>2, <1>3, AmongAppend DEF Lineage
<1>11. Lineage(t, r, a, u, p)
  BY <1>4, <1>7, <1>8, <1>9, <1>10 DEF Lineage
<1>12. QED
  BY <1>2, <1>11

\* The batch of the event that was taken last goes to the front of the queue.
LEMMA BatchLineage ==
  ASSUME NEW p, NEW st, NEW q, NEW a, NEW u, Balanced(p, st, q, a, Events),
         Lineage(st, q, a, u, p), st # <<>>, NEW e \in Events, e = st[Len(st)]
  PROVE  Lineage(st, a[e] \o q, a, u, p)
<1>1. st \in Seq(Events) /\ q \in Seq(Events) /\ a[e] \in Seq(Events)
  BY DEF Balanced
<1>2. PICK b, r, n, m : b = a[e] /\ r = b \o q /\ n = Len(b) /\ m = Len(q)
  OBVIOUS
<1>3. /\ n \in Nat /\ m \in Nat /\ Len(r) = n + m
      /\ \A i \in 1..(n + m) : r[i] = IF i <= n THEN b[i] ELSE q[i - n]
  BY <1>1, <1>2, ConcatProperties, LenProperties
<1>4. \A i \in 1..n : u[b[i]] = u[e] \cup {e}
  <2>1. SUFFICES ASSUME NEW i \in 1..n
                 PROVE  u[b[i]] = u[e] \cup {e}
    OBVIOUS
  <2>2. b[i] \in Events
    BY <1>1, <1>2, ElementOfSeq
  <2>3. Among(b[i], a[e])
    BY <1>2 DEF Among
  <2>4. QED
    BY <2>2, <2>3 DEF Lineage
<1>5. \A i \in 1..m : u[q[i]] \subseteq u[e] \cup {e}
  BY <1>2 DEF Lineage
<1>6. ASSUME NEW i \in 1..(n + m), NEW j \in 1..(n + m), i < j
      PROVE  u[r[j]] \subseteq u[r[i]] \cup {r[i]}
  <2>1. CASE i <= n
    <3>1. i \in 1..n /\ r[i] = b[i]
      BY <1>3, <2>1
    <3>2. u[r[j]] \subseteq u[e] \cup {e}
      <4>1. CASE j <= n
        BY <1>3, <1>4, <4>1
      <4>2. CASE ~(j <= n)
        <5>1. j - n \in 1..m /\ r[j] = q[j - n]
          BY <1>3, <4>2
        <5>2. QED
          BY <1>5, <5>1
      <4>3. QED
        BY <4>1, <4>2
    <3>3. QED
      BY <1>4, <3>1, <3>2
  <2>2. CASE ~(i <= n)
    <3>1. /\ i - n \in 1..m /\ r[i] = q[i - n]
          /\ j - n \in 1..m /\ r[j] = q[j - n] /\ i - n < j - n
      BY <1>3, <1>6, <2>2
    <3>2. PICK k, l : k = i - n /\ l = j - n
      OBVIOUS
    <3>3. k \in 1..Len(q) /\ l \in 1..Len(q) /\ k < l /\ r[i] = q[k] /\ r[j] = q[l]
      BY <1>2, <3>1, <3>2
    <3>4. u[q[l]] \subseteq u[q[k]] \cup {q[k]}
      BY <3>3 DEF Lineage
    <3>5. QED
      BY <3>3, <3>4
  <2>3. QED
    BY <2>1, <2>2
<1>7. \A i \in 1..(n + m) : u[r[i]] \subseteq u[e] \cup {e}
  <2>1. SUFFICES ASSUME NEW i \in 1..(n + m)
                 PROVE  u[r[i]] \subseteq u[e] \cup {e}
    OBVIOUS
  <2>2. CASE i <= n
    BY <1>3, <1>4, <2>2
  <2>3. CASE ~(i <= n)
    <3>1. i - n \in 1..m /\ r[i] = q[i - n]
      BY <1>3, <2>3
    <3>2. QED
      BY <1>5, <3>1
  <2>4. QED
    BY <2>2, <2>3
<1>8. Lineage(st, r, a, u, p)
  BY <1>3, <1>6, <1>7 DEF Lineage
<1>9. QED
  BY <1>2, <1>8

\* The batch of e is dropped.
LEMMA DroppedLineage ==
  ASSUME NEW p, NEW st, NEW q, NEW a \in [Events -> Seq(Events)], NEW u,
         Lineage(st, q, a, u, p), NEW e \in Events
  PROVE  Lineage(st, q, [a EXCEPT ![e] = <<>>], u, p)
<1>1. PICK b : b = [a EXCEPT ![e] = <<>>]
  OBVIOUS
<1>2. \A y \in Events : b[y] = IF y = e THEN <<>> ELSE a[y]
  BY <1>1
<1>3. \A f : ~Among(f, <<>>)
  BY EmptySeq DEF Among
<1>4. \A y, f \in Events : Among(f, b[y]) => Among(f, a[y])
  BY <1>2, <1>3
<1>5. Lineage(st, q, b, u, p)
  BY <1>4 DEF Lineage
<1>6. QED
  BY <1>1, <1>5

\* f is registered with the event that was taken last, for the first time or
\* with itself.
LEMMA RegisteredLineage ==
  ASSUME NEW p, NEW st, NEW q, NEW a, NEW u \in [Events -> SUBSET Events],
         Balanced(p, st, q, a, Events), Lineage(st, q, a, u, p),
         st # <<>>, NEW e \in Events, e = st[Len(st)],
         NEW f \in Events, p[f] = 0 \/ f = e
  PROVE  LET v == [u EXCEPT ![f] = u[e] \cup {e}]
         IN  /\ Lineage(st, q, [a EXCEPT ![e] = Append(@, f)], v, [p EXCEPT ![f] = @ + 1])
             /\ \A fl : InTime(st, u, fl) => InTime(st, v, fl)
<1>1. PICK v, b, r : /\ v = [u EXCEPT ![f] = u[e] \cup {e}]
                     /\ b = [a EXCEPT ![e] = Append(@, f)]
                     /\ r = [p EXCEPT ![f] = @ + 1]
  OBVIOUS
<1>2. /\ st \in Seq(Events) /\ q \in Seq(Events) /\ a[e] \in Seq(Events)
      /\ a \in [Events -> Seq(Events)] /\ p \in [Events -> Nat]
  BY DEF Balanced
<1>3. Len(st) \in Nat /\ Len(st) \in 1..Len(st)
  BY <1>2, LenProperties, EmptySeq
<1>4. /\ v[f] = u[e] \cup {e}
      /\ \A g \in Events \ {f} : v[g] = u[g]
      /\ \A g \in Events : r[g] = IF g = f THEN p[g] + 1 ELSE p[g]
      /\ \A y \in Events : b[y] = IF y = e THEN Append(a[e], f) ELSE a[y]
  BY <1>1, <1>2
<1>5. p[f] = 0 => u[f] = {}
  BY DEF Lineage
<1>6. v[e] \cup {e} = u[e] \cup {e} /\ \A g \in Events : u[g] \subseteq v[g]
  BY <1>4, <1>5
<1>7. Among(e, st)
  BY <1>3 DEF Among
\* The event was taken, so that a second time is under itself.
<1>8. p[e] # 0 /\ (f # e => p[f] = 0)
  BY <1>7, Placed
<1>9. p[e] \in Nat /\ (p[e] > 1 => e \in u[e])
  BY <1>2 DEF Lineage
<1>10. Among(e, q) \/ (\E y \in Events : Among(e, a[y])) => v[e] = u[e]
  <2>1. Among(e, q) \/ (\E y \in Events : Among(e, a[y])) => p[e] > 1
    BY <1>7, Placed
  <2>2. p[e] > 1 => u[e] \cup {e} = u[e]
    BY <1>9
  <2>3. f = e \/ v[e] = u[e]
    BY <1>4
  <2>4. QED
    BY <1>4, <2>1, <2>2, <2>3
<1>11. f # e => ~Among(f, q) /\ ~Among(f, st) /\ \A y \in Events : ~Among(f, a[y])
  BY <1>8, Placed
<1>12. \A g \in Events : Among(g, q) => v[g] = u[g]
  BY <1>4, <1>10, <1>11
<1>13. \A i \in 1..Len(q) : q[i] \in Events /\ v[q[i]] = u[q[i]]
  BY <1>2, <1>12, ElementOfSeq DEF Among
<1>14. \A g \in Events : (r[g] = 0 => v[g] = {}) /\ (r[g] > 1 => g \in v[g])
  <2>1. SUFFICES ASSUME NEW g \in Events
                 PROVE  (r[g] = 0 => v[g] = {}) /\ (r[g] > 1 => g \in v[g])
    OBVIOUS
  <2>2. p[g] \in Nat /\ (p[g] = 0 => u[g] = {}) /\ (p[g] > 1 => g \in u[g])
    BY <1>2 DEF Lineage
  <2>3. CASE g # f
    BY <1>4, <2>2, <2>3
  <2>4. CASE g = f /\ f # e
    BY <1>4, <1>8, <2>4
  <2>5. CASE g = f /\ f = e
    BY <1>4, <2>2, <2>5
  <2>6. QED
    BY <2>3, <2>4, <2>5
<1>15. \A y, g \in Events : Among(g, b[y]) =>
          v[g] = v[y] \cup {y} /\ Among(y, st) /\ (g # y => r[g] = 1)
  <2>1. SUFFICES ASSUME NEW y \in Events, NEW g \in Events, Among(g, b[y])
                 PROVE  v[g] = v[y] \cup {y} /\ Among(y, st) /\ (g # y => r[g] = 1)
    OBVIOUS
  <2>2. Among(g, a[y]) \/ (y = e /\ g = f)
    BY <1>2, <1>4, <2>1, AmongAppend
  <2>3. CASE y = e /\ g = f
    BY <1>4, <1>6, <1>7, <1>8, <2>3
  <2>4. CASE Among(g, a[y])
    <3>1. u[g] = u[y] \cup {y} /\ Among(y, st) /\ (g # y => p[g] = 1)
      BY <2>4 DEF Lineage
    <3>2. g # f \/ g = e
      BY <1>11, <2>4
    <3>3. v[g] = u[g]
      BY <1>4, <1>10, <2>4, <3>2
    <3>4. v[y] \cup {y} = u[y] \cup {y}
      <4>1. CASE y = e
        BY <1>6, <4>1
      <4>2. CASE y # e
        <5>1. y # f
          BY <1>11, <3>1, <4>2
        <5>2. QED
          BY <1>4, <5>1
      <4>3. QED
        BY <4>1, <4>2
    <3>5. g # y => r[g] = 1
      <4>1. g # y => g # e
        <5>1. CASE g = e
          <6>1. p[g] > 1
            BY <1>7, <2>4, <5>1, Placed
          <6>2. g = y
            BY <3>1, <6>1
          <6>3. QED
            BY <6>2
        <5>2. QED
          BY <5>1
      <4>2. QED
        BY <1>4, <3>1, <3>2, <4>1
    <3>6. QED
      BY <3>1, <3>3, <3>4, <3>5
  <2>5. QED
    BY <2>2, <2>3, <2>4
<1>16. \A i, j \in 1..Len(q) : i < j => v[q[j]] \subseteq v[q[i]] \cup {q[i]}
  <2>1. SUFFICES ASSUME NEW i \in 1..Len(q), NEW j \in 1..Len(q), i < j
                 PROVE  v[q[j]] \subseteq v[q[i]] \cup {q[i]}
    OBVIOUS
  <2>2. u[q[j]] \subseteq u[q[i]] \cup {q[i]}
    BY <2>1 DEF Lineage
  <2>3. QED
    BY <1>13, <2>2
<1>17. \A i \in 1..Len(q) : v[q[i]] \subseteq v[e] \cup {e}
  <2>1. SUFFICES ASSUME NEW i \in 1..Len(q)
                 PROVE  v[q[i]] \subseteq v[e] \cup {e}
    OBVIOUS
  <2>2. u[q[i]] \subseteq u[e] \cup {e}
    BY DEF Lineage
  <2>3. QED
    BY <1>6, <1>13, <2>2
<1>18. \A j \in 1..Len(st) : st[j] \in Events /\ u[st[j]] \subseteq v[st[j]]
  BY <1>2, <1>6, ElementOfSeq
<1>19. ASSUME NEW x \in v[e] \cup {e}
       PROVE  Follows(x, st, v)
  <2>1. Follows(x, st, u)
    <3>1. x \in u[e] \cup {e}
      BY <1>6, <1>19
    <3>2. QED
      BY <3>1 DEF Lineage
  <2>2. QED
    BY <1>18, <2>1 DEF Follows
<1>20. Lineage(st, q, b, v, r)
  BY <1>14, <1>15, <1>16, <1>17, <1>19 DEF Lineage
<1>21. ASSUME NEW fl, InTime(st, u, fl)
       PROVE  InTime(st, v, fl)
  <2>1. SUFFICES ASSUME NEW i \in 1..Len(st), NEW j \in 1..Len(st),
                        i < j, st[i] # st[j], st[i] \notin v[st[j]],
                        NEW g \in Events, st[i] \in v[g], v[g] \cap fl = {}
                 PROVE  \E k \in 1..j : st[k] = g
    BY DEF InTime
  <2>2. st[i] \notin u[st[j]]
    BY <1>18, <2>1
  <2>3. CASE st[i] \in u[g]
    <3>1. u[g] \cap fl = {}
      BY <1>6, <2>1
    <3>2. QED
      BY <1>21, <2>1, <2>2, <2>3, <3>1 DEF InTime
  <2>4. CASE st[i] \notin u[g]
    <3>1. st[i] \in u[e] \cup {e}
      BY <1>4, <2>1, <2>4
    <3>2. Follows(st[i], st, u)
      BY <3>1 DEF Lineage
    <3>3. QED
      BY <2>1, <2>2, <3>2 DEF Follows
  <2>5. QED
    BY <2>3, <2>4
<1>22. QED
  BY <1>1, <1>20, <1>21

\* The next event is taken, when every batch that waits is of an event whose
\* handling failed.
LEMMA TakenInTime ==
  ASSUME NEW p, NEW st, NEW q, NEW a, NEW u \in [Events -> SUBSET Events], NEW fl,
         Balanced(p, st, q, a, Events), Lineage(st, q, a, u, p), q # <<>>,
         InTime(st, u, fl), \A y \in Events : a[y] # <<>> => y \in fl
  PROVE  InTime(Append(st, Head(q)), u, fl)
<1>1. st \in Seq(Events) /\ q \in Seq(Events) /\ a \in [Events -> Seq(Events)]
  BY DEF Balanced
<1>2. PICK x, t, n : x = Head(q) /\ t = Append(st, x) /\ n = Len(st)
  OBVIOUS
<1>3. x \in Events /\ x = q[1] /\ Len(q) \in Nat \ {0}
  BY <1>1, <1>2, HeadTailProperties, LenProperties, EmptySeq
<1>4. /\ n \in Nat /\ Len(t) = n + 1 /\ t[n + 1] = x
      /\ \A i \in 1..n : t[i] = st[i]
  BY <1>1, <1>2, <1>3, AppendProperties, LenProperties
<1>5. SUFFICES ASSUME NEW i \in 1..(n + 1), NEW j \in 1..(n + 1),
                      i < j, t[i] # t[j], t[i] \notin u[t[j]],
                      NEW f \in Events, t[i] \in u[f], u[f] \cap fl = {}
               PROVE  \E k \in 1..j : t[k] = f
  <2>1. SUFFICES InTime(t, u, fl)
    BY <1>2
  <2>2. PICK m : m = Len(t) /\ m = n + 1
    BY <1>4
  <2>3. QED
    BY <2>2 DEF InTime
<1>6. i \in 1..n /\ (j \in 1..n \/ j = n + 1)
  BY <1>4, <1>5
<1>7. CASE j \in 1..n
  <2>1. i \in 1..Len(st) /\ j \in 1..Len(st) /\ t[i] = st[i] /\ t[j] = st[j]
    BY <1>2, <1>4, <1>6, <1>7
  <2>2. \E k \in 1..j : st[k] = f
    BY <1>5, <2>1 DEF InTime
  <2>3. \A k \in 1..j : k \in 1..n
    BY <1>4, <1>7
  <2>4. QED
    BY <1>4, <2>2, <2>3
<1>8. CASE j = n + 1
  <2>1. Among(f, t) => \E k \in 1..j : t[k] = f
    BY <1>4, <1>8 DEF Among
  <2>2. SUFFICES ASSUME ~Among(f, t) PROVE FALSE
    BY <2>1
  <2>3. ~Among(f, st) /\ f # x
    BY <1>1, <1>2, <1>3, <2>2, AmongAppend
  <2>4. p[f] # 0
    BY <1>5 DEF Lineage
  <2>5. Among(f, q) \/ \E y \in Events : Among(f, a[y])
    BY <2>3, <2>4, Placed
  <2>6. CASE \E y \in Events : Among(f, a[y])
    <3>1. PICK y \in Events : Among(f, a[y])
      BY <2>6
    <3>2. y \in u[f]
      BY <3>1 DEF Lineage
    <3>3. a[y] # <<>>
      BY <3>1, EmptySeq DEF Among
    <3>4. QED
      BY <1>5, <3>2, <3>3
  <2>7. CASE Among(f, q)
    <3>1. PICK k \in 1..Len(q) : q[k] = f
      BY <2>7 DEF Among
    <3>2. PICK l : l = 1
      OBVIOUS
    <3>3. l \in 1..Len(q) /\ l < k /\ q[l] = x
      BY <1>3, <2>3, <3>1, <3>2
    <3>4. u[f] \subseteq u[x] \cup {x}
      BY <3>1, <3>3 DEF Lineage
    <3>5. QED
      BY <1>4, <1>5, <1>8, <3>4
  <2>8. QED
    BY <2>5, <2>6, <2>7
<1>9. QED
  BY <1>6, <1>7, <1>8

\* The event the worker is at is the one taken last, and a batch belongs to it
\* or to an event whose handling failed.
Lines ==
    /\ Lineage(started, queue, afterwards, under, posts)
    /\ InTime(started, under, failed)
    /\ \A w \in Workers : ~Idle(w) => /\ started # <<>>
                                      /\ stack[w][1].event = started[Len(started)]
    /\ \A y \in Events : afterwards[y] # <<>> =>
          y \in failed \/ \E w \in Workers : ~Idle(w) /\ stack[w][1].event = y

LEMMA InitLines == Init => Lines
<1> SUFFICES ASSUME Init
             PROVE  Lines
  OBVIOUS
<1>1. PICK a, u, p : /\ a = afterwards /\ a = [e \in Events |-> <<>>]
                     /\ u = under /\ u = [e \in Events |-> {}]
                     /\ p = posts /\ p = [e \in Events |-> 0]
  BY DEF Init
<1>2. Len(<<>>) = 0 /\ 1..0 = {}
  BY EmptySeq
<1>3. \A y, f \in Events : ~Among(f, a[y])
  BY <1>1, <1>2 DEF Among
<1>4. Lineage(<<>>, <<>>, a, u, p)
  BY <1>1, <1>2, <1>3 DEF Lineage
<1>5. InTime(<<>>, u, failed)
  BY <1>2 DEF InTime
<1>6. \A w \in Workers : Idle(w)
  BY DEF Init, Idle
<1>7. \A y \in Events : afterwards[y] = <<>>
  BY <1>1
<1>8. QED
  BY <1>1, <1>4, <1>5, <1>6, <1>7 DEF Init, Lines

\* All calls of the thread are of the event of the first.
LEMMA TopIsFirst ==
  ASSUME IInv, Nesting, NEW w \in Workers, ~Idle(w)
  PROVE  Top(w).event \in Events /\ Top(w).event = stack[w][1].event
<1> DEFINE s == stack[w]
<1>1. /\ Sound(s) /\ s # <<>> /\ Top(w) = Last(s) /\ Top(w).event \in Events
  BY TopProperties
<1>2. Last(s) = s[Len(s)] /\ Len(s) \in Nat \ {0}
  BY <1>1, FrontTop DEF Sound
<1>3. PICK e : e = s[1].event
  OBVIOUS
<1>4. e \in Events
  BY <1>1, <1>2, <1>3, SoundSeq, FrameKinds
<1>5. NestedIds(s, e, current_id[e])
  BY <1>1, <1>3, <1>4 DEF Nesting
<1>6. s[Len(s)].event = e
  BY <1>2, <1>5 DEF NestedIds
<1>7. QED
  BY <1>1, <1>2, <1>3, <1>6

\* A busy thread stays in the calls of its event.
LEMMA MovesFirst ==
  ASSUME IInv, Nesting, NEW w \in Workers, ~Idle(w), Moves(w)
  PROVE  stack'[w] # <<>> => stack'[w][1].event = stack[w][1].event
<1>1. Top(w).event \in Events /\ Top(w).event = stack[w][1].event
  BY TopIsFirst
<1>2. PICK e : e = Top(w).event
  OBVIOUS
<1>3. NestedIds(stack[w], e, current_id[e])
  BY <1>1, <1>2 DEF Nesting, Idle
<1>4. PICK t : /\ stack' = [stack EXCEPT ![w] = t] /\ Sound(t)
               /\ NestedIds(t, e, current_id'[e])
  BY <1>2, <1>3 DEF Moves
<1>5. stack'[w] = t
  BY <1>4 DEF IInv, Stacks
<1>6. t # <<>> => 1 \in 1..Len(t)
  <2>1. Len(t) \in Nat /\ (t # <<>> => Len(t) # 0)
    BY <1>4, LenProperties, EmptySeq DEF Sound
  <2>2. QED
    BY <2>1
<1>7. QED
  BY <1>1, <1>2, <1>4, <1>5, <1>6 DEF NestedIds

\* One thread, busy before the step.
LEMMA BusyLines ==
  ASSUME IInv, Nesting, Lines, OneThread, NEW w \in Workers, ~Idle(w), Moves(w),
         UNCHANGED started,
         Lineage(started, queue', afterwards', under', posts'),
         InTime(started, under', failed'),
         failed \subseteq failed',
         \A y \in Events \ {Top(w).event} : afterwards'[y] # <<>> => afterwards[y] # <<>>,
         stack'[w] = <<>> => \/ Top(w).event \in failed'
                             \/ afterwards'[Top(w).event] = <<>>
  PROVE  Lines'
<1>1. PICK e : e = Top(w).event /\ e \in Events /\ e = stack[w][1].event
  BY TopIsFirst
<1>2. Workers = {w}
  BY DEF OneThread
<1>3. started # <<>> /\ e = started[Len(started)]
  BY <1>1 DEF Lines
<1>4. Idle(w)' \/ stack'[w][1].event = e
  BY <1>1, MovesFirst DEF Idle
<1>5. Idle(w)' => stack'[w] = <<>>
  BY DEF Idle
<1>6. \A v \in Workers : ~Idle(v)' => /\ started # <<>>
                                      /\ stack'[v][1].event = started[Len(started)]
  BY <1>2, <1>3, <1>4
<1>7. ASSUME NEW y \in Events, afterwards'[y] # <<>>
      PROVE  y \in failed' \/ \E v \in Workers : ~Idle(v)' /\ stack'[v][1].event = y
  <2>1. CASE y = e
    BY <1>1, <1>4, <1>5, <1>7, <2>1
  <2>2. CASE y # e
    <3>1. afterwards[y] # <<>>
      BY <1>1, <1>7, <2>2
    <3>2. y \in failed
      BY <1>1, <1>2, <2>2, <3>1 DEF Lines
    <3>3. QED
      BY <3>2
  <2>3. QED
    BY <2>1, <2>2
<1>8. QED
  BY <1>6, <1>7 DEF Lines

LEMMA QuietLines ==
  ASSUME IInv, Nesting, Lines, OneThread, NEW w \in Workers, ~Idle(w), Moves(w),
         UNCHANGED <<started, queue, afterwards, under, posts, failed>>,
         stack'[w] # <<>>
  PROVE  Lines'
<1>1. /\ Lineage(started, queue, afterwards, under, posts)
      /\ InTime(started, under, failed)
  BY DEF Lines
<1>2. QED
  BY <1>1, BusyLines

LEMMA CallLines ==
  ASSUME IInv, Nesting, Lines, OneThread, NEW w \in Workers, ~Idle(w), Moves(w),
         NEW r \in Seq(Frames), NEW id \in AllIds, CallHandleAs(w, r, Top(w).event, id),
         UNCHANGED <<started, queue, afterwards, under, posts, failed>>
  PROVE  Lines'
<1> DEFINE e == Top(w).event
           f == [fn |-> "handle_as", event |-> e, as |-> id, original |-> current_id[e]]
<1>1. f \in Frames
  <2>1. e \in Events /\ current_id[e] \in AllIds \cup {None}
    BY TopProperties
  <2>2. QED
    BY <2>1, FrameKinds DEF HandleAsFrames
<1>2. stack'[w] = Append(r, f)
  BY DEF CallHandleAs, IInv, Stacks
<1>3. Append(r, f) # <<>>
  BY <1>1, AppendTop
<1>4. QED
  BY <1>2, <1>3, QuietLines

LEMMA QueueAfterwardsLines ==
  ASSUME IInv, Nesting, Books, Lines, OneThread, NEW w \in Workers, QueueAfterwards(w)
  PROVE  Lines'
<1>1. /\ ~Idle(w) /\ Moves(w) /\ Top(w).fn = "handle" /\ Top(w).at = "afterwards"
      /\ stack' = [stack EXCEPT ![w] = GoneTo(w, "remove", Top(w).dirty)]
      /\ UNCHANGED <<afterwards, started, under, posts, failed>>
  BY QueuesAfterwards DEF QueueAfterwards, InHandle, history
<1>2. PICK e : e = Top(w).event /\ e \in Events /\ e = stack[w][1].event
  BY <1>1, TopIsFirst
<1>3. queue' = afterwards[e] \o queue
  BY <1>2 DEF QueueAfterwards
<1>4. Top(w).dirty \in BOOLEAN
  BY <1>1, TopProperties DEF HandleFrames
<1>5. GoneTo(w, "remove", Top(w).dirty) # <<>> /\ NoneRemoves(stack[w])
  BY <1>1, <1>4, GoneToBooks
<1>6. stack'[w] # <<>>
  BY <1>1, <1>5 DEF IInv, Stacks
<1>7. Balanced(posts, started, queue, afterwards, Events)
  BY <1>5 DEF Books, Keeping
<1>8. started # <<>> /\ e = started[Len(started)] /\ InTime(started, under, failed)
      /\ Lineage(started, queue, afterwards, under, posts)
  BY <1>1, <1>2 DEF Lines
<1>9. Lineage(started, afterwards[e] \o queue, afterwards, under, posts)
  BY <1>2, <1>7, <1>8, BatchLineage
<1>10. Lineage(started, queue', afterwards', under', posts')
  BY <1>1, <1>3, <1>9
<1>11. InTime(started, under', failed')
  BY <1>1, <1>8
<1>12. QED
  BY <1>1, <1>6, <1>10, <1>11, BusyLines

LEMMA ReturnFromHandleLines ==
  ASSUME IInv, Nesting, Lines, OneThread, NEW w \in Workers, ReturnFromHandle(w)
  PROVE  Lines'
<1>1. /\ ~Idle(w) /\ Moves(w)
      /\ UNCHANGED <<queue, started, under, posts, failed>>
  BY ReturnsFromHandle DEF ReturnFromHandle, history
<1>2. PICK e : e = Top(w).event /\ e \in Events
  BY <1>1, TopIsFirst
<1>3. afterwards' = [afterwards EXCEPT ![e] = <<>>] /\ afterwards \in [Events -> Seq(Events)]
  BY <1>2 DEF ReturnFromHandle, IInv, Data
<1>4. Lineage(started, queue, afterwards, under, posts) /\ InTime(started, under, failed)
  BY DEF Lines
<1>5. Lineage(started, queue, [afterwards EXCEPT ![e] = <<>>], under, posts)
  BY <1>2, <1>3, <1>4, DroppedLineage
<1>6. Lineage(started, queue', afterwards', under', posts')
  BY <1>1, <1>3, <1>5
<1>7. InTime(started, under', failed')
  BY <1>1, <1>4
<1>8. /\ \A y \in Events \ {e} : afterwards'[y] = afterwards[y]
      /\ afterwards'[e] = <<>>
  BY <1>2, <1>3
<1>9. QED
  BY <1>1, <1>2, <1>6, <1>7, <1>8, BusyLines

\* handle_as() ends, and by an exception the handle() that called it, too.
LEMMA ReturnLines ==
  ASSUME IInv, Nesting, Lines, OneThread, NEW w \in Workers, Return(w)
  PROVE  Lines'
<1>1. /\ ~Idle(w) /\ Moves(w) /\ Top(w).fn = "handle_as"
      /\ UNCHANGED <<queue, afterwards, started, under, posts>>
  BY ReturnsFromHandleAs DEF Return, ReturnFromHandleAs, Throw, InHandler, history
<1>2. Lineage(started, queue, afterwards, under, posts) /\ InTime(started, under, failed)
  BY DEF Lines
<1>3. failed \subseteq failed' /\ (stack'[w] = <<>> => Top(w).event \in failed')
  <2>1. CASE ReturnFromHandleAs(w)
    <3>1. failed' = failed /\ stack'[w] = Front(stack[w])
      BY <2>1 DEF ReturnFromHandleAs, history, IInv, Stacks
    <3>2. Front(stack[w]) # <<>>
      <4>1. PICK s : s = stack[w] /\ s \in Seq(Frames) /\ s # <<>> /\ Sound(s) /\ Top(w) = Last(s)
        BY <1>1, TopProperties DEF Sound
      <4>2. /\ s[1].fn = "handle" /\ Last(s) = s[Len(s)]
            /\ Len(Front(s)) = Len(s) - 1 /\ Len(s) \in Nat \ {0}
        BY <4>1, FrontTop DEF Sound
      <4>3. Len(s) # 1
        BY <1>1, <4>1, <4>2
      <4>4. Len(Front(s)) # 0 /\ Len(<<>>) = 0
        BY <4>2, <4>3, EmptySeq
      <4>5. QED
        BY <4>1, <4>4
    <3>3. QED
      BY <3>1, <3>2
  <2>2. CASE Throw(w)
    BY <2>2 DEF Throw, IInv, Stacks
  <2>3. QED
    BY <2>1, <2>2 DEF Return
<1>4. InTime(started, under, failed')
  BY <1>2, <1>3 DEF InTime
<1>5. Lineage(started, queue', afterwards', under', posts')
  BY <1>1, <1>2
<1>6. InTime(started, under', failed')
  BY <1>1, <1>4
<1>7. QED
  BY <1>1, <1>3, <1>5, <1>6, BusyLines

LEMMA AfterwardsLines ==
  ASSUME IInv, Nesting, Books, Lines, OneThread, NEW w \in Workers, NEW f \in Events,
         Afterwards(w, f)
  PROVE  Lines'
<1>1. /\ InHandler(w) /\ ~Idle(w) /\ UNCHANGED <<queue, started, stack, failed>>
  BY DEF Afterwards, Act, InHandler
<1>2. PICK e : e = Top(w).event /\ e \in Events /\ e = stack[w][1].event
  BY <1>1, TopIsFirst
<1>3. /\ posts[f] = 0 \/ f = e
      /\ afterwards' = [afterwards EXCEPT ![e] = Append(@, f)]
      /\ posts' = [posts EXCEPT ![f] = @ + 1]
      /\ under' = [under EXCEPT ![f] = under[e] \cup {e}]
  BY <1>2 DEF Afterwards, Fresh
<1>4. /\ started # <<>> /\ e = started[Len(started)]
      /\ Lineage(started, queue, afterwards, under, posts)
      /\ InTime(started, under, failed)
  BY <1>1, <1>2 DEF Lines
<1>5. Balanced(posts, started, queue, afterwards, Events)
  BY <1>1, HandlerTop
<1>6. under \in [Events -> SUBSET Events] /\ afterwards \in [Events -> Seq(Events)]
  BY DEF IInv, Data
<1>7. PICK v, b, r : /\ v = [under EXCEPT ![f] = under[e] \cup {e}]
                     /\ b = [afterwards EXCEPT ![e] = Append(@, f)]
                     /\ r = [posts EXCEPT ![f] = @ + 1]
  OBVIOUS
<1>8. Lineage(started, queue, b, v, r) /\ InTime(started, v, failed)
  BY <1>2, <1>3, <1>4, <1>5, <1>6, <1>7, RegisteredLineage
<1>9. Lineage(started', queue', afterwards', under', posts')
      /\ InTime(started', under', failed')
  BY <1>1, <1>3, <1>7, <1>8
<1>10. \A y \in Events \ {e} : afterwards'[y] = afterwards[y]
  BY <1>3, <1>6
<1>11. \A y \in Events : afterwards'[y] # <<>> =>
          y \in failed \/ \E v1 \in Workers : ~Idle(v1) /\ stack[v1][1].event = y
  BY <1>1, <1>2, <1>10 DEF Lines
<1>12. \A v1 \in Workers : Idle(v1)' <=> Idle(v1)
  BY <1>1 DEF Idle
<1>13. QED
  BY <1>1, <1>9, <1>11, <1>12 DEF Lines

LEMMA TakeLines ==
  ASSUME IInv, Books, Lines, OneThread, NEW w \in Workers, TakeEvent(w)
  PROVE  Lines'
<1>1. /\ stack[w] = <<>> /\ queue # <<>> /\ Idle(w)
      /\ stack' = [stack EXCEPT ![w] = <<HandleCall(Head(queue))>>]
      /\ queue' = Tail(queue) /\ started' = Append(started, Head(queue))
      /\ UNCHANGED <<posts, afterwards, under, failed>>
  BY DEF TakeEvent, Idle
<1>2. Keeping(<<>>) = Events
  BY SettledEmpty DEF Keeping
<1>3. Balanced(posts, started, queue, afterwards, Events)
  BY <1>1, <1>2 DEF Books
<1>4. Workers = {w}
  BY DEF OneThread
<1>5. /\ Lineage(started, queue, afterwards, under, posts)
      /\ InTime(started, under, failed)
      /\ \A y \in Events : afterwards[y] # <<>> => y \in failed
  BY <1>1, <1>4 DEF Lines
<1>6. Lineage(Append(started, Head(queue)), Tail(queue), afterwards, under, posts)
  <2>1. Events \in SUBSET Events
    OBVIOUS
  <2>2. QED
    BY <1>1, <1>3, <1>5, <2>1, TakenLineage
<1>7. under \in [Events -> SUBSET Events] /\ started \in Seq(Events) /\ queue \in Seq(Events)
  BY DEF IInv, Data
<1>8. InTime(Append(started, Head(queue)), under, failed)
  BY <1>1, <1>3, <1>5, <1>7, TakenInTime
<1>9. PICK x, t : x = Head(queue) /\ t = Append(started, x)
  OBVIOUS
<1>10. t # <<>> /\ t[Len(t)] = x
  <2>1. x \in Events
    BY <1>1, <1>7, <1>9, HeadTailProperties
  <2>2. Len(t) = Len(started) + 1 /\ t[Len(started) + 1] = x /\ Len(started) \in Nat
    BY <1>7, <1>9, <2>1, AppendProperties, LenProperties
  <2>3. QED
    BY <2>2, EmptySeq
<1>11. stack'[w] = <<HandleCall(x)>> /\ stack'[w][1].event = x
  <2>1. stack'[w] = <<HandleCall(x)>>
    BY <1>1, <1>9 DEF IInv, Stacks
  <2>2. PICK f : f = HandleCall(x)
    OBVIOUS
  <2>3. <<f>>[1] = f
    OBVIOUS
  <2>4. f.event = x
    BY <2>2 DEF HandleCall
  <2>5. QED
    BY <2>1, <2>2, <2>3, <2>4
<1>12. started' = t
  BY <1>1, <1>9
<1>13. Lineage(started', queue', afterwards', under', posts')
       /\ InTime(started', under', failed')
  BY <1>1, <1>6, <1>8
<1>14. QED
  BY <1>1, <1>4, <1>5, <1>10, <1>11, <1>12, <1>13 DEF Lines

LEMMA QueueLines ==
  ASSUME IInv, Books, Lines, OneThread, NEW f \in Events, Queue(f)
  PROVE  Lines'
<1>1. /\ posts[f] = 0 /\ queue' = Append(queue, f) /\ posts' = [posts EXCEPT ![f] = 1]
      /\ UNCHANGED <<stack, started, afterwards, under, failed>>
  BY DEF Queue, Fresh
<1>2. PICK w \in Workers : TRUE
  BY DEF OneThread
<1>3. PICK K \in SUBSET Events : Balanced(posts, started, queue, afterwards, K)
  <2>1. Keeping(stack[w]) \in SUBSET Events
    BY DEF Keeping
  <2>2. QED
    BY <2>1 DEF Books
<1>4. Lineage(started, queue, afterwards, under, posts)
  BY DEF Lines
<1>5. Lineage(started, Append(queue, f), afterwards, under, [posts EXCEPT ![f] = 1])
  BY <1>1, <1>3, <1>4, QueuedLineage
<1>6. Lineage(started', queue', afterwards', under', posts')
  BY <1>1, <1>5
<1>7. \A v \in Workers : Idle(v)' <=> Idle(v)
  BY <1>1 DEF Idle
<1>8. QED
  BY <1>1, <1>6, <1>7 DEF Lines

LEMMA HandleStepLines ==
  ASSUME IInv, Nesting, Books, Lines, OneThread, NEW w \in Workers, HandleStep(w)
  PROVE  Lines'
<1>1. ~Idle(w) /\ Top(w).fn = "handle"
  BY DEF HandleStep, BeginHandling, HandleNextId, FinishingHandling, FinishedHandling,
         QueueAfterwards, ReturnFromHandle, Returning, InHandle
<1>2. Top(w) \in HandleFrames /\ Top(w).event \in Events /\ Top(w).dirty \in BOOLEAN
  <2>1. Top(w) \in HandleFrames /\ Top(w).event \in Events
    BY <1>1, TopProperties
  <2>2. QED
    BY <2>1 DEF HandleFrames
<1>3. HandlingIds \subseteq AllIds
  BY DEF AllIds
<1>4. ASSUME Top(w).at # "remove", NEW at \in {"ids", "check", "afterwards"},
             NEW dirty \in BOOLEAN, NEW id \in AllIds, Moves(w),
             CallHandleAs(w, GoneTo(w, at, dirty), Top(w).event, id),
             UNCHANGED <<started, queue, afterwards, under, posts, failed>>
      PROVE  Lines'
  <2>1. GoneTo(w, at, dirty) \in Seq(Frames)
    BY <1>1, <1>4, GoneToBooks
  <2>2. QED
    BY <1>1, <1>4, <2>1, CallLines
<1>5. CASE BeginHandling(w)
  <2>1. Moves(w)
    BY <1>5, BeginsHandling
  <2>2. QED
    BY <1>3, <1>4, <1>5, <2>1 DEF BeginHandling, InHandle, HandlingIds, history
<1>6. CASE HandleNextId(w)
  <2>1. Head(pending[Top(w).event]) \in AllIds
    BY <1>2, <1>6, HeadTailProperties DEF HandleNextId, IInv, Data, AllIds
  <2>2. Moves(w)
    BY <1>6, HandlesNextId
  <2>3. QED
    BY <1>4, <1>6, <2>1, <2>2 DEF HandleNextId, InHandle, history
<1>7. CASE FinishingHandling(w)
  <2>1. Moves(w)
    BY <1>7, FinishesHandling
  <2>2. QED
    BY <1>3, <1>4, <1>7, <2>1 DEF FinishingHandling, InHandle, HandlingIds, history
<1>8. CASE FinishedHandling(w)
  <2>1. Moves(w)
    BY <1>8, FinishesHandling
  <2>2. QED
    BY <1>2, <1>3, <1>4, <1>8, <2>1 DEF FinishedHandling, InHandle, HandlingIds, history
<1>9. QED
  BY <1>5, <1>6, <1>7, <1>8, QueueAfterwardsLines, ReturnFromHandleLines DEF HandleStep

\* Handlers that call handle_as() or handle() again.
LEMMA NestedLines ==
  ASSUME IInv, Nesting, Lines, OneThread, NEW w \in Workers,
         NestedHandle(w) \/ \E id \in Ids : NestedHandleAs(w, id)
  PROVE  Lines'
<1>1. /\ ~Idle(w) /\ Moves(w)
      /\ UNCHANGED <<started, queue, afterwards, under, posts, failed>>
  BY CallsNested DEF NestedHandle, NestedHandleAs, history
<1>2. stack[w] \in Seq(Frames) /\ Top(w).event \in Events
  BY <1>1, TopProperties DEF Sound
<1>3. CASE NestedHandle(w)
  <2>1. PICK f : f = HandleCall(Top(w).event) /\ f \in Frames
    <3>1. HandleCall(Top(w).event) \in Frames
      BY <1>2, FrameKinds DEF HandleFrames, HandleCall
    <3>2. QED
      BY <3>1
  <2>2. stack'[w] = Append(stack[w], f)
    BY <1>3, <2>1 DEF NestedHandle, IInv, Stacks
  <2>3. Append(stack[w], f) # <<>>
    BY <1>2, <2>1, AppendTop
  <2>4. QED
    BY <1>1, <2>2, <2>3, QuietLines
<1>4. CASE \E id \in Ids : NestedHandleAs(w, id)
  <2>1. PICK id \in AllIds : CallHandleAs(w, stack[w], Top(w).event, id)
    BY <1>4 DEF NestedHandleAs, AllIds
  <2>2. QED
    BY <1>1, <1>2, <2>1, CallLines
<1>5. QED
  BY <1>3, <1>4

LEMMA NextLines ==
  ASSUME IInv, Nesting, Books, Lines, OneThread, [Next]_vars
  PROVE  Lines'
<1>1. ASSUME UNCHANGED <<stack, posts, started, queue, afterwards, under, failed>>
      PROVE  Lines'
  BY <1>1 DEF Lines, Idle
<1>2. CASE UNCHANGED vars
  BY <1>1, <1>2 DEF vars, history
<1>3. CASE \E f \in Events : Queue(f)
  BY <1>3, QueueLines
<1>4. CASE \E w \in Workers : TakeEvent(w)
  BY <1>4, TakeLines
<1>5. CASE \E w \in Workers : HandleStep(w)
  BY <1>5, HandleStepLines
<1>6. CASE \E w \in Workers : HandlerStep(w)
  <2>1. PICK w \in Workers : HandlerStep(w)
    BY <1>6
  <2>2. CASE \E id \in Ids : QueueAs(w, id)
    BY <1>1, <2>2 DEF QueueAs, history
  <2>3. QED
    BY <2>1, <2>2, AfterwardsLines, NestedLines DEF HandlerStep
<1>7. CASE \E w \in Workers : Return(w)
  BY <1>7, ReturnLines
<1>8. QED
  BY <1>2, <1>3, <1>4, <1>5, <1>6, <1>7 DEF Next

\* What is registered with event::afterwards, directly or by events so
\* registered, is taken before the next event of the main queue (event.hpp:712),
\* unless an exception ended the handling of an event it is registered under:
\* for one thread, whatever handlers register, handle again and throw.
THEOREM AfterwardsComeFirst ==
  ASSUME OneThread
  PROVE  Spec => []AfterwardsBeforeNext
<1> DEFINE Inv == IInv /\ Nesting /\ Books /\ Lines
<1>1. Init => Inv
  BY InitIInv, InitBooks, InitLines
<1>2. Inv /\ [Next]_vars => Inv'
  BY NextStep, NextBooks, NextLines
<1>3. Inv => AfterwardsBeforeNext
  <2> SUFFICES ASSUME IInv, InTime(started, under, failed)
               PROVE  AfterwardsBeforeNext
    BY DEF Lines
  <2>1. DOMAIN started = 1..Len(started)
    BY LenProperties DEF IInv, Data
  <2>2. QED
    BY <2>1 DEF InTime, AfterwardsBeforeNext
<1> HIDE DEF Inv
<1>4. QED
  BY <1>1, <1>2, <1>3, PTL DEF Spec
=============================================================================
