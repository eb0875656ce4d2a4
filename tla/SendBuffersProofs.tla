------------------------- MODULE SendBuffersProofs -------------------------
(***************************************************************************)
(* Proofs about SendBuffers for a client that runs the handlers itself,    *)
(* for every set of lengths and all bounds.  Without this assumption       *)
(* NoJobMeansAllSent is wrong: run send_buffers_race is the counterexample. *)
(***************************************************************************)
EXTENDS SendBuffers, SequenceTheorems, TLAPS

----------------------------------------------------------------------------
(* The inductive invariant                                                 *)

Types ==
    /\ curstate \in {"disconnected", "connected"}
    /\ send_buffer \in Seq(Nat)
    /\ fill_buffer \in Seq(Nat)
    /\ current_send_state \in 0..bytes
    /\ send_job_running \in BOOLEAN
    /\ write \in Seq(Nat)
    /\ result \in [ok : BOOLEAN, sent : 0..MaxBytes, due : BOOLEAN]
    /\ pc \in [Threads -> {"idle", "appended", "send", "start"}]
    /\ sessions \in 0..MaxSessions
    /\ bytes \in 0..MaxBytes
    /\ given \in Seq(Nat)
    /\ wire \in Seq(Nat)
    /\ wild = FALSE
    /\ curstate = "connected" \/ current_send_state # 0 => sessions >= 1

\* One thread at a time is in send_raw() or a handler, while connected.
OneCall ==
    /\ \A t, u \in Threads : pc[t] # "idle" /\ pc[u] # "idle" => t = u
    /\ \A t \in Threads : pc[t] # "idle" => curstate = "connected"
    /\ pc["io"] # "appended"

Sending == \E t \in Threads : pc[t] \in {"send", "start"}

\* The job is a thread in send(), a write, or the handler of one: one of them.
JobState ==
    /\ curstate = "connected" /\ Sending =>
           send_job_running /\ write = <<>> /\ ~result.due
    /\ curstate = "connected" /\ ~Sending =>
           /\ send_job_running <=> write # <<>> \/ result.due
           /\ ~(write # <<>> /\ result.due)
    /\ curstate = "disconnected" =>
           write = <<>> /\ send_buffer = <<>> /\ fill_buffer = <<>>
    /\ result.sent # 0 => result.due

\* The job does not end before both buffers are sent.
NothingLeft ==
    /\ curstate = "connected" /\ ~send_job_running =>
           AtEnd /\ (pc["client"] # "appended" => fill_buffer = <<>>)
    /\ \A t \in Threads : pc[t] = "start" /\ AtEnd => fill_buffer = <<>>

\* The bytes given that have left the buffers.
Before == Len(given) - Len(send_buffer) - Len(fill_buffer)

\* What was given is what was sent, the rest of send_buffer, and fill_buffer.
Stream ==
    /\ Len(given) <= bytes
    /\ \A i \in 1..Len(given) : given[i] \in 1..bytes
    /\ Len(wire) <= Len(given)
    /\ \A i \in 1..Len(wire) : wire[i] = given[i]

Buffered ==
    curstate = "connected" =>
        /\ Before >= 0
        /\ current_send_state + result.sent <= Len(send_buffer)
        /\ Len(wire) = Before + current_send_state + result.sent
        /\ \A i \in 1..Len(send_buffer) : send_buffer[i] = given[Before + i]
        /\ \A i \in 1..Len(fill_buffer) :
               fill_buffer[i] = given[Before + Len(send_buffer) + i]

\* The write takes the rest of send_buffer.
WriteIsRest ==
    write # <<>> =>
        /\ Len(write) = Len(send_buffer) - current_send_state
        /\ \A i \in 1..Len(write) : write[i] = send_buffer[current_send_state + i]

IInv ==
    /\ Types
    /\ OneCall
    /\ JobState
    /\ NothingLeft
    /\ Stream
    /\ Buffered
    /\ WriteIsRest

\* A connection that follows one whose buffer was cut off: its send_buffer is
\* empty and the cursor behind the end, so nothing is swapped, and its first
\* write begins there.
Astray ==
    /\ curstate = "connected"
    /\ send_buffer = <<>> /\ write = <<>> /\ wire = <<>>
    /\ given \in Seq(Nat) /\ fill_buffer = given
    /\ current_send_state \in 1..bytes
    /\ send_job_running \in BOOLEAN
    /\ result \in [ok : BOOLEAN, sent : 0..MaxBytes, due : BOOLEAN]
    /\ ~result.due /\ result.sent = 0
    /\ pc \in [Threads -> {"idle", "appended", "send", "start"}]
    /\ sessions \in 2..MaxSessions
    /\ bytes \in 0..MaxBytes
    /\ wild \in BOOLEAN
    /\ OneCall
    /\ Stream
    /\ wild => send_job_running
    /\ ~wild => (send_job_running <=> Sending)
    /\ ~wild /\ ~send_job_running /\ pc["client"] # "appended" => given = <<>>

SInv == IInv \/ Astray

----------------------------------------------------------------------------
(* Facts about sequences                                                   *)

LEMMA EmptyBuffer ==
    /\ <<>> \in Seq(Nat)
    /\ Len(<<>>) = 0
    /\ \A s \in Seq(Nat) : Len(s) \in Nat /\ (s = <<>> <=> Len(s) = 0)
  BY EmptySeq, LenProperties

\* The bytes of one call of send_raw().
LEMMA DataProperties ==
  ASSUME NEW b \in Nat, NEW n \in Nat
  PROVE  LET data == [i \in 1..n |-> b + i] IN
         /\ data \in Seq(Nat)
         /\ Len(data) = n
         /\ \A i \in 1..n : data[i] = b + i
<1> DEFINE data == [i \in 1..n |-> b + i]
<1>1. data \in [1..n -> Nat]
  OBVIOUS
<1>2. data \in Seq(Nat)
  BY <1>1, SeqDef
<1>3. Len(data) \in Nat /\ 1..Len(data) = 1..n
  BY <1>1, <1>2, LenProperties
<1>4. Len(data) = n
  BY <1>3
<1>5. QED
  BY <1>2, <1>4

\* What is left of a sequence from one place on.
LEMMA RestProperties ==
  ASSUME NEW s \in Seq(Nat), NEW k \in Nat, k <= Len(s)
  PROVE  /\ SubSeq(s, k + 1, Len(s)) \in Seq(Nat)
         /\ Len(SubSeq(s, k + 1, Len(s))) = Len(s) - k
         /\ \A i \in 1..(Len(s) - k) : SubSeq(s, k + 1, Len(s))[i] = s[k + i]
<1>1. Len(s) \in Nat /\ \A i \in 1..Len(s) : s[i] \in Nat
  BY LenProperties, ElementOfSeq
<1>2. k + 1 \in Int /\ Len(s) \in Int /\ \A i \in (k + 1)..Len(s) : s[i] \in Nat
  BY <1>1
<1>3. /\ SubSeq(s, k + 1, Len(s)) \in Seq(Nat)
      /\ Len(SubSeq(s, k + 1, Len(s))) =
             IF k + 1 <= Len(s) THEN Len(s) - (k + 1) + 1 ELSE 0
      /\ \A i \in 1..(Len(s) - (k + 1) + 1) :
             SubSeq(s, k + 1, Len(s))[i] = s[(k + 1) + i - 1]
  BY <1>2, SubSeqProperties
<1>4. QED
  BY <1>1, <1>3

LEMMA FirstProperties ==
  ASSUME NEW s \in Seq(Nat), NEW n \in 0..Len(s)
  PROVE  /\ SubSeq(s, 1, n) \in Seq(Nat)
         /\ Len(SubSeq(s, 1, n)) = n
         /\ \A i \in 1..n : SubSeq(s, 1, n)[i] = s[i]
<1>1. Len(s) \in Nat /\ \A i \in 1..Len(s) : s[i] \in Nat
  BY LenProperties, ElementOfSeq
<1>2. /\ SubSeq(s, 1, n) \in Seq(Nat)
      /\ Len(SubSeq(s, 1, n)) = IF 1 <= n THEN n - 1 + 1 ELSE 0
      /\ \A i \in 1..(n - 1 + 1) : SubSeq(s, 1, n)[i] = s[1 + i - 1]
  BY <1>1, SubSeqProperties
<1>3. QED
  BY <1>1, <1>2

\* Two sequences in a row.
LEMMA RowProperties ==
  ASSUME NEW s \in Seq(Nat), NEW t \in Seq(Nat)
  PROVE  /\ s \o t \in Seq(Nat)
         /\ Len(s \o t) = Len(s) + Len(t)
         /\ \A i \in 1..Len(s) : (s \o t)[i] = s[i]
         /\ \A i \in 1..Len(t) : (s \o t)[Len(s) + i] = t[i]
<1> DEFINE row == s \o t
<1>1. /\ row \in Seq(Nat)
      /\ Len(row) = Len(s) + Len(t)
      /\ \A i \in 1..Len(s) + Len(t) :
             row[i] = IF i <= Len(s) THEN s[i] ELSE t[i - Len(s)]
  BY ConcatProperties
<1>2. Len(s) \in Nat /\ Len(t) \in Nat
  BY LenProperties
<1> HIDE DEF row
<1>3. ASSUME NEW i \in 1..Len(s) PROVE row[i] = s[i]
  <2>1. i \in 1..Len(s) + Len(t) /\ i <= Len(s)
    BY <1>2
  <2>2. QED
    BY <1>1, <2>1
<1>4. ASSUME NEW i \in 1..Len(t) PROVE row[Len(s) + i] = t[i]
  <2> DEFINE j == Len(s) + i
  <2>1. j \in 1..Len(s) + Len(t) /\ ~(j <= Len(s)) /\ j - Len(s) = i
    BY <1>2
  <2> HIDE DEF j
  <2>2. row[j] = t[i]
    BY <1>1, <2>1
  <2>3. QED
    BY <2>2 DEF j
<1>5. QED
  BY <1>1, <1>3, <1>4 DEF row

\* A sequence whose elements are in S.
LEMMA ElementsIn ==
  ASSUME NEW S, NEW s \in Seq(Nat), \A i \in 1..Len(s) : s[i] \in S
  PROVE  s \in Seq(S)
<1>1. Len(s) \in Nat /\ s \in [1..Len(s) -> Nat]
  BY LenProperties
<1>2. s \in [1..Len(s) -> S]
  BY <1>1
<1>3. QED
  BY <1>1, <1>2, SeqDef

----------------------------------------------------------------------------
(* The steps preserve the invariant                                        *)

LEMMA InitIInv == Init => IInv
<1>1. SUFFICES ASSUME Init PROVE IInv
  OBVIOUS
<1>2. Types
  <2>1. 0 \in 0..MaxBytes /\ 0 \in 0..MaxSessions
    BY SendAssumption DEF SendAssumption
  <2>2. result \in [ok : BOOLEAN, sent : 0..MaxBytes, due : BOOLEAN]
    BY <1>1, <2>1 DEF Init, NoResult
  <2>3. pc \in [Threads -> {"idle", "appended", "send", "start"}]
    BY <1>1 DEF Init
  <2>4. current_send_state \in 0..bytes
    BY <1>1 DEF Init
  <2>5. QED
    BY <1>1, <2>1, <2>2, <2>3, <2>4, EmptyBuffer DEF Init, Types
<1>3. OneCall /\ JobState /\ NothingLeft
  BY <1>1 DEF Init, OneCall, JobState, NothingLeft, Sending, NoResult, Threads
<1>4. Stream /\ Buffered /\ WriteIsRest
  BY <1>1, EmptyBuffer DEF Init, Stream, Buffered, WriteIsRest
<1>5. QED
  BY <1>2, <1>3, <1>4 DEF IInv

LEMMA SwapStep ==
  ASSUME IInv, NEW t \in Threads, Swap(t)
  PROVE  IInv'
<1>1. /\ curstate = "connected" /\ Sending /\ write = <<>> /\ ~result.due
      /\ result.sent = 0 /\ send_job_running
  BY DEF IInv, Types, OneCall, JobState, Sending, Swap
<1>2. pc' = [pc EXCEPT ![t] = "start"] /\ pc[t] = "send"
  BY DEF Swap
<1>3. Types'
  <2>1. current_send_state' \in 0..bytes
    BY DEF IInv, Types, Swap
  <2>2. send_buffer' \in Seq(Nat) /\ fill_buffer' \in Seq(Nat)
    BY EmptyBuffer DEF IInv, Types, Swap
  <2>3. QED
    BY <1>2, <2>1, <2>2 DEF IInv, Types, Swap
<1>4. OneCall'
  BY <1>2 DEF IInv, Types, OneCall, Swap
<1>5. JobState'
  BY <1>1, <1>2 DEF IInv, Types, JobState, Sending, Swap
<1>6. NothingLeft'
  BY <1>1, <1>2, EmptyBuffer DEF IInv, Types, OneCall, NothingLeft, AtEnd, Swap
<1>7. Stream' /\ WriteIsRest'
  BY <1>1 DEF IInv, Stream, WriteIsRest, Swap
<1>8. Buffered'
  <2>1. CASE AtEnd
    BY <1>1, <2>1, EmptyBuffer DEF IInv, Types, Buffered, Before, AtEnd, Swap
  <2>2. CASE ~AtEnd
    BY <1>1, <2>2 DEF IInv, Types, Buffered, Before, Swap
  <2>3. QED
    BY <2>1, <2>2
<1>9. QED
  BY <1>3, <1>4, <1>5, <1>6, <1>7, <1>8 DEF IInv

LEMMA StartStep ==
  ASSUME IInv, NEW t \in Threads, Start(t)
  PROVE  IInv'
<1>1. /\ curstate = "connected" /\ Sending /\ write = <<>> /\ ~result.due
      /\ result.sent = 0 /\ send_job_running
  BY DEF IInv, Types, OneCall, JobState, Sending, Start
<1>2. pc' = [pc EXCEPT ![t] = "idle"] /\ pc[t] = "start"
  BY DEF Start
<1>3. \A u \in Threads : pc'[u] = "idle"
  BY <1>2 DEF IInv, Types, OneCall
<1>4. OneCall' /\ ~Sending'
  BY <1>1, <1>3 DEF OneCall, Sending, Start, Threads
<1>5. CASE FinishJob
  <2>1. Types'
    BY <1>2, <1>5 DEF IInv, Types, Start, FinishJob
  <2>2. JobState'
    BY <1>1, <1>4, <1>5 DEF IInv, JobState, Start, FinishJob
  <2>3. NothingLeft'
    BY <1>2, <1>3, <1>5 DEF IInv, NothingLeft, AtEnd, Start, FinishJob
  <2>4. Stream' /\ Buffered' /\ WriteIsRest'
    BY <1>1, <1>5 DEF IInv, Stream, Buffered, Before, WriteIsRest, Start, FinishJob
  <2>5. QED
    BY <1>4, <2>1, <2>2, <2>3, <2>4 DEF IInv
<1>6. CASE StartWrite
  <2>1. /\ current_send_state \in Nat /\ current_send_state < Len(send_buffer)
        /\ Len(send_buffer) \in Nat
    BY <1>1, <1>6, LenProperties DEF IInv, Types, Buffered, AtEnd, StartWrite
  <2>2. /\ write' \in Seq(Nat)
        /\ Len(write') = Len(send_buffer) - current_send_state
        /\ \A i \in 1..(Len(send_buffer) - current_send_state) :
               write'[i] = send_buffer[current_send_state + i]
    <3>1. write' = SubSeq(send_buffer, current_send_state + 1, Len(send_buffer))
      BY <1>6 DEF StartWrite
    <3>2. send_buffer \in Seq(Nat)
      BY DEF IInv, Types
    <3>3. QED
      BY ONLY <2>1, <3>1, <3>2, RestProperties
  <2>3. write' # <<>>
    BY <2>1, <2>2, EmptyBuffer
  <2>4. Types'
    <3>1. (current_send_state > Len(send_buffer)) = FALSE
      BY <2>1
    <3>2. wild' = FALSE
      BY <1>6, <3>1 DEF StartWrite
    <3>3. QED
      BY <1>2, <1>6, <2>2, <3>2 DEF IInv, Types, Start, StartWrite
  <2>5. JobState'
    BY <1>1, <1>4, <1>6, <2>3 DEF IInv, JobState, Start, StartWrite
  <2>6. NothingLeft'
    BY <1>1, <1>3, <1>6 DEF NothingLeft, AtEnd, Start, StartWrite
  <2>7. Stream' /\ Buffered'
    BY <1>1, <1>6 DEF IInv, Stream, Buffered, Before, Start, StartWrite
  <2>8. WriteIsRest'
    BY <2>2 DEF WriteIsRest, Start
  <2>9. QED
    BY <1>4, <2>4, <2>5, <2>6, <2>7, <2>8 DEF IInv
<1>7. QED
  BY <1>5, <1>6 DEF Start

LEMMA AppendBytesStep ==
  ASSUME IInv, OneThread, NEW n \in Lengths, AppendBytes(n)
  PROVE  IInv'
<1> DEFINE data == [i \in 1..n |-> bytes + i]
<1>1. n \in Nat /\ bytes \in Nat /\ bytes + n \in 0..MaxBytes
  BY SendAssumption DEF SendAssumption, IInv, Types, AppendBytes
<1>2. \A t \in Threads : pc[t] = "idle"
  BY OneThread DEF AppendBytes, MayBegin
<1>3. ~Sending /\ curstate = "connected"
  BY <1>2 DEF Sending, AppendBytes
<1>4. data \in Seq(Nat) /\ Len(data) = n /\ \A i \in 1..n : data[i] = bytes + i
  BY <1>1, DataProperties
<1>5. fill_buffer' = fill_buffer \o data /\ given' = given \o data /\ bytes' = bytes + n
  BY DEF AppendBytes
<1> HIDE DEF data
<1>6. /\ fill_buffer' \in Seq(Nat)
      /\ Len(fill_buffer') = Len(fill_buffer) + n
      /\ \A i \in 1..Len(fill_buffer) : fill_buffer'[i] = fill_buffer[i]
      /\ \A i \in 1..n : fill_buffer'[Len(fill_buffer) + i] = bytes + i
  <2>1. fill_buffer \in Seq(Nat)
    BY DEF IInv, Types
  <2>2. QED
    BY <1>4, <1>5, <2>1, RowProperties
<1>7. /\ given' \in Seq(Nat)
      /\ Len(given') = Len(given) + n
      /\ \A i \in 1..Len(given) : given'[i] = given[i]
      /\ \A i \in 1..n : given'[Len(given) + i] = bytes + i
  <2>1. given \in Seq(Nat)
    BY DEF IInv, Types
  <2>2. QED
    BY <1>4, <1>5, <2>1, RowProperties
<1>8. /\ Len(given) \in Nat /\ Len(fill_buffer) \in Nat
      /\ Len(send_buffer) \in Nat /\ Len(wire) \in Nat
  BY LenProperties DEF IInv, Types
<1>9. pc' = [pc EXCEPT !["client"] = IF n > 0 THEN "appended" ELSE "idle"]
  BY DEF AppendBytes
<1>10. Types'
  <2>1. current_send_state' \in 0..bytes'
    BY <1>1, <1>5 DEF IInv, Types, AppendBytes
  <2>2. pc' \in [Threads -> {"idle", "appended", "send", "start"}]
    BY <1>9 DEF IInv, Types
  <2>3. bytes' \in 0..MaxBytes
    BY <1>1, <1>5
  <2>4. QED
    BY <1>6, <1>7, <2>1, <2>2, <2>3 DEF IInv, Types, AppendBytes
<1>11. OneCall'
  BY <1>2, <1>9 DEF IInv, Types, OneCall, AppendBytes, Threads
<1>12. ~Sending'
  BY <1>2, <1>9 DEF IInv, Types, Sending, Threads
<1>13. JobState'
  BY <1>3, <1>12 DEF IInv, JobState, AppendBytes
<1>14. NothingLeft'
  <2>1. n = 0 => fill_buffer' = fill_buffer
    <3>1. SUFFICES ASSUME n = 0 PROVE fill_buffer' = fill_buffer
      OBVIOUS
    <3>2. fill_buffer \in Seq(Nat) /\ fill_buffer' \in Seq(Nat)
      BY <1>6 DEF IInv, Types
    <3>3. /\ Len(fill_buffer') = Len(fill_buffer)
          /\ \A i \in 1..Len(fill_buffer') : fill_buffer'[i] = fill_buffer[i]
      BY <1>6, <1>8, <3>1
    <3>4. QED
      BY <3>2, <3>3, SeqEqual
  <2>2. "client" \in Threads /\ \A t \in Threads : pc'[t] # "start"
    BY <1>2, <1>9 DEF IInv, Types, Threads
  <2>3. pc'["client"] # "appended" => n = 0
    BY <1>1, <1>9, <2>2 DEF IInv, Types
  <2>4. QED
    BY <1>2, <2>1, <2>2, <2>3 DEF IInv, NothingLeft, AtEnd, AppendBytes
<1>15. Stream'
  <2>1. Len(given') <= bytes'
    BY <1>1, <1>5, <1>7, <1>8 DEF IInv, Stream
  <2>2. \A i \in 1..Len(given') : given'[i] \in 1..bytes'
    <3>1. ASSUME NEW i \in 1..Len(given) PROVE given'[i] \in 1..bytes'
      BY <1>1, <1>5, <1>7 DEF IInv, Stream
    <3>2. ASSUME NEW i \in 1..n PROVE given'[Len(given) + i] \in 1..bytes'
      BY <1>1, <1>5, <1>7
    <3>3. \A i \in 1..Len(given') :
              i \in 1..Len(given) \/ \E k \in 1..n : i = Len(given) + k
      <4>1. ASSUME NEW i \in 1..Len(given'), i \notin 1..Len(given)
            PROVE  i - Len(given) \in 1..n /\ i = Len(given) + (i - Len(given))
        BY <1>1, <1>7, <1>8, <4>1
      <4>2. QED
        BY <4>1
    <3>4. QED
      BY <3>1, <3>2, <3>3
  <2>3. Len(wire') <= Len(given') /\ \A i \in 1..Len(wire') : wire'[i] = given'[i]
    BY <1>1, <1>7, <1>8 DEF IInv, Stream, AppendBytes
  <2>4. QED
    BY <2>1, <2>2, <2>3 DEF Stream
<1>16. Buffered'
  <2>1. /\ Before' = Before /\ Before \in Nat
        /\ Before + Len(send_buffer) + Len(fill_buffer) = Len(given)
    BY <1>1, <1>3, <1>6, <1>7, <1>8 DEF IInv, Buffered, Before, AppendBytes
  <2>2. \A i \in 1..Len(send_buffer) : given'[Before + i] = given[Before + i]
    <3>1. \A i \in 1..Len(send_buffer) : Before + i \in 1..Len(given)
      BY <1>8, <2>1
    <3>2. QED
      BY <1>7, <3>1
  <2>3. \A i \in 1..Len(fill_buffer') :
            fill_buffer'[i] = given'[Before + Len(send_buffer) + i]
    <3>1. ASSUME NEW i \in 1..Len(fill_buffer)
          PROVE  fill_buffer'[i] = given'[Before + Len(send_buffer) + i]
      <4>1. fill_buffer'[i] = given[Before + Len(send_buffer) + i]
        BY <1>3, <1>6 DEF IInv, Buffered
      <4>2. Before + Len(send_buffer) + i \in 1..Len(given)
        BY <1>8, <2>1
      <4>3. QED
        BY <1>7, <4>1, <4>2
    <3>2. ASSUME NEW k \in 1..n
          PROVE  fill_buffer'[Len(fill_buffer) + k]
                     = given'[Before + Len(send_buffer) + (Len(fill_buffer) + k)]
      <4>1. Before + Len(send_buffer) + (Len(fill_buffer) + k) = Len(given) + k
        BY <1>1, <1>8, <2>1
      <4>2. QED
        BY <1>6, <1>7, <4>1
    <3>3. \A i \in 1..Len(fill_buffer') :
              i \in 1..Len(fill_buffer) \/ \E k \in 1..n : i = Len(fill_buffer) + k
      <4>1. ASSUME NEW i \in 1..Len(fill_buffer'), i \notin 1..Len(fill_buffer)
            PROVE  /\ i - Len(fill_buffer) \in 1..n
                   /\ i = Len(fill_buffer) + (i - Len(fill_buffer))
        BY <1>1, <1>6, <1>8, <4>1
      <4>2. QED
        BY <4>1
    <3>4. QED
      BY <3>1, <3>2, <3>3
  <2>4. QED
    BY <1>3, <2>1, <2>2, <2>3 DEF IInv, Buffered, AppendBytes
<1>17. WriteIsRest'
  BY DEF IInv, WriteIsRest, AppendBytes
<1>18. QED
  BY <1>10, <1>11, <1>13, <1>14, <1>15, <1>16, <1>17 DEF IInv

LEMMA StartJobStep ==
  ASSUME IInv, StartJob
  PROVE  IInv'
<1>1. "client" \in Threads /\ pc["client"] = "appended" /\ curstate = "connected"
  BY DEF IInv, OneCall, Threads, StartJob
<1>2. \A t \in Threads \ {"client"} : pc[t] = "idle"
  BY <1>1 DEF IInv, OneCall
<1>3. pc' = [pc EXCEPT !["client"] = IF send_job_running THEN "idle" ELSE "send"]
  BY DEF StartJob
<1>4. ~Sending
  BY <1>1, <1>2 DEF Sending
<1>5. Types'
  BY <1>3 DEF IInv, Types, StartJob
<1>6. OneCall'
  BY <1>1, <1>2, <1>3 DEF IInv, Types, OneCall, StartJob
<1>7. Sending' <=> ~send_job_running
  BY <1>1, <1>2, <1>3 DEF IInv, Types, Sending
<1>8. JobState'
  BY <1>1, <1>4, <1>7 DEF IInv, Types, JobState, StartJob
<1>9. NothingLeft'
  BY <1>1, <1>2, <1>3 DEF IInv, Types, NothingLeft, StartJob
<1>10. Stream' /\ Buffered' /\ WriteIsRest'
  BY DEF IInv, Stream, Buffered, Before, WriteIsRest, StartJob
<1>11. QED
  BY <1>5, <1>6, <1>8, <1>9, <1>10 DEF IInv

LEMMA CompleteWriteStep ==
  ASSUME IInv, CompleteWrite
  PROVE  IInv'
<1>1. write # <<>> /\ write' = <<>> /\ curstate = "connected"
  BY DEF IInv, Types, JobState, CompleteWrite
<1>2. ~Sending /\ ~result.due /\ result.sent = 0 /\ send_job_running
  BY <1>1 DEF IInv, Types, JobState
<1>3. ~Sending'
  BY <1>2 DEF Sending, CompleteWrite
<1>4. OneCall'
  BY DEF IInv, OneCall, CompleteWrite
<1>5. NothingLeft'
  BY DEF IInv, NothingLeft, AtEnd, CompleteWrite
<1>6. WriteIsRest'
  BY <1>1 DEF WriteIsRest
<1>7. CASE result' = Result(FALSE, 0) /\ UNCHANGED wire
  <2>1. result'.due /\ result'.sent = 0
    BY <1>7 DEF Result
  <2>2. result' \in [ok : BOOLEAN, sent : 0..MaxBytes, due : BOOLEAN]
    BY <1>7, SendAssumption DEF SendAssumption, Result
  <2>3. Types'
    BY <1>1, <1>7, <2>2, EmptyBuffer DEF IInv, Types, CompleteWrite
  <2>4. JobState'
    BY <1>1, <1>2, <1>3, <2>1 DEF IInv, JobState, CompleteWrite
  <2>5. Stream' /\ Buffered'
    BY <1>2, <1>7, <2>1 DEF IInv, Stream, Buffered, Before, CompleteWrite
  <2>6. QED
    BY <1>4, <1>5, <1>6, <2>3, <2>4, <2>5 DEF IInv
<1>8. ASSUME NEW n \in 1..Len(write), result' = Result(TRUE, n),
             wire' = wire \o SubSeq(write, 1, n)
      PROVE  IInv'
  <2>1. result'.due /\ result'.sent = n
    BY <1>8 DEF Result
  <2>2. /\ Len(write) \in Nat /\ Len(send_buffer) \in Nat /\ Len(fill_buffer) \in Nat
        /\ Len(given) \in Nat /\ Len(wire) \in Nat /\ current_send_state \in Nat
    BY LenProperties DEF IInv, Types
  <2>3. Len(write) = Len(send_buffer) - current_send_state
    BY <1>1 DEF IInv, WriteIsRest
  <2>4. Before \in Nat /\ Len(wire) = Before + current_send_state
    BY <1>1, <1>2, <2>2 DEF IInv, Buffered, Before
  <2>5. n \in 0..MaxBytes
    BY <1>1, <2>2, <2>3, <2>4, SendAssumption
       DEF SendAssumption, IInv, Types, Stream, Before
  <2>6. /\ SubSeq(write, 1, n) \in Seq(Nat)
        /\ Len(SubSeq(write, 1, n)) = n
        /\ \A i \in 1..n : SubSeq(write, 1, n)[i] = write[i]
    BY <2>2, FirstProperties DEF IInv, Types
  <2>7. /\ wire' \in Seq(Nat)
        /\ Len(wire') = Len(wire) + n
        /\ \A i \in 1..Len(wire) : wire'[i] = wire[i]
        /\ \A i \in 1..n : wire'[Len(wire) + i] = SubSeq(write, 1, n)[i]
    <3>1. wire \in Seq(Nat)
      BY DEF IInv, Types
    <3>2. QED
      BY <1>8, <2>6, <3>1, RowProperties
  <2>8. \A i \in 1..n : write[i] = given[Len(wire) + i]
    <3>1. \A i \in 1..n : write[i] = send_buffer[current_send_state + i]
      BY <1>1, <2>2 DEF IInv, WriteIsRest
    <3>2. \A i \in 1..n : current_send_state + i \in 1..Len(send_buffer)
      BY <2>2, <2>3
    <3>3. \A j \in 1..Len(send_buffer) : send_buffer[j] = given[Before + j]
      BY <1>1 DEF IInv, Buffered
    <3>4. QED
      BY <2>2, <2>4, <3>1, <3>2, <3>3
  <2>9. Types'
    <3>1. result' \in [ok : BOOLEAN, sent : 0..MaxBytes, due : BOOLEAN]
      BY <1>8, <2>5 DEF Result
    <3>2. QED
      BY <1>1, <2>7, <3>1, EmptyBuffer DEF IInv, Types, CompleteWrite
  <2>10. JobState'
    BY <1>1, <1>2, <1>3, <2>1 DEF IInv, JobState, CompleteWrite
  <2>11. Len(wire) + n <= Len(given)
    BY <2>2, <2>3, <2>4 DEF Before
  <2>12. Stream'
    <3>1. \A i \in 1..(Len(wire) + n) : wire'[i] = given[i]
      <4>1. ASSUME NEW i \in 1..Len(wire) PROVE wire'[i] = given[i]
        BY <2>7 DEF IInv, Stream
      <4>2. ASSUME NEW k \in 1..n PROVE wire'[Len(wire) + k] = given[Len(wire) + k]
        BY <2>6, <2>7, <2>8
      <4>3. ASSUME NEW i \in 1..(Len(wire) + n), i \notin 1..Len(wire)
            PROVE  i - Len(wire) \in 1..n /\ i = Len(wire) + (i - Len(wire))
        BY <2>2, <4>3
      <4>4. QED
        BY <4>1, <4>2, <4>3
    <3>2. QED
      BY <2>7, <2>11, <3>1 DEF IInv, Stream, CompleteWrite
  <2>13. Buffered'
    BY <1>1, <1>2, <2>1, <2>2, <2>3, <2>4, <2>7 DEF IInv, Buffered, Before, CompleteWrite
  <2>14. QED
    BY <1>4, <1>5, <1>6, <2>9, <2>10, <2>12, <2>13 DEF IInv
<1>9. QED
  BY <1>7, <1>8 DEF CompleteWrite

\* The connection ends and the buffers are cleared.
LEMMA DisconnectedStep ==
  ASSUME IInv, Disconnected, \A t \in Threads : pc[t] = "idle", pc' = pc,
         UNCHANGED <<sessions, bytes, given, wire, wild>>,
         result' \in [ok : BOOLEAN, sent : 0..MaxBytes, due : BOOLEAN],
         result'.sent # 0 => result'.due
  PROVE  IInv'
<1>1. /\ curstate' = "disconnected" /\ send_buffer' = <<>> /\ fill_buffer' = <<>>
      /\ write' = <<>> /\ send_job_running' = FALSE
      /\ current_send_state' = current_send_state
  BY DEF Disconnected, Clear
<1>2. Types'
  BY <1>1, EmptyBuffer DEF IInv, Types
<1>3. OneCall' /\ NothingLeft'
  BY <1>1 DEF OneCall, NothingLeft, Threads
<1>4. JobState'
  BY <1>1 DEF JobState
<1>5. Stream'
  BY DEF IInv, Stream
<1>6. Buffered' /\ WriteIsRest'
  BY <1>1 DEF Buffered, WriteIsRest
<1>7. QED
  BY <1>2, <1>3, <1>4, <1>5, <1>6 DEF IInv

LEMMA WriteHandlerStep ==
  ASSUME IInv, OneThread, WriteHandler
  PROVE  IInv'
<1>1. /\ \A t \in Threads : pc[t] = "idle"
      /\ result.due /\ result' = NoResult
      /\ UNCHANGED <<sessions, bytes, given, wire, wild>>
  BY OneThread DEF WriteHandler, MayBegin
<1>2. /\ result' \in [ok : BOOLEAN, sent : 0..MaxBytes, due : BOOLEAN]
      /\ ~result'.due /\ result'.sent = 0
  BY <1>1, SendAssumption DEF SendAssumption, NoResult
<1>3. CASE /\ curstate # "connected"
           /\ UNCHANGED <<curstate, send_buffer, fill_buffer, current_send_state,
                          send_job_running, write, pc>>
  <2>1. Types'
    BY <1>1, <1>2, <1>3 DEF IInv, Types
  <2>2. OneCall' /\ NothingLeft' /\ JobState'
    BY <1>1, <1>2, <1>3 DEF IInv, OneCall, NothingLeft, AtEnd, JobState, Threads
  <2>3. Stream' /\ Buffered' /\ WriteIsRest'
    BY <1>1, <1>3 DEF IInv, Stream, Buffered, WriteIsRest
  <2>4. QED
    BY <2>1, <2>2, <2>3 DEF IInv
<1>4. CASE Disconnected /\ UNCHANGED pc
  BY <1>1, <1>2, <1>4, DisconnectedStep
<1>5. CASE curstate = "connected" /\ Advance
  <2>1. /\ current_send_state' = current_send_state + result.sent
        /\ pc' = [pc EXCEPT !["io"] = "send"] /\ "io" \in Threads
        /\ UNCHANGED <<curstate, send_buffer, fill_buffer, send_job_running, write>>
    BY <1>5 DEF Advance, Threads
  <2>2. /\ pc'["io"] = "send" /\ \A t \in Threads \ {"io"} : pc'[t] = "idle"
        /\ Sending'
    BY <1>1, <2>1 DEF IInv, Types, Sending
  <2>3. ~Sending /\ send_job_running /\ write = <<>>
    BY <1>1, <1>5 DEF IInv, Types, JobState, Sending
  <2>4. /\ Len(send_buffer) \in Nat /\ Len(fill_buffer) \in Nat /\ Len(given) \in Nat
        /\ current_send_state \in Nat /\ result.sent \in Nat /\ bytes \in Nat
    BY LenProperties DEF IInv, Types
  <2>5. current_send_state' \in 0..bytes
    BY <1>5, <2>1, <2>4 DEF IInv, Buffered, Before, Stream
  <2>6. pc' \in [Threads -> {"idle", "appended", "send", "start"}]
    BY <2>1 DEF IInv, Types
  <2>7. Types'
    BY <1>1, <1>2, <1>5, <2>1, <2>5, <2>6 DEF IInv, Types
  <2>8. OneCall' /\ NothingLeft'
    BY <1>5, <2>1, <2>2, <2>3 DEF OneCall, NothingLeft
  <2>9. JobState'
    BY <1>2, <1>5, <2>1, <2>2, <2>3 DEF JobState
  <2>10. Stream' /\ WriteIsRest'
    BY <1>1, <2>1, <2>3 DEF IInv, Stream, WriteIsRest
  <2>11. Buffered'
    BY <1>1, <1>2, <1>5, <2>1, <2>4 DEF IInv, Buffered, Before
  <2>12. QED
    BY <2>7, <2>8, <2>9, <2>10, <2>11 DEF IInv
<1>6. QED
  BY <1>3, <1>4, <1>5 DEF WriteHandler

LEMMA ConnectSuccessStep ==
  ASSUME IInv, OneThread, current_send_state = 0, ConnectSuccess
  PROVE  IInv'
<1>1. /\ \A t \in Threads : pc[t] = "idle"
      /\ current_send_state' = 0 /\ write' = <<>> /\ ~result.due /\ result' = result
      /\ send_buffer' = <<>> /\ fill_buffer' = <<>> /\ send_job_running' = FALSE
      /\ given' = <<>> /\ wire' = <<>> /\ curstate' = "connected"
      /\ sessions < MaxSessions /\ sessions' = sessions + 1
      /\ UNCHANGED <<bytes, pc, wild>>
  BY OneThread DEF ConnectSuccess, MayBegin, Clear
<1>2. result.sent = 0
  BY <1>1 DEF IInv, JobState
<1>3. Types'
  <2>1. sessions' \in 0..MaxSessions /\ sessions' >= 1 /\ 0 \in 0..bytes
    BY <1>1, SendAssumption DEF SendAssumption, IInv, Types
  <2>2. QED
    BY <1>1, <2>1, EmptyBuffer DEF IInv, Types
<1>4. OneCall'
  BY <1>1 DEF OneCall, Threads
<1>5. JobState' /\ ~Sending'
  BY <1>1, <1>2 DEF JobState, Sending
<1>6. NothingLeft'
  BY <1>1, EmptyBuffer DEF NothingLeft, AtEnd
<1>7. Stream' /\ Buffered' /\ WriteIsRest'
  <2>1. bytes \in Nat /\ bytes' = bytes
    BY <1>1, SendAssumption DEF SendAssumption, IInv, Types
  <2>2. Len(given') = 0 /\ Len(wire') = 0 /\ Len(send_buffer') = 0 /\ Len(fill_buffer') = 0
    BY <1>1, EmptyBuffer
  <2>3. Stream'
    BY <2>1, <2>2 DEF Stream
  <2>4. Buffered'
    <3>1. Before' = 0
      BY <2>2 DEF Before
    <3>2. result'.sent = 0
      BY <1>1, <1>2
    <3>3. 1..Len(send_buffer') = {} /\ 1..Len(fill_buffer') = {}
      BY <2>2
    <3>4. QED
      BY <1>1, <2>2, <3>1, <3>2, <3>3 DEF Buffered
  <2>5. QED
    BY <1>1, <2>3, <2>4 DEF WriteIsRest
<1>8. QED
  BY <1>3, <1>4, <1>5, <1>6, <1>7 DEF IInv

LEMMA DisconnectStep ==
  ASSUME IInv, OneThread, Disconnect
  PROVE  IInv'
<1>1. \A t \in Threads : pc[t] = "idle"
  BY OneThread DEF Disconnect, MayBegin
<1>2. Result(FALSE, 0) \in [ok : BOOLEAN, sent : 0..MaxBytes, due : BOOLEAN]
  BY SendAssumption DEF SendAssumption, Result
<1>3. /\ result' \in [ok : BOOLEAN, sent : 0..MaxBytes, due : BOOLEAN]
      /\ result'.sent # 0 => result'.due
  BY <1>2 DEF IInv, Types, JobState, Disconnect, Result
<1>4. QED
  BY <1>1, <1>3, DisconnectedStep DEF Disconnect

\* A connection is established while the cursor is where the one before has
\* left it.
LEMMA ConnectAstray ==
  ASSUME IInv, OneThread, current_send_state # 0, ConnectSuccess
  PROVE  Astray'
<1>1. /\ \A t \in Threads : pc[t] = "idle"
      /\ current_send_state' = current_send_state /\ write' = <<>> /\ ~result.due /\ result' = result
      /\ send_buffer' = <<>> /\ fill_buffer' = <<>> /\ send_job_running' = FALSE
      /\ given' = <<>> /\ wire' = <<>> /\ curstate' = "connected"
      /\ sessions < MaxSessions /\ sessions' = sessions + 1
      /\ UNCHANGED <<bytes, pc, wild>>
  BY OneThread DEF ConnectSuccess, MayBegin, Clear
<1>2. result.sent = 0
  BY <1>1 DEF IInv, JobState
<1>3. sessions' \in 2..MaxSessions /\ current_send_state' \in 1..bytes /\ bytes \in 0..MaxBytes
  BY <1>1, SendAssumption DEF SendAssumption, IInv, Types
<1>4. OneCall' /\ ~Sending'
  BY <1>1 DEF OneCall, Sending, Threads
<1>5. Stream'
  BY <1>1, <1>3, EmptyBuffer DEF Stream
<1>6. QED
  BY <1>1, <1>2, <1>3, <1>4, <1>5, EmptyBuffer DEF IInv, Types, Astray

LEMMA AppendBytesAstray ==
  ASSUME Astray, OneThread, ~wild, NEW n \in Lengths, AppendBytes(n)
  PROVE  Astray'
<1> DEFINE data == [i \in 1..n |-> bytes + i]
<1>1. n \in Nat /\ bytes \in Nat /\ bytes + n \in 0..MaxBytes
  BY SendAssumption DEF SendAssumption, Astray, AppendBytes
<1>2. \A t \in Threads : pc[t] = "idle"
  BY OneThread DEF AppendBytes, MayBegin
<1>3. data \in Seq(Nat) /\ Len(data) = n /\ \A i \in 1..n : data[i] = bytes + i
  BY <1>1, DataProperties
<1>4. /\ given' = given \o data /\ fill_buffer' = given \o data /\ bytes' = bytes + n
      /\ pc' = [pc EXCEPT !["client"] = IF n > 0 THEN "appended" ELSE "idle"]
      /\ UNCHANGED <<curstate, send_buffer, current_send_state, send_job_running, write,
                     result, sessions, wire, wild>>
  BY DEF AppendBytes, Astray
<1> HIDE DEF data
<1>5. /\ given' \in Seq(Nat)
      /\ Len(given') = Len(given) + n
      /\ \A i \in 1..Len(given) : given'[i] = given[i]
      /\ \A i \in 1..n : given'[Len(given) + i] = bytes + i
  <2>1. given \in Seq(Nat)
    BY DEF Astray
  <2>2. QED
    BY <1>3, <1>4, <2>1, RowProperties
<1>6. Len(given) \in Nat /\ Len(wire) = 0
  BY EmptyBuffer DEF Astray
<1>7. Stream'
  <2>1. \A i \in 1..Len(given') : given'[i] \in 1..bytes'
    <3>1. \A i \in 1..Len(given) : given[i] \in 1..bytes
      BY DEF Astray, Stream
    <3>2. SUFFICES ASSUME NEW i \in 1..Len(given') PROVE given'[i] \in 1..bytes'
      OBVIOUS
    <3>3. CASE i \in 1..Len(given)
      BY <1>1, <1>4, <1>5, <3>1, <3>3
    <3>4. CASE i \notin 1..Len(given)
      <4>1. i - Len(given) \in 1..n /\ i = Len(given) + (i - Len(given))
        BY <1>1, <1>5, <1>6, <3>4
      <4>2. given'[Len(given) + (i - Len(given))] = bytes + (i - Len(given))
        BY <1>5, <4>1
      <4>3. QED
        BY <1>1, <1>4, <1>6, <4>1, <4>2
    <3>5. QED
      BY <3>3, <3>4
  <2>2. Len(given') <= bytes' /\ Len(wire') = 0 /\ Len(given') >= 0
    BY <1>1, <1>4, <1>5, <1>6 DEF Astray, Stream
  <2>3. QED
    BY <2>1, <2>2 DEF Stream
<1>8. pc' \in [Threads -> {"idle", "appended", "send", "start"}] /\ "client" \in Threads
  BY <1>4 DEF Astray, Threads
<1>9. OneCall' /\ ~Sending /\ ~Sending'
  BY <1>2, <1>4, <1>8 DEF Astray, OneCall, Sending, Threads
<1>10. n = 0 => given' = given
  <2>1. SUFFICES ASSUME n = 0 PROVE given' = given
    OBVIOUS
  <2>2. given \in Seq(Nat) /\ Len(given') = Len(given)
        /\ \A i \in 1..Len(given') : given'[i] = given[i]
    BY <1>5, <1>6, <2>1 DEF Astray
  <2>3. QED
    BY <1>5, <2>2, SeqEqual
<1>11. pc'["client"] # "appended" => n = 0
  BY <1>1, <1>4, <1>8 DEF Astray
<1>12. pc["client"] # "appended"
  BY <1>2, <1>8
<1>13. current_send_state' \in 1..bytes'
  BY <1>1, <1>4 DEF Astray
<1>14. QED
  BY <1>1, <1>4, <1>5, <1>7, <1>8, <1>9, <1>10, <1>11, <1>12, <1>13 DEF Astray

LEMMA StepAstray ==
  ASSUME Astray, ~wild, StartJob \/ \E t \in Threads : SendStep(t)
  PROVE  Astray'
<1>1. Len(<<>>) = 0 /\ "client" \in Threads /\ current_send_state \in Nat \ {0} /\ ~AtEnd
  BY EmptyBuffer DEF Threads, Astray, AtEnd
<1>2. CASE StartJob
  <2>1. /\ pc["client"] = "appended" /\ \A t \in Threads \ {"client"} : pc[t] = "idle"
        /\ send_job_running' = TRUE
        /\ pc' = [pc EXCEPT !["client"] = IF send_job_running THEN "idle" ELSE "send"]
        /\ UNCHANGED <<curstate, send_buffer, fill_buffer, current_send_state, write,
                       result, sessions, bytes, given, wire, wild>>
    BY <1>1, <1>2 DEF StartJob, Astray, OneCall
  <2>2. ~Sending /\ ~send_job_running
    BY <2>1 DEF Astray, Sending
  <2>3. pc'["client"] = "send" /\ \A t \in Threads \ {"client"} : pc'[t] = "idle"
    BY <1>1, <2>1, <2>2 DEF Astray
  <2>4. OneCall' /\ Sending'
    BY <1>1, <2>1, <2>3 DEF OneCall, Sending, Astray, Threads
  <2>5. Stream'
    BY <2>1 DEF Astray, Stream
  <2>6. pc' \in [Threads -> {"idle", "appended", "send", "start"}]
    BY <1>1, <2>1 DEF Astray
  <2>7. QED
    BY <2>1, <2>4, <2>5, <2>6 DEF Astray
<1>3. ASSUME NEW t \in Threads, Swap(t) PROVE Astray'
  <2>1. /\ pc[t] = "send" /\ pc' = [pc EXCEPT ![t] = "start"]
        /\ UNCHANGED <<curstate, send_buffer, fill_buffer, current_send_state, send_job_running,
                       write, result, sessions, bytes, given, wire, wild>>
    BY <1>1, <1>3 DEF Swap
  <2>2. Sending /\ Sending' /\ OneCall'
        /\ pc' \in [Threads -> {"idle", "appended", "send", "start"}]
    BY <2>1 DEF Sending, OneCall, Astray
  <2>3. Stream'
    BY <2>1 DEF Astray, Stream
  <2>4. QED
    BY <2>1, <2>2, <2>3 DEF Astray
<1>4. ASSUME NEW t \in Threads, Start(t) PROVE Astray'
  <2>1. /\ pc[t] = "start" /\ pc' = [pc EXCEPT ![t] = "idle"]
        /\ write' = SubSeq(send_buffer, current_send_state + 1, Len(send_buffer))
        /\ wild' = (current_send_state > Len(send_buffer))
        /\ UNCHANGED <<curstate, send_buffer, fill_buffer, current_send_state, send_job_running,
                       result, sessions, bytes, given, wire>>
    BY <1>1, <1>4 DEF Start, FinishJob, StartWrite
  <2>2. wild' = TRUE /\ send_job_running /\ send_buffer = <<>>
    BY <1>1, <2>1 DEF Astray, Sending
  <2>3. write' = <<>>
    <3>1. SubSeq(<<>>, current_send_state + 1, 0) = <<>>
      BY <1>1, SubSeqEmpty
    <3>2. QED
      BY <1>1, <2>1, <2>2, <3>1
  <2>4. \A u \in Threads : pc'[u] = "idle"
    BY <2>1 DEF Astray, OneCall
  <2>5. OneCall' /\ Stream' /\ pc' \in [Threads -> {"idle", "appended", "send", "start"}]
    BY <2>1, <2>4 DEF Astray, OneCall, Stream, Threads
  <2>6. QED
    BY <2>1, <2>2, <2>3, <2>5 DEF Astray
<1>5. QED
  BY <1>2, <1>3, <1>4 DEF SendStep

LEMMA DisconnectAstray ==
  ASSUME Astray, OneThread, ~wild, Disconnect
  PROVE  IInv'
<1>1. /\ \A t \in Threads : pc[t] = "idle"
      /\ curstate' = "disconnected" /\ send_buffer' = <<>> /\ fill_buffer' = <<>>
      /\ write' = <<>> /\ send_job_running' = FALSE /\ result' = result
      /\ UNCHANGED <<current_send_state, pc, sessions, bytes, given, wire, wild>>
  BY OneThread DEF Disconnect, Disconnected, Clear, MayBegin, Astray
<1>2. Types'
  <2>1. sessions' \in 0..MaxSessions /\ sessions' >= 1 /\ current_send_state' \in 0..bytes'
        /\ wild' = FALSE
    BY <1>1, SendAssumption DEF SendAssumption, Astray
  <2>2. QED
    BY <1>1, <2>1, EmptyBuffer DEF Astray, Types
<1>3. OneCall' /\ NothingLeft' /\ JobState' /\ Buffered' /\ WriteIsRest'
  BY <1>1 DEF Astray, OneCall, NothingLeft, JobState, Buffered, WriteIsRest, Threads
<1>4. Stream'
  BY <1>1 DEF Astray, Stream
<1>5. QED
  BY <1>2, <1>3, <1>4 DEF IInv

LEMMA NextAstray ==
  ASSUME OneThread, Astray, [Next]_vars
  PROVE  SInv'
<1>1. CASE UNCHANGED vars
  BY <1>1 DEF vars, Astray, OneCall, Stream, Sending, SInv
<1>2. CASE Next
  <2>1. ~wild
    BY <1>2 DEF Next
  <2>2. ~CompleteWrite /\ ~WriteHandler /\ ~ConnectSuccess
    BY DEF CompleteWrite, WriteHandler, ConnectSuccess, Astray
  <2>3. QED
    BY <1>2, <2>1, <2>2, AppendBytesAstray, StepAstray, DisconnectAstray DEF Next, SInv
<1>3. QED
  BY <1>1, <1>2

LEMMA NextIInv ==
  ASSUME OneThread, IInv, [Next]_vars
  PROVE  SInv'
<1>1. CASE UNCHANGED vars
  <2>1. Types'
    BY <1>1 DEF IInv, Types, vars
  <2>2. OneCall' /\ JobState' /\ NothingLeft'
    BY <1>1 DEF IInv, OneCall, JobState, NothingLeft, AtEnd, Sending, vars
  <2>3. Stream' /\ Buffered' /\ WriteIsRest'
    BY <1>1 DEF IInv, Stream, Buffered, Before, WriteIsRest, vars
  <2>4. QED
    BY <2>1, <2>2, <2>3 DEF IInv, SInv
<1>2. QED
  BY <1>1, SwapStep, StartStep, AppendBytesStep, StartJobStep, CompleteWriteStep,
     WriteHandlerStep, ConnectSuccessStep, ConnectAstray, DisconnectStep DEF Next, SendStep, SInv

LEMMA SpecSInv ==
  ASSUME OneThread
  PROVE  Spec => []SInv
<1>1. SInv /\ [Next]_vars => SInv'
  BY NextIInv, NextAstray, OneThread DEF SInv
<1>2. Init => SInv
  BY InitIInv DEF SInv
<1>3. QED
  BY <1>1, <1>2, PTL DEF Spec

----------------------------------------------------------------------------
(* The properties                                                          *)

\* The buffers hold only bytes that were given and never more of them, and the
\* distance of the iterator is bounded, whatever is cleared and swapped.
THEOREM TypeCorrect ==
  ASSUME OneThread
  PROVE  Spec => []TypeOK
<1>1. ASSUME IInv PROVE TypeOK
  <2> DEFINE B == 1..bytes
  <2>1. /\ Len(send_buffer) \in Nat /\ Len(fill_buffer) \in Nat /\ Len(given) \in Nat
        /\ Len(wire) \in Nat /\ current_send_state \in Nat /\ bytes \in Nat
        /\ Len(write) \in Nat
    BY <1>1, LenProperties, SendAssumption DEF SendAssumption, IInv, Types
  <2>2. \A i \in 1..Len(given) : given[i] \in B
    BY <1>1 DEF IInv, Stream
  <2>3. \A i \in 1..Len(wire) : wire[i] \in B
    BY <1>1, <2>1, <2>2 DEF IInv, Stream
  <2>4. /\ \A i \in 1..Len(send_buffer) : send_buffer[i] \in B
        /\ \A i \in 1..Len(fill_buffer) : fill_buffer[i] \in B
        /\ \A i \in 1..Len(write) : write[i] \in B
        /\ Len(send_buffer) + Len(fill_buffer) <= bytes
    <3>1. CASE curstate = "disconnected"
      BY <1>1, <2>1, <3>1, EmptyBuffer DEF IInv, JobState
    <3>2. CASE curstate = "connected"
      <4>1. Before \in Nat /\ Before + Len(send_buffer) + Len(fill_buffer) = Len(given)
        BY <1>1, <2>1, <3>2 DEF IInv, Buffered, Before
      <4>2. \A i \in 1..Len(send_buffer) : send_buffer[i] \in B
        <5>1. \A i \in 1..Len(send_buffer) : Before + i \in 1..Len(given)
          BY <2>1, <4>1
        <5>2. QED
          BY <1>1, <2>2, <3>2, <5>1 DEF IInv, Buffered
      <4>3. \A i \in 1..Len(fill_buffer) : fill_buffer[i] \in B
        <5>1. \A i \in 1..Len(fill_buffer) :
                  Before + Len(send_buffer) + i \in 1..Len(given)
          BY <2>1, <4>1
        <5>2. QED
          BY <1>1, <2>2, <3>2, <5>1 DEF IInv, Buffered
      <4>4. \A i \in 1..Len(write) : write[i] \in B
        <5>1. CASE write = <<>>
          BY <5>1, EmptyBuffer
        <5>2. CASE write # <<>>
          <6>1. \A i \in 1..Len(write) : current_send_state + i \in 1..Len(send_buffer)
            BY <1>1, <2>1, <5>2 DEF IInv, WriteIsRest
          <6>2. QED
            BY <1>1, <4>2, <5>2, <6>1 DEF IInv, WriteIsRest
        <5>3. QED
          BY <5>1, <5>2
      <4>5. QED
        BY <1>1, <2>1, <4>1, <4>2, <4>3, <4>4 DEF IInv, Stream
    <3>3. QED
      BY <1>1, <3>1, <3>2 DEF IInv, Types
  <2> HIDE DEF B
  <2>5. /\ send_buffer \in Seq(B) /\ fill_buffer \in Seq(B) /\ write \in Seq(B)
        /\ given \in Seq(B) /\ wire \in Seq(B)
    BY <1>1, <2>2, <2>3, <2>4, ElementsIn DEF IInv, Types
  <2>6. QED
    BY <1>1, <2>4, <2>5 DEF IInv, Types, TypeOK, B
<1>2. ASSUME Astray PROVE TypeOK
  <2> DEFINE B == 1..bytes
  <2>1. /\ Len(given) \in Nat /\ bytes \in Nat /\ Len(given) <= bytes
        /\ \A i \in 1..Len(given) : given[i] \in B
    BY <1>2, LenProperties DEF Astray, Stream
  <2> HIDE DEF B
  <2>2. given \in Seq(B) /\ <<>> \in Seq(B) /\ Len(<<>>) = 0
    BY <1>2, <2>1, ElementsIn, EmptySeq DEF Astray
  <2>3. sessions \in 0..MaxSessions /\ current_send_state \in 0..bytes
    BY <1>2 DEF Astray
  <2>4. QED
    BY <1>2, <2>1, <2>2, <2>3 DEF Astray, TypeOK, B
<1>3. QED
  BY <1>1, <1>2, SpecSInv, PTL DEF SInv

\* Bytes leave once and in the order of send_raw(), however the writes end.
THEOREM InOrder ==
  ASSUME OneThread
  PROVE  Spec => []SentInOrder
<1>1. ASSUME IInv PROVE SentInOrder
  <2>1. /\ Len(wire) \in Nat /\ Len(given) \in Nat /\ Len(wire) <= Len(given)
        /\ wire \in Seq(Nat) /\ given \in Seq(Nat)
    BY <1>1, LenProperties DEF IInv, Types, Stream
  <2> DEFINE sent == SubSeq(wire, 1, Len(wire))
             first == SubSeq(given, 1, Len(wire))
  <2>2. sent \in Seq(Nat) /\ Len(sent) = Len(wire) /\ \A i \in 1..Len(wire) : sent[i] = wire[i]
    BY <2>1, FirstProperties
  <2>3. first \in Seq(Nat) /\ Len(first) = Len(wire) /\ \A i \in 1..Len(wire) : first[i] = given[i]
    BY <2>1, FirstProperties
  <2>4. \A i \in 1..Len(sent) : sent[i] = first[i]
    BY <1>1, <2>2, <2>3 DEF IInv, Stream
  <2> HIDE DEF sent, first
  <2>5. sent = first
    BY <2>2, <2>3, <2>4, SeqEqual
  <2>6. QED
    BY <2>1, <2>5 DEF SentInOrder, IsPrefix, sent, first
<1>2. ASSUME Astray PROVE SentInOrder
  <2>1. given \in Seq(Nat) /\ Len(given) \in Nat /\ wire = <<>> /\ Len(<<>>) = 0
    BY <1>2, EmptyBuffer DEF Astray
  <2>2. SubSeq(given, 1, 0) = <<>> /\ SubSeq(<<>>, 1, 0) = <<>>
    BY SubSeqEmpty
  <2>3. QED
    BY <2>1, <2>2 DEF SentInOrder, IsPrefix
<1>3. QED
  BY <1>1, <1>2, SpecSInv, PTL DEF SInv

\* When no send job runs, nothing that was given waits in the buffers.
THEOREM NothingWaitsWithoutJob ==
  ASSUME OneThread
  PROVE  Spec => []NoJobMeansAllSent
<1>1. ASSUME IInv PROVE NoJobMeansAllSent
  <2>1. SUFFICES ASSUME curstate = "connected", ~send_job_running,
                        \A t \in Threads : pc[t] = "idle"
                 PROVE  wire = given
    BY DEF NoJobMeansAllSent
  <2>2. AtEnd /\ fill_buffer = <<>>
    BY <1>1, <2>1 DEF IInv, NothingLeft, Threads
  <2>3. result.sent = 0
    BY <1>1, <2>1 DEF IInv, Types, JobState, Sending
  <2>4. /\ Len(wire) \in Nat /\ Len(given) \in Nat /\ Len(send_buffer) \in Nat
        /\ wire \in Seq(Nat) /\ given \in Seq(Nat)
    BY <1>1, LenProperties DEF IInv, Types
  <2>5. Len(wire) = Len(given)
    BY <1>1, <2>1, <2>2, <2>3, <2>4, EmptyBuffer DEF IInv, Buffered, Before, AtEnd
  <2>6. \A i \in 1..Len(wire) : wire[i] = given[i]
    BY <1>1 DEF IInv, Stream
  <2>7. QED
    BY <2>4, <2>5, <2>6, SeqEqual
<1>2. Astray => NoJobMeansAllSent
  BY DEF Astray, NoJobMeansAllSent, Threads
<1>3. QED
  BY <1>1, <1>2, SpecSInv, PTL DEF SInv

\* A send job has exactly one write, or one handler of a write, at a time.
THEOREM OneWritePerJob ==
  ASSUME OneThread
  PROVE  Spec => []JobHasOneWrite
<1>1. IInv => JobHasOneWrite
  BY DEF IInv, JobState, Sending, JobHasOneWrite
<1>2. Astray => JobHasOneWrite
  BY DEF Astray, Sending, JobHasOneWrite
<1>3. QED
  BY <1>1, <1>2, SpecSInv, PTL DEF SInv

\* A write begins outside of send_buffer at most as the first of a connection
\* that follows another, before anything is sent and with all that was given
\* still in fill_buffer, however often the client connects again.
THEOREM StrayWriteOnlyFirst ==
  ASSUME OneThread
  PROVE  Spec => []StrayWriteIsFirst
<1>1. IInv => StrayWriteIsFirst
  BY DEF IInv, Types, StrayWriteIsFirst
<1>2. Astray => StrayWriteIsFirst
  BY DEF Astray, StrayWriteIsFirst
<1>3. QED
  BY <1>1, <1>2, SpecSInv, PTL DEF SInv
=============================================================================
