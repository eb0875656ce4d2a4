---------------------------- MODULE SendBuffers ----------------------------
(***************************************************************************)
(* The send side of slirc::modules::connection: what a client gives to     *)
(* send_raw() is appended to fill_buffer; one asynchronous write at a time *)
(* takes send_buffer from current_send_state on, and when all of it is     *)
(* sent the buffers are swapped.                                           *)
(*                                                                         *)
(* The handlers of the io thread and the other calls hold impl::mutex;     *)
(* send_raw() does not.                                                    *)
(* With OneThread the client runs the io_service itself (network.hpp) and  *)
(* nothing interleaves with send_raw().                                    *)
(*                                                                         *)
(* Overlapping calls are interleaved at the steps below; what two threads  *)
(* inside the same std::vector do to it is left out.                       *)
(***************************************************************************)
EXTENDS Naturals, Sequences, SequencesExt

CONSTANTS
    Lengths,         \* how many bytes a call of send_raw() can have
    MaxBytes,        \* bound on the bytes given to send_raw()
    MaxSessions,     \* bound on the connections established
    OneThread        \* whether the client runs the handlers itself

ASSUME SendAssumption ==
    /\ Lengths \subseteq Nat
    /\ MaxBytes \in Nat
    /\ MaxSessions \in Nat
    /\ OneThread \in BOOLEAN

VARIABLES
    curstate,           \* impl::curstate, connecting counted as disconnected
    send_buffer,        \* buffers.send_buffer: the bytes, numbered as given
    fill_buffer,        \* buffers.fill_buffer
    current_send_state, \* its distance from send_buffer.begin()
    send_job_running,   \* buffers.send_job_running
    write,              \* the bytes the asynchronous write may send, or <<>>
    result,             \* how many bytes it has sent, if its handler is to run
    pc,                 \* where each thread is in append() and send()
    sessions,           \* the number of connections established so far
    bytes,              \* the number of bytes given to send_raw() so far
    given,              \* history: the bytes given to this connection
    wire,               \* history: the bytes sent by this connection
    wild                \* whether a write was started outside of send_buffer

vars == <<curstate, send_buffer, fill_buffer, current_send_state,
          send_job_running, write, result, pc, sessions, bytes, given, wire, wild>>

Threads == {"client", "io"}
NoResult == [ok |-> FALSE, sent |-> 0, due |-> FALSE]
Result(ok, n) == [ok |-> ok, sent |-> n, due |-> TRUE]

Init ==
    /\ curstate = "disconnected"
    /\ send_buffer = <<>>
    /\ fill_buffer = <<>>
    /\ current_send_state = 0
    /\ send_job_running = FALSE
    /\ write = <<>>
    /\ result = NoResult
    /\ pc = [t \in Threads |-> "idle"]
    /\ sessions = 0
    /\ bytes = 0
    /\ given = <<>>
    /\ wire = <<>>
    /\ wild = FALSE

\* Whether thread t can begin something.
MayBegin(t) ==
    /\ pc[t] = "idle"
    /\ OneThread => \A u \in Threads : pc[u] = "idle"

AtEnd == current_send_state = Len(send_buffer)

----------------------------------------------------------------------------
(* send(), by the thread that has called it                                *)

\* Variant: current_send_state is left where it was.
SwapKeepingCursor(t) ==
    /\ pc[t] = "send"
    /\ IF AtEnd
       THEN send_buffer' = fill_buffer /\ fill_buffer' = <<>>
       ELSE UNCHANGED <<send_buffer, fill_buffer>>
    /\ pc' = [pc EXCEPT ![t] = "start"]
    /\ UNCHANGED <<curstate, current_send_state, send_job_running, write, result,
                   sessions, bytes, given, wire, wild>>

\* All sent: swap().
Swap(t) ==
    /\ pc[t] = "send"
    /\ IF AtEnd
       THEN send_buffer' = fill_buffer /\ fill_buffer' = <<>> /\ current_send_state' = 0
       ELSE UNCHANGED <<send_buffer, fill_buffer, current_send_state>>
    /\ pc' = [pc EXCEPT ![t] = "start"]
    /\ UNCHANGED <<curstate, send_job_running, write, result,
                   sessions, bytes, given, wire, wild>>

\* Variant: with nothing to send, the job is taken to go on.
FinishJobRunning ==
    /\ AtEnd
    /\ UNCHANGED <<send_job_running, write, wild>>

\* Still nothing to send.
FinishJob ==
    /\ AtEnd
    /\ send_job_running' = FALSE
    /\ UNCHANGED <<write, wild>>

\* async_write_some() of what is left.  Past the end of send_buffer its length
\* is negative: what happens is undefined, and the model stops.
StartWrite ==
    /\ ~AtEnd
    /\ write' = SubSeq(send_buffer, current_send_state + 1, Len(send_buffer))
    /\ wild' = (current_send_state > Len(send_buffer))
    /\ UNCHANGED send_job_running

Start(t) ==
    /\ pc[t] = "start"
    /\ FinishJob \/ StartWrite
    /\ pc' = [pc EXCEPT ![t] = "idle"]
    /\ UNCHANGED <<curstate, send_buffer, fill_buffer, current_send_state, result,
                   sessions, bytes, given, wire>>

----------------------------------------------------------------------------
(* send_raw()                                                              *)

\* append(): the bytes are copied to the end of fill_buffer.  The client sends
\* while it is connected, as append() assumes.
AppendBytes(n) ==
    /\ MayBegin("client")
    /\ curstate = "connected"
    /\ bytes + n <= MaxBytes
    /\ LET data == [i \in 1..n |-> bytes + i] IN
        /\ fill_buffer' = fill_buffer \o data
        /\ given' = given \o data
    /\ bytes' = bytes + n
    /\ pc' = [pc EXCEPT !["client"] = IF n > 0 THEN "appended" ELSE "idle"]
    /\ UNCHANGED <<curstate, send_buffer, current_send_state, send_job_running, write,
                   result, sessions, wire, wild>>

\* append(): start the send job, unless there is one.
StartJob ==
    /\ pc["client"] = "appended"
    /\ send_job_running' = TRUE
    /\ pc' = [pc EXCEPT !["client"] = IF send_job_running THEN "idle" ELSE "send"]
    /\ UNCHANGED <<curstate, send_buffer, fill_buffer, current_send_state, write,
                   result, sessions, bytes, given, wire, wild>>

----------------------------------------------------------------------------
(* The network and the handler of the write                                *)

\* The write sends some of the bytes, or fails.
CompleteWrite ==
    /\ write # <<>>
    /\ write' = <<>>
    /\ \/ /\ curstate = "connected"
          /\ \E n \in 1..Len(write) :
                /\ result' = Result(TRUE, n)
                /\ wire' = wire \o SubSeq(write, 1, n)
       \/ result' = Result(FALSE, 0) /\ UNCHANGED wire
    /\ UNCHANGED <<curstate, send_buffer, fill_buffer, current_send_state,
                   send_job_running, pc, sessions, bytes, given, wild>>

\* buffers.clear(): current_send_state is left alone.
Clear ==
    /\ send_buffer' = <<>>
    /\ fill_buffer' = <<>>
    /\ send_job_running' = FALSE
    /\ UNCHANGED current_send_state

\* Closing the socket ends the write that is under way.
Disconnected ==
    /\ curstate' = "disconnected"
    /\ Clear
    /\ write' = <<>>

\* Variant: the whole of the write counts as sent.
AdvanceToEnd ==
    /\ current_send_state' = Len(send_buffer)
    /\ pc' = [pc EXCEPT !["io"] = "send"]
    /\ UNCHANGED <<curstate, send_buffer, fill_buffer, send_job_running, write>>

\* The bytes sent are skipped, and send() goes on.
Advance ==
    /\ current_send_state' = current_send_state + result.sent
    /\ pc' = [pc EXCEPT !["io"] = "send"]
    /\ UNCHANGED <<curstate, send_buffer, fill_buffer, send_job_running, write>>

WriteHandler ==
    /\ MayBegin("io")
    /\ result.due
    /\ result' = NoResult
    /\ \/ /\ curstate # "connected"
          /\ UNCHANGED <<curstate, send_buffer, fill_buffer, current_send_state,
                         send_job_running, write, pc>>
       \/ /\ curstate = "connected"
          /\ ~result.ok
          /\ Disconnected
          /\ UNCHANGED pc
       \/ /\ curstate = "connected"
          /\ result.ok
          /\ Advance
    /\ UNCHANGED <<sessions, bytes, given, wire, wild>>

----------------------------------------------------------------------------
(* The connection                                                          *)

\* connect_success().  The handler of an earlier write has been run: it was
\* queued before those of the new attempt.
ConnectSuccess ==
    /\ MayBegin("io")
    /\ curstate = "disconnected"
    /\ ~result.due
    /\ write = <<>>
    /\ sessions < MaxSessions
    /\ Clear
    /\ curstate' = "connected"
    /\ sessions' = sessions + 1
    /\ given' = <<>>
    /\ wire' = <<>>
    /\ UNCHANGED <<write, result, pc, bytes, wild>>

\* disconnect(), or the end of the connection noticed by the read handler.  A
\* write that is under way fails.
Disconnect ==
    /\ MayBegin("io")
    /\ curstate = "connected"
    /\ Disconnected
    /\ result' = IF write # <<>> THEN Result(FALSE, 0) ELSE result
    /\ UNCHANGED <<pc, sessions, bytes, given, wire, wild>>

SendStep(t) == Swap(t) \/ Start(t)

Next ==
    /\ ~wild
    /\ \/ \E t \in Threads : SendStep(t)
       \/ \E n \in Lengths : AppendBytes(n)
       \/ StartJob
       \/ CompleteWrite
       \/ WriteHandler
       \/ ConnectSuccess
       \/ Disconnect

\* A thread inside send_raw() or a handler keeps running, handlers are run, and
\* a write ends.
Fairness ==
    /\ \A t \in Threads : WF_vars(~wild /\ SendStep(t))
    /\ WF_vars(~wild /\ StartJob)
    /\ WF_vars(~wild /\ WriteHandler)
    /\ WF_vars(~wild /\ CompleteWrite)

Spec == Init /\ [][Next]_vars
FairSpec == Spec /\ Fairness

----------------------------------------------------------------------------
(* Properties                                                              *)

TypeOK ==
    /\ curstate \in {"disconnected", "connected"}
    /\ send_buffer \in Seq(1..bytes)
    /\ fill_buffer \in Seq(1..bytes)
    /\ Len(send_buffer) + Len(fill_buffer) <= bytes
    /\ current_send_state \in 0..bytes
    /\ send_job_running \in BOOLEAN
    /\ write \in Seq(1..bytes)
    /\ result \in [ok : BOOLEAN, sent : 0..MaxBytes, due : BOOLEAN]
    /\ pc \in [Threads -> {"idle", "appended", "send", "start"}]
    /\ sessions \in 0..MaxSessions
    /\ bytes \in 0..MaxBytes
    /\ given \in Seq(1..bytes)
    /\ wire \in Seq(1..bytes)
    /\ wild \in BOOLEAN

\* The bytes sent are the first of those given, each once and in order,
\* whatever part of a buffer a write gets done.
SentInOrder == IsPrefix(wire, given)

\* A connection without a send job has sent all it was given
\* (apis/connection.hpp:155): nothing waits in fill_buffer for a write that
\* nobody starts.
NoJobMeansAllSent ==
    curstate = "connected" /\ ~send_job_running /\ (\A t \in Threads : pc[t] = "idle") =>
        wire = given

\* While a send job runs, exactly one write is under way or its handler is
\* still to run: two would send the same bytes, none would send no more.
JobHasOneWrite ==
    curstate = "connected" /\ ~wild /\ (\A t \in Threads : pc[t] = "idle") =>
        /\ send_job_running <=> write # <<>> \/ result.due
        /\ ~(write # <<>> /\ result.due)

\* A write lies within send_buffer: what is given to send_raw() is sent from
\* there (apis/connection.hpp:155-156).
WritesInBuffer == ~wild

\* A write begins outside of send_buffer at most as the first one of a
\* connection that follows another: the cursor that clear() has left behind is
\* used before anything is sent, and all that was given is still in
\* fill_buffer (connection.cpp:146-151, 162).
StrayWriteIsFirst ==
    wild => sessions > 1 /\ wire = <<>> /\ fill_buffer = given

\* What is given to a connection is sent, or the connection ends, or its first
\* write begins outside of send_buffer.
AllSent ==
    \A b \in 1..MaxBytes :
        b \in ToSet(given) ~> b \in ToSet(wire) \/ curstate = "disconnected" \/ wild
=============================================================================
