------------------------------- MODULE Session -------------------------------
(***************************************************************************)
(* A connection, the io_service it runs on and the server's bytes: every   *)
(* step of Connection together with what it does to the network service,   *)
(* the endpoint and the receive buffer.                                    *)
(*                                                                         *)
(* The service is chosen before the connection's endpoint is set, so that  *)
(* its operations all run on the same one, in one thread.                  *)
(***************************************************************************)
EXTENDS Connection, NetworkService, RecvLines, Endpoint

CONSTANTS
    WrittenEndpoints, \* endpoints as the client puts them together
    Ports,            \* second arguments of set_endpoint()
    ServerHost,       \* what a name lookup finds
    MaxBytes,         \* bound on the bytes the server sends in a session
    MaxChunk          \* bound on the bytes of one read

ASSUME SessionAssumption ==
    /\ \A e \in WrittenEndpoints : WellFormed(e)
    /\ Ports \subseteq Nat
    /\ MaxBytes \in Nat /\ MaxChunk \in Nat

VARIABLES
    recv_buffer,     \* buffers.recv_buffer
    raw_recv_buffer, \* the bytes of the last read that no handler has taken
    sent,            \* the bytes read from the server in this session
    lines,           \* the lines emitted in this session
    hostname, port,  \* impl::hostname, impl::port
    asked            \* the endpoint the client has asked for, where it is not
                     \* one that is misread

bufferVars   == <<recv_buffer, raw_recv_buffer, sent, lines>>
endpointVars == <<hostname, port, asked>>
sessionVars  == <<vars, networkVars, bufferVars, endpointVars>>

MisreadEndpoint == [Invalid EXCEPT !.transport = "misread"]

SessionInit ==
    /\ Init
    /\ NetworkInit
    /\ recv_buffer = <<>> /\ raw_recv_buffer = <<>> /\ sent = <<>> /\ lines = <<>>
    /\ hostname = Invalid.host /\ port = DefaultPort.tcp
    /\ asked = Invalid

----------------------------------------------------------------------------
(* The buffers                                                             *)

\* Variant: buffers.clear() forgets the bytes received.
BuffersClearSent ==
    /\ sent' = <<>> /\ lines' = <<>>
    /\ UNCHANGED <<recv_buffer, raw_recv_buffer>>

\* buffers.clear() as a session begins or ends.
BuffersClear ==
    /\ recv_buffer' = <<>> /\ sent' = <<>> /\ lines' = <<>>
    /\ UNCHANGED raw_recv_buffer

\* connect_success() and do_unscheduled_disconnect() clear the buffers.
BuffersFollow ==
    IF curstate' # curstate /\ curstate' \in {"connected", "disconnected"}
    THEN BuffersClear ELSE UNCHANGED bufferVars

\* A read ends with a chunk of the server's bytes, the other operations without.
CompleteWithBytes(op) ==
    /\ Complete(op)
    /\ IF op.kind = "read" /\ Last(ready').ok
       THEN \E n \in 1 .. MaxChunk : \E chunk \in [1 .. n -> Bytes] :
              /\ Len(sent) + n <= MaxBytes
              /\ raw_recv_buffer' = chunk
              /\ sent' = sent \o chunk
              /\ UNCHANGED <<recv_buffer, lines>>
       ELSE UNCHANGED bufferVars
    /\ UNCHANGED <<networkVars, endpointVars>>

\* emit_line() for each of them.
EmitLines(new) == lines' = lines \o new

\* The handler of a read appends the bytes and recv() cuts the lines out.
Receive ==
    LET cut == Cut(recv_buffer \o raw_recv_buffer)
    IN /\ recv_buffer' = cut.rest
       /\ EmitLines(cut.lines)
       /\ raw_recv_buffer' = <<>>
       /\ UNCHANGED sent

HandlerRuns ==
    /\ RunHandler
    /\ IF running.kind = "read" /\ running.ok /\ curstate = "connected"
       THEN Receive ELSE BuffersFollow
    /\ UNCHANGED <<networkVars, endpointVars>>

\* The thread that runs the service takes a handler.
NextHandler ==
    /\ current_service = "internal" => service_thread = "running"
    /\ RunNextHandler
    /\ UNCHANGED <<networkVars, bufferVars, endpointVars>>

----------------------------------------------------------------------------
(* The calls of the program                                                *)

\* set_endpoint().  The host and the port are set, and an ssl stream is dropped
\* for a socket, before the service is asked for.  Bound: it is called before
\* the first attempt (Connection has the other calls).
SetEndpointTo(e, new_port) ==
    LET parsed == Parse(e.protocol, Written(e), new_port) IN
    /\ curstate = "disconnected" /\ attempt = 0
    /\ hostname' = parsed.host /\ port' = parsed.port
    /\ IF parsed # Invalid /\ ~Refused
       THEN SetEndpoint(parsed.transport) /\ GetService
       ELSE /\ IF transport = "ssl" /\ parsed.transport # "ssl" THEN SetInvalid ELSE UNCHANGED vars
            /\ UNCHANGED networkVars
    /\ asked' = IF Misread(e) THEN MisreadEndpoint ELSE Meant(e, new_port)
    /\ UNCHANGED bufferVars

\* connect() to the server, which does not speak ssl.
ConnectTo ==
    /\ hostname = ServerHost /\ transport = "tcp"
    /\ Connect
    /\ GetService
    /\ UNCHANGED <<bufferVars, endpointVars>>

\* The service is refused to connect_resolve(): connect() throws when it has
\* emitted state::connecting.
ConnectRefused ==
    /\ Refused
    /\ curstate = "disconnected" /\ attempt < MaxConnects
    /\ hostname = ServerHost /\ transport = "tcp"
    /\ curstate' = "connecting" /\ attempt' = attempt + 1
    /\ UNCHANGED <<transport, sock_open, resolver, resolve_iterator, send_job_running,
                   inflight, ready, running, destroyed, terminated>>
    /\ UNCHANGED <<networkVars, bufferVars, endpointVars>>

\* disconnect() and ~connection().
Leave ==
    /\ Disconnect \/ Destroy
    /\ BuffersFollow
    /\ UNCHANGED <<networkVars, endpointVars>>

\* The program asks for the service itself.
RequestService ==
    /\ GetService
    /\ UNCHANGED <<vars, bufferVars, endpointVars>>

\* It puts its own in place while nothing is on the internal one.
UseExternal ==
    /\ transport = "none" /\ inflight = {} /\ ready = <<>> /\ running = Nothing
    /\ SetService
    /\ UNCHANGED <<vars, bufferVars, endpointVars>>

ProgramStep ==
    /\ ~terminated /\ destructor # "done"
    /\ \/ /\ ~destroyed
          /\ \/ \E e \in WrittenEndpoints, p \in Ports : SetEndpointTo(e, p)
             \/ ConnectTo \/ ConnectRefused \/ Leave
       \/ RequestService
       \/ UseExternal

----------------------------------------------------------------------------
(* The end of the program                                                  *)

\* Nothing of the connection is left on the internal service.
Idle ==
    current_service = "internal" => inflight = {} /\ ready = <<>> /\ running = Nothing

Exit ==
    /\ ~terminated
    /\ Destruct \/ RunReturns(Idle) \/ Joined
    /\ UNCHANGED <<vars, bufferVars, endpointVars>>

SessionNext ==
    \/ ProgramStep
    \/ Exit
    \/ ~terminated /\ ((\E op \in inflight : CompleteWithBytes(op)) \/ NextHandler \/ HandlerRuns)

\* The io thread goes on, a lookup and an attempt to connect end, and run()
\* and join() return when they can.
SessionFairness ==
    /\ WF_sessionVars(~terminated /\ NextHandler)
    /\ WF_sessionVars(~terminated /\ HandlerRuns)
    /\ WF_sessionVars(~terminated /\ \E op \in inflight :
                          op.kind \in {"resolve", "connect"} /\ CompleteWithBytes(op))
    /\ WF_sessionVars(~terminated /\ (RunReturns(Idle) \/ Joined)
                          /\ UNCHANGED <<vars, bufferVars, endpointVars>>)

SessionSpec == SessionInit /\ [][SessionNext]_sessionVars /\ SessionFairness

----------------------------------------------------------------------------
(* Properties                                                              *)

\* The bytes of this session that a handler is still to take.
Waiting ==
    IF \E x \in Current("read") :
           (x[1] = "ready" /\ ready[x[2]].ok) \/ (x[1] = "running" /\ running.ok)
    THEN Len(raw_recv_buffer) ELSE 0

\* The lines emitted in a session are the lines of what the server has sent in
\* it, wherever the reads cut it, a "\r\n" or a blank line in two included, and
\* nothing of an earlier session (connection.cpp:542-564, 584, 149).
LinesOfStream ==
    curstate = "connected" =>
        lines = Lines(SubSeq(sent, 1, Len(sent) - Waiting))

\* An operation has a thread that will run its handler: the internal service
\* neither stops under a connection nor takes an operation after it has stopped
\* (network.cpp:54-56, 67-75).
WorkHasThread ==
    current_service = "internal" /\ (inflight # {} \/ ready # <<>> \/ running # Nothing)
        => service_thread = "running"

\* Only a service that is refused leaves a connection connecting with nothing
\* under way (connection.cpp:336-337, 357; network.cpp:67-69).
OnlyExitStrands ==
    curstate = "connecting" /\ ~terminated
        /\ Current("resolve") \cup Current("connect") \cup Current("handshake") = {}
      => Refused

\* set_endpoint() takes the host, the port and the transport that its text
\* means (modules/connection.hpp:132-178), apart from the texts of Misread and
\* from a service that was refused.
EndpointAsMeant ==
    asked # MisreadEndpoint /\ ~internal_service_stopping =>
        /\ hostname = asked.host
        /\ asked # Invalid => port = asked.port /\ transport = asked.transport

\* The end of the program waits for the connection no longer than until it is
\* destroyed (network.hpp:47-49, network.cpp:57-58).
ExitEnds ==
    destructor = "joining" /\ destroyed ~> destructor = "done" \/ terminated
===============================================================================
