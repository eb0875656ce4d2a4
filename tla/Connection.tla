----------------------------- MODULE Connection -----------------------------
(***************************************************************************)
(* slirc::modules::connection: the connection's state, its socket, and the *)
(* chain of asynchronous operations that takes it from connecting to       *)
(* connected and keeps it reading.                                         *)
(*                                                                         *)
(* A call of the client and a completion handler each hold impl::mutex     *)
(* from end to end and are one step.  The handlers run on the one thread   *)
(* of the internal io_service, in the order in which their operations      *)
(* completed.  The lines received and the bytes sent are left out.         *)
(***************************************************************************)
EXTENDS Naturals, Sequences, SequencesExt

CONSTANTS
    Endpoints,     \* the kinds of endpoint the client sets: "tcp", "ssl"
    MaxConnects,   \* bound on the calls of connect()
    MaxCandidates, \* bound on the addresses a name lookup returns
    LookupFails,   \* whether a name lookup can fail
    EndpointFirst  \* whether the client calls connect() only with an endpoint

ASSUME ConnectionAssumption ==
    /\ Endpoints \subseteq {"tcp", "ssl"}
    /\ MaxConnects \in Nat
    /\ MaxCandidates \in Nat \ {0}
    /\ LookupFails \in BOOLEAN
    /\ EndpointFirst \in BOOLEAN

VARIABLES
    curstate,         \* impl::curstate
    transport,        \* which of impl::socket and impl::ssl is engaged
    sock_open,        \* whether its TCP socket is open
    resolver,         \* whether impl::resolver is engaged
    resolve_iterator, \* the number of addresses left to try
    send_job_running, \* buffers.send_job_running
    attempt,          \* the number of calls of connect() so far
    inflight,         \* the asynchronous operations under way
    ready,            \* completed operations whose handlers wait to run
    running,          \* the handler that has locked the weak_impl, or Nothing
    destroyed,        \* whether ~connection() has run
    terminated        \* whether an exception has ended the program

vars == <<curstate, transport, sock_open, resolver, resolve_iterator,
          send_job_running, attempt, inflight, ready, running, destroyed,
          terminated>>

Kinds   == {"resolve", "connect", "handshake", "read", "write"}
States  == {"disconnected", "connecting", "connected", "disconnecting"}
Nothing == [kind |-> "none", attempt |-> 0, ok |-> FALSE]

\* An operation remembers which call of connect() it belongs to; the code does
\* not.
Op(kind) == [kind |-> kind, attempt |-> attempt]
Completed(op, ok) == [kind |-> op.kind, attempt |-> op.attempt, ok |-> ok]

Init ==
    /\ curstate = "disconnected"
    /\ transport = "none"
    /\ sock_open = FALSE
    /\ resolver = FALSE
    /\ resolve_iterator = 0
    /\ send_job_running = FALSE
    /\ attempt = 0
    /\ inflight = {}
    /\ ready = <<>>
    /\ running = Nothing
    /\ destroyed = FALSE
    /\ terminated = FALSE

----------------------------------------------------------------------------
(* Asynchronous operations                                                 *)

\* Start a read, write or handshake: on a closed socket it fails at once.
StartOnSocket(kind) ==
    IF sock_open
    THEN inflight' = inflight \cup {Op(kind)} /\ UNCHANGED ready
    ELSE /\ ready' = Append(ready, Completed(Op(kind), FALSE))
         /\ UNCHANGED inflight

\* Start a connect: it opens the socket first, which can fail.
StartConnect ==
    \/ /\ sock_open' = TRUE
       /\ inflight' = inflight \cup {Op("connect")}
       /\ UNCHANGED ready
    \/ /\ ~sock_open
       /\ ready' = Append(ready, Completed(Op("connect"), FALSE))
       /\ UNCHANGED <<sock_open, inflight>>

SocketOps == {op \in inflight : op.kind # "resolve"}

\* Closing the socket completes what is under way on it with
\* operation_aborted; a name lookup goes on in a thread of its own.
CloseSocket ==
    /\ sock_open' = FALSE
    /\ inflight' = inflight \ SocketOps
    /\ \E aborted \in SetToSeqs(SocketOps) :
           ready' = ready \o [i \in DOMAIN aborted |-> Completed(aborted[i], FALSE)]

\* An operation ends, well or not, and its handler is posted.
Complete(op) ==
    /\ \E ok \in BOOLEAN :
        /\ op.kind = "resolve" /\ ~LookupFails => ok
        /\ ready' = Append(ready, Completed(op, ok))
    /\ inflight' = inflight \ {op}
    /\ UNCHANGED <<curstate, transport, sock_open, resolver, resolve_iterator,
                   send_job_running, attempt, running, destroyed, terminated>>

\* The io thread takes the next handler, which locks its weak_impl: nothing
\* more happens if the implementation is gone.
RunNextHandler ==
    /\ running = Nothing
    /\ ready # <<>>
    /\ running' = IF destroyed THEN Nothing ELSE Head(ready)
    /\ ready' = Tail(ready)
    /\ UNCHANGED <<curstate, transport, sock_open, resolver, resolve_iterator,
                   send_job_running, attempt, inflight, destroyed, terminated>>

----------------------------------------------------------------------------
(* Disconnecting                                                           *)

\* Whether do_unscheduled_disconnect gets through: get_socket() throws without
\* a socket, and sock.cancel() throws for a socket that is not open.
CanDisconnect == transport # "none" /\ sock_open

\* clear_resolver: a resolver that is gone has left no addresses behind.
ClearResolver ==
    /\ resolver' = FALSE
    /\ resolve_iterator' = IF resolver THEN 0 ELSE resolve_iterator

\* Variant: cancel what is under way, but do not close the socket.
DoUnscheduledDisconnectNotClosing ==
    /\ CanDisconnect
    /\ inflight' = inflight \ SocketOps
    /\ \E aborted \in SetToSeqs(SocketOps) :
           ready' = ready \o [i \in DOMAIN aborted |-> Completed(aborted[i], FALSE)]
    /\ ClearResolver
    /\ send_job_running' = FALSE
    /\ curstate' = "disconnected"
    /\ UNCHANGED sock_open

\* do_unscheduled_disconnect: shutdown, cancel, close; clear_resolver and
\* buffers.clear; state::disconnected.
DoUnscheduledDisconnect ==
    /\ CanDisconnect
    /\ CloseSocket
    /\ ClearResolver
    /\ send_job_running' = FALSE
    /\ curstate' = "disconnected"

\* In a handler the exception leaves io_service::run() and ends the program.
DisconnectInHandler ==
    \/ DoUnscheduledDisconnect /\ UNCHANGED terminated
    \/ /\ ~CanDisconnect
       /\ terminated' = TRUE
       /\ UNCHANGED <<curstate, sock_open, resolver, resolve_iterator,
                      send_job_running, inflight, ready>>

\* disconnect() while connecting or connected.  The exception reaches the
\* caller after the state has become disconnecting.
DoDisconnect ==
    \/ DoUnscheduledDisconnect
    \/ /\ ~CanDisconnect
       /\ curstate' = "disconnecting"
       /\ UNCHANGED <<sock_open, resolver, resolve_iterator,
                      send_job_running, inflight, ready>>

----------------------------------------------------------------------------
(* The chain of handlers that establishes a connection                     *)

\* Variant: the lines are out, but no further read is started.
RecvOnce == UNCHANGED <<inflight, ready, sock_open>>

\* recv(), once the buffered lines are out: read more.
Recv ==
    /\ StartOnSocket("read")
    /\ UNCHANGED sock_open

\* connect_success: clear_resolver, buffers.clear, state::connected, recv.
ConnectSuccess ==
    /\ ClearResolver
    /\ send_job_running' = FALSE
    /\ curstate' = "connected"
    /\ Recv
    /\ UNCHANGED terminated

\* Variant: the end of the addresses is not noticed.
ConnectTryNextPastEnd(n) ==
    /\ transport # "none"
    /\ StartConnect
    /\ resolve_iterator' = n - 1
    /\ UNCHANGED <<curstate, resolver, send_job_running, terminated>>

\* Variant: the same address again and again.
ConnectTrySame(n) ==
    /\ transport # "none"
    /\ StartConnect
    /\ resolve_iterator' = n
    /\ UNCHANGED <<curstate, resolver, send_job_running, terminated>>

\* connect_try_next with n addresses left.
ConnectTryNext(n) ==
    \/ n = 0 /\ DisconnectInHandler
    \/ /\ n > 0
       /\ transport = "none"
       /\ terminated' = TRUE
       /\ UNCHANGED <<curstate, sock_open, resolver, resolve_iterator,
                      send_job_running, inflight, ready>>
    \/ /\ n > 0
       /\ transport # "none"
       /\ StartConnect
       /\ resolve_iterator' = n - 1
       /\ UNCHANGED <<curstate, resolver, send_job_running, terminated>>

\* connect_opt_ssl_handshake.
ConnectOptSslHandshake ==
    \/ /\ transport = "ssl"
       /\ StartOnSocket("handshake")
       /\ UNCHANGED <<curstate, sock_open, resolver, resolve_iterator,
                      send_job_running, terminated>>
    \/ transport # "ssl" /\ ConnectSuccess

\* Every handler starts with "if (curstate != expected) return": an operation
\* that was aborted has nobody to report to.
Ignored(expected) ==
    /\ curstate # expected
    /\ UNCHANGED <<curstate, sock_open, resolver, resolve_iterator,
                   send_job_running, inflight, ready, terminated>>

\* emit_error, and nothing else.
OnlyReport ==
    UNCHANGED <<curstate, sock_open, resolver, resolve_iterator,
                send_job_running, inflight, ready, terminated>>

ResolveHandler ==
    /\ running.kind = "resolve"
    /\ \/ Ignored("connecting")
       \/ /\ curstate = "connecting"
          /\ \/ ~running.ok /\ DisconnectInHandler
             \/ running.ok /\ \E n \in 1..MaxCandidates : ConnectTryNext(n)

\* Variant: a failed address is reported, the next one is not tried.
ConnectHandlerGivingUp ==
    /\ running.kind = "connect"
    /\ \/ Ignored("connecting")
       \/ /\ curstate = "connecting"
          /\ \/ ~running.ok /\ OnlyReport
             \/ running.ok /\ ConnectOptSslHandshake

\* Variant: the error code is not looked at.
ConnectHandlerUnchecked ==
    /\ running.kind = "connect"
    /\ \/ Ignored("connecting")
       \/ curstate = "connecting" /\ ConnectOptSslHandshake

ConnectHandler ==
    /\ running.kind = "connect"
    /\ \/ Ignored("connecting")
       \/ /\ curstate = "connecting"
          /\ \/ ~running.ok /\ ConnectTryNext(resolve_iterator)
             \/ running.ok /\ ConnectOptSslHandshake

HandshakeHandler ==
    /\ running.kind = "handshake"
    /\ \/ Ignored("connecting")
       \/ /\ curstate = "connecting"
          /\ \/ ~running.ok /\ OnlyReport
             \/ running.ok /\ ConnectSuccess

ReadHandler ==
    /\ running.kind = "read"
    /\ \/ Ignored("connected")
       \/ /\ curstate = "connected"
          /\ \/ ~running.ok /\ DisconnectInHandler
             \/ /\ running.ok
                /\ Recv
                /\ UNCHANGED <<curstate, resolver, resolve_iterator,
                               send_job_running, terminated>>

\* The send callback goes on while there is something left to send.
WriteHandler ==
    /\ running.kind = "write"
    /\ \/ Ignored("connected")
       \/ /\ curstate = "connected"
          /\ \/ ~running.ok /\ DisconnectInHandler
             \/ /\ running.ok
                /\ \/ StartOnSocket("write") /\ UNCHANGED send_job_running
                   \/ send_job_running' = FALSE /\ UNCHANGED <<inflight, ready>>
                /\ UNCHANGED <<curstate, sock_open, resolver, resolve_iterator,
                               terminated>>

\* The handler gets impl::mutex and runs to its end.
RunHandler ==
    /\ running # Nothing
    /\ running' = Nothing
    /\ \/ ResolveHandler
       \/ ConnectHandler
       \/ HandshakeHandler
       \/ ReadHandler
       \/ WriteHandler
    /\ UNCHANGED <<transport, attempt, destroyed>>

----------------------------------------------------------------------------
(* The calls of the client                                                 *)

\* set_endpoint() for an endpoint that parses: a new transport, and the end of
\* the other one.
SetEndpoint(t) ==
    /\ curstate = "disconnected"
    /\ transport' = t
    /\ CloseSocket
    /\ UNCHANGED <<curstate, resolver, resolve_iterator, send_job_running,
                   attempt, running, destroyed, terminated>>

\* set_endpoint() for one that does not: set_invalid() drops ssl, not socket.
SetInvalid ==
    /\ curstate = "disconnected"
    /\ transport = "ssl"
    /\ transport' = "none"
    /\ CloseSocket
    /\ UNCHANGED <<curstate, resolver, resolve_iterator, send_job_running,
                   attempt, running, destroyed, terminated>>

\* connect() and connect_resolve().
Connect ==
    /\ curstate = "disconnected"
    /\ attempt < MaxConnects
    /\ EndpointFirst => transport # "none"
    /\ attempt' = attempt + 1
    /\ curstate' = "connecting"
    /\ resolver' = TRUE
    /\ inflight' = inflight \cup {[kind |-> "resolve", attempt |-> attempt + 1]}
    /\ UNCHANGED <<transport, sock_open, resolve_iterator, send_job_running,
                   ready, running, destroyed, terminated>>

Disconnect ==
    /\ curstate \in {"connecting", "connected"}
    /\ DoDisconnect
    /\ UNCHANGED <<transport, attempt, running, destroyed, terminated>>

\* current_state().
CurrentState == curstate

\* send_raw() on an established connection: append() starts the send job if
\* none is running.
SendRaw ==
    /\ curstate = "connected"
    /\ ~send_job_running
    /\ send_job_running' = TRUE
    /\ StartOnSocket("write")
    /\ UNCHANGED <<curstate, transport, sock_open, resolver, resolve_iterator,
                   attempt, running, destroyed, terminated>>

\* Variant: the destructor does not disconnect.
DestroyConnected ==
    /\ destroyed' = TRUE
    /\ UNCHANGED <<curstate, transport, sock_open, resolver, resolve_iterator,
                   send_job_running, attempt, inflight, ready, running,
                   terminated>>

\* ~connection() disconnects; an exception would leave a destructor and end
\* the program.
Destroy ==
    /\ destroyed' = TRUE
    /\ \/ /\ curstate \in {"connecting", "connected"}
          /\ DisconnectInHandler
       \/ /\ curstate \notin {"connecting", "connected"}
          /\ UNCHANGED <<curstate, sock_open, resolver, resolve_iterator,
                         send_job_running, inflight, ready, terminated>>
    /\ UNCHANGED <<transport, attempt, running>>

ClientStep ==
    /\ ~destroyed
    /\ ~terminated
    /\ \/ \E t \in Endpoints : SetEndpoint(t)
       \/ SetInvalid
       \/ Connect
       \/ Disconnect
       \/ SendRaw
       \/ Destroy

Next ==
    \/ ClientStep
    \/ /\ ~terminated
       /\ (\E op \in inflight : Complete(op)) \/ RunNextHandler \/ RunHandler

\* The io thread runs its handlers, and a lookup, an attempt to connect and a
\* handshake end.  Nobody has to send or receive anything.
Fairness ==
    /\ WF_vars(~terminated /\ RunNextHandler)
    /\ WF_vars(~terminated /\ RunHandler)
    /\ WF_vars(~terminated /\ \E op \in inflight :
                   op.kind \in {"resolve", "connect", "handshake"} /\ Complete(op))

Spec == Init /\ [][Next]_vars
FairSpec == Spec /\ Fairness

----------------------------------------------------------------------------
(* Properties                                                              *)

TypeOK ==
    /\ curstate \in States
    /\ transport \in {"none", "tcp", "ssl"}
    /\ sock_open \in BOOLEAN
    /\ resolver \in BOOLEAN
    /\ resolve_iterator \in 0..MaxCandidates
    /\ send_job_running \in BOOLEAN
    /\ attempt \in 0..MaxConnects
    /\ inflight \subseteq [kind : Kinds, attempt : 1..MaxConnects]
    /\ ready \in Seq([kind : Kinds, attempt : 1..MaxConnects, ok : BOOLEAN])
    /\ running \in {Nothing} \cup [kind : Kinds, attempt : 1..MaxConnects, ok : BOOLEAN]
    /\ destroyed \in BOOLEAN
    /\ terminated \in BOOLEAN

\* The operations of kind k that the current call of connect() has under way,
\* completed or being handled.
Current(k) ==
    {<<"inflight", op>> : op \in {o \in inflight : o.kind = k /\ o.attempt = attempt}}
        \cup {<<"ready", i>> : i \in {j \in DOMAIN ready :
                                  ready[j].kind = k /\ ready[j].attempt = attempt}}
        \cup (IF running.kind = k /\ running.attempt = attempt
              THEN {<<"running", running>>} ELSE {})

\* An established connection has exactly one read under way, or else its
\* handler still to run: data is neither missed nor read twice into
\* raw_recv_buffer.
ConnectedHasOneReader ==
    curstate = "connected" /\ ~terminated => \E x \in Current("read") : Current("read") = {x}

\* A disconnected connection has closed its socket and has nothing under way
\* on it.
DisconnectedIsClosed ==
    curstate = "disconnected" => ~sock_open /\ SocketOps = {}

\* A connection that is connecting gets somewhere: an operation of the current
\* attempt is under way or its handler is still to run, whatever of an earlier
\* attempt, over ssl too, runs in between.  With an ssl stream a handshake that
\* fails is only reported (connection.cpp:436), and nothing is left.
ConnectingHasWork ==
    curstate = "connecting" /\ transport # "ssl" /\ ~terminated =>
        Current("resolve") \cup Current("connect") \cup Current("handshake") # {}

\* Nothing happens in the name of a destroyed module: its reference, which
\* the handlers post events through, is not used.
QuietAfterDestroy ==
    [][destroyed => UNCHANGED <<curstate, sock_open>> /\ inflight' \subseteq inflight]_vars

\* Connected means that the socket is open: a connection is reported as
\* established only if it is.
ConnectedIsEstablished ==
    curstate = "connected" /\ ~terminated => sock_open

\* Whose handler runs.
OwnAttempt == running.attempt = attempt

\* A connection becomes connected by the current attempt only when its connect,
\* or over ssl its handshake, has succeeded and the socket is still open then,
\* though a client's call may close it between the completion and the handler;
\* and the socket stays open while connected.  The handlers of an earlier
\* attempt are the exception (connection.cpp:403): ConnectedIsEstablished.
EstablishedByOwnAttempt ==
    [][curstate' = "connected" =>
          IF curstate = "connected" THEN sock_open' = sock_open
          ELSE OwnAttempt =>
                 /\ running.ok /\ sock_open /\ sock_open'
                 /\ running.kind = IF transport = "ssl" THEN "handshake" ELSE "connect"]_vars

\* The state disconnecting is passed through under impl::mutex and never seen
\* by current_state() (apis/connection.hpp:73, 142).
DisconnectingNotReported == CurrentState # "disconnecting"

\* An attempt to connect ends, unless it is over ssl (connection.cpp:436).
AttemptEnds ==
    curstate = "connecting" /\ transport # "ssl" ~> curstate # "connecting" \/ terminated
=============================================================================
