---------------------------- MODULE SessionProofs ----------------------------
(***************************************************************************)
(* Proofs about Session, for every endpoint, any number of attempts and    *)
(* any bytes the server sends: the work on the service, what it leaves     *)
(* behind; that set_endpoint() takes an endpoint for what it means, for    *)
(* all names and digits in it; and that the lines of a session are those   *)
(* of the bytes the server has sent in it.                                 *)
(***************************************************************************)
EXTENDS Session, ConnectionProofs, WellFoundedInduction

----------------------------------------------------------------------------
(* The inductive invariant                                                 *)

\* The connection has something on the service.
HasWork == inflight # {} \/ ready # <<>> \/ running # Nothing

\* The service runs on while it has its work object, which only the destructor
\* of the static object takes away; it refuses everybody from then on.
ThreadStays ==
    /\ service_thread = "running" /\ ~internal_service_stopping => internal_service_work
    /\ service_thread = "returned" => internal_service_stopping
    /\ service_thread \in {"none", "running", "returned"}

SInv == ThreadStays /\ WorkHasThread

LEMMA InitSInv == SessionInit => SInv
  BY DEF SessionInit, Init, NetworkInit, SInv, ThreadStays, WorkHasThread

----------------------------------------------------------------------------
(* What the calls of the program leave on the service                      *)

LEMMA CloseSocketAddsNoWork ==
  ASSUME CloseSocket, inflight = {}, ready = <<>>
  PROVE  inflight' = {} /\ ready' = <<>>
<1>1. SocketOps = {} /\ inflight' = {}
  BY DEF CloseSocket, SocketOps
<1>2. PICK aborted \in SetToSeqs({}) :
         ready' = <<>> \o [i \in DOMAIN aborted |-> Completed(aborted[i], FALSE)]
  BY <1>1 DEF CloseSocket
<1>3. DOMAIN aborted = 1..0
  BY FS_EmptySet DEF SetToSeqs
<1>4. [i \in DOMAIN aborted |-> Completed(aborted[i], FALSE)] = <<>>
  BY <1>3
<1>5. QED
  BY <1>1, <1>2, <1>4

LEMMA DisconnectAddsNoWork ==
  ASSUME DoDisconnect \/ DisconnectInHandler, inflight = {}, ready = <<>>
  PROVE  inflight' = {} /\ ready' = <<>>
  BY CloseSocketAddsNoWork DEF DoDisconnect, DisconnectInHandler, DoUnscheduledDisconnect

\* A step that adds no work and leaves the service alone.
LEMMA NoNewWork ==
  ASSUME SInv, HasWork' => HasWork, UNCHANGED networkVars
  PROVE  SInv'
  BY DEF SInv, ThreadStays, WorkHasThread, HasWork, networkVars

\* The service is asked for: it has a thread then, or is not the internal one.
LEMMA GetServiceStep ==
  ASSUME SInv, GetService
  PROVE  SInv'
<1>1. ThreadStays'
  BY DEF SInv, ThreadStays, GetService
<1>2. current_service' = "internal" => service_thread' = "running"
  BY DEF SInv, ThreadStays, GetService, Refused
<1>3. QED
  BY <1>1, <1>2 DEF SInv, WorkHasThread

LEMMA LeaveStep ==
  ASSUME SInv, Leave
  PROVE  SInv'
<1>1. /\ Disconnect \/ Destroy
      /\ UNCHANGED networkVars /\ running' = running
  BY DEF Leave, Disconnect, Destroy
<1>2. inflight = {} /\ ready = <<>> => inflight' = {} /\ ready' = <<>>
  BY <1>1, DisconnectAddsNoWork DEF Disconnect, Destroy
<1>3. QED
  BY <1>1, <1>2, NoNewWork DEF HasWork

LEMMA SetEndpointToStep ==
  ASSUME SInv, NEW e, NEW p, SetEndpointTo(e, p)
  PROVE  SInv'
<1> DEFINE parsed == Parse(e.protocol, Written(e), p)
<1>1. CASE parsed # Invalid /\ ~Refused
  BY <1>1, GetServiceStep DEF SetEndpointTo
<1>2. CASE ~(parsed # Invalid /\ ~Refused)
  <2>1. UNCHANGED networkVars /\ (SetInvalid \/ UNCHANGED vars)
    BY <1>2 DEF SetEndpointTo
  <2>2. HasWork' => HasWork
    BY <2>1, CloseSocketAddsNoWork DEF SetInvalid, vars, HasWork
  <2>3. QED
    BY <2>1, <2>2, NoNewWork
<1>3. QED
  BY <1>1, <1>2

LEMMA ProgramStepStep ==
  ASSUME SInv, ProgramStep
  PROVE  SInv'
<1>1. CASE \E e \in WrittenEndpoints, p \in Ports : SetEndpointTo(e, p)
  BY <1>1, SetEndpointToStep
<1>2. CASE ConnectTo
  BY <1>2, GetServiceStep DEF ConnectTo
<1>3. CASE ConnectRefused
  BY <1>3, NoNewWork DEF ConnectRefused, HasWork
<1>4. CASE Leave
  BY <1>4, LeaveStep
<1>5. CASE RequestService
  BY <1>5, GetServiceStep DEF RequestService
<1>6. CASE UseExternal
  BY <1>6 DEF UseExternal, SetService, SInv, ThreadStays, WorkHasThread
<1>7. QED
  BY <1>1, <1>2, <1>3, <1>4, <1>5, <1>6 DEF ProgramStep

----------------------------------------------------------------------------
(* The thread of the service and the end of the program                    *)

\* Where there is work there is a thread, and a handler does not end it.
LEMMA WorkOnlyFromWork ==
  ASSUME SInv, HasWork, UNCHANGED networkVars
  PROVE  SInv'
  BY NoNewWork

LEMMA CompleteStep ==
  ASSUME SInv, NEW op \in inflight, CompleteWithBytes(op)
  PROVE  SInv'
  BY WorkOnlyFromWork DEF CompleteWithBytes, HasWork

LEMMA NextHandlerStep ==
  ASSUME SInv, NextHandler
  PROVE  SInv'
  BY WorkOnlyFromWork DEF NextHandler, RunNextHandler, HasWork

LEMMA HandlerRunsStep ==
  ASSUME SInv, HandlerRuns
  PROVE  SInv'
  BY WorkOnlyFromWork DEF HandlerRuns, RunHandler, HasWork

LEMMA ExitStep ==
  ASSUME SInv, Exit
  PROVE  SInv'
<1>1. UNCHANGED <<inflight, ready, running>>
  BY DEF Exit, vars
<1>2. CASE Destruct
  BY <1>1, <1>2 DEF Destruct, SInv, ThreadStays, WorkHasThread
<1>3. CASE RunReturns(Idle)
  BY <1>1, <1>3 DEF RunReturns, Idle, SInv, ThreadStays, WorkHasThread
<1>4. CASE Joined
  BY <1>1, <1>4 DEF Joined, SInv, ThreadStays, WorkHasThread
<1>5. QED
  BY <1>2, <1>3, <1>4 DEF Exit

LEMMA SessionStep == SInv /\ [SessionNext]_sessionVars => SInv'
<1> SUFFICES ASSUME SInv, [SessionNext]_sessionVars
             PROVE  SInv'
  OBVIOUS
<1>1. CASE UNCHANGED sessionVars
  BY <1>1, NoNewWork DEF sessionVars, vars, HasWork
<1>2. CASE ProgramStep
  BY <1>2, ProgramStepStep
<1>3. CASE Exit
  BY <1>3, ExitStep
<1>4. CASE (\E op \in inflight : CompleteWithBytes(op)) \/ NextHandler \/ HandlerRuns
  BY <1>4, CompleteStep, NextHandlerStep, HandlerRunsStep
<1>5. QED
  BY <1>1, <1>2, <1>3, <1>4 DEF SessionNext

----------------------------------------------------------------------------
(* The theorem                                                             *)

\* An operation of a connection always has a thread that will run its handler:
\* the internal service is not left by its thread, nor given an operation
\* after that, however connect(), disconnect(), handlers and the end of the
\* program interleave (network.cpp:54-56, 67-75).
THEOREM OperationsHaveThread == SessionSpec => []WorkHasThread
<1>1. SessionInit => SInv
  BY InitSInv
<1>2. SInv /\ [SessionNext]_sessionVars => SInv'
  BY SessionStep
<1>3. SInv => WorkHasThread
  BY DEF SInv
<1>4. QED
  BY <1>1, <1>2, <1>3, PTL DEF SessionSpec

----------------------------------------------------------------------------
(* A connection that is connecting with nothing under way                  *)

\* As long as no connect() has been refused the service, the connection is one
\* of Connection, with a tcp endpoint once it has connected.
Unrefused ==
    /\ Inv
    /\ TcpWork
    /\ attempt > 0 => transport = "tcp"

\* A connect() has been refused: the service stays refused, which only an
\* external one in its place could change, and it comes too late.
Stranded == Refused /\ transport = "tcp" /\ attempt \in Nat /\ attempt > 0

SetInv == Unrefused \/ Stranded

LEMMA ParsedTransport ==
  ASSUME NEW protocol, NEW text, NEW new_port, Parse(protocol, text, new_port) # Invalid
  PROVE  Parse(protocol, text, new_port).transport \in {"tcp", "ssl"}
<1> DEFINE url    == protocol # "none"
           slash  == FirstIn(text, {"/"})
           pend   == IF url /\ slash # 0 THEN slash ELSE Len(text) + 1
           begin  == IF url THEN LastIn(text, {"@"}, pend) + 1 ELSE 1
           pos    == LastIn(text, Characters \ {"8"}, pend)
           has    == pos >= begin /\ text[pos] = ":"
           hend   == IF has THEN pos ELSE pend
           parsed == [host |-> SubSeq(text, begin, hend - 1),
                      port |-> IF new_port # 0 THEN new_port
                               ELSE IF has THEN Number(SubSeq(text, pos + 1, Len(text)))
                               ELSE DefaultPort[IF protocol = "ircs" THEN "ssl" ELSE "tcp"],
                      transport |-> IF protocol = "ircs" THEN "ssl" ELSE "tcp"]
<1>1. Parse(protocol, text, new_port)
        = IF protocol = "http" \/ hend <= begin THEN Invalid ELSE parsed
  BY DEF Parse
<1>2. parsed.transport \in {"tcp", "ssl"}
  OBVIOUS
<1> HIDE DEF parsed, hend, begin
<1>3. QED
  BY <1>1, <1>2

\* set_endpoint() before the first attempt.
LEMMA EarlySetEndpoint ==
  ASSUME Unrefused, ~terminated, ~destroyed, attempt = 0,
         \/ \E t \in {"tcp", "ssl"} : SetEndpoint(t)
         \/ SetInvalid
         \/ UNCHANGED vars
  PROVE  Unrefused'
<1>1. CASE UNCHANGED vars
  <2>1. Inv' /\ TcpWork'
    BY <1>1, NextInv, NextTcpWork DEF Unrefused
  <2>2. QED
    BY <1>1, <2>1 DEF Unrefused, vars
<1>2. CASE (\E t \in {"tcp", "ssl"} : SetEndpoint(t)) \/ SetInvalid
  <2>1. /\ curstate = "disconnected" /\ CloseSocket /\ transport' \in {"none", "tcp", "ssl"}
        /\ UNCHANGED <<curstate, resolver, resolve_iterator, send_job_running, attempt,
                       running, destroyed, terminated>>
    BY <1>2 DEF SetEndpoint, SetInvalid
  <2>2. Order /\ Typed /\ IInv
    BY DEF Unrefused, Inv
  <2>3. Order'
    <3>1. ~LookupWaits /\ running.kind # "resolve" /\ resolver = FALSE /\ resolve_iterator = 0
      BY <2>1, <2>2 DEF Order, LookupFirst, ResolverEngaged, Typed, TypeOK
    <3>2. QED
      BY <2>1, <2>2, <3>1, ClosedOrder
  <2>4. Typed'
    <3>1. Grown
      BY <2>1, <2>2, CloseGrown DEF Order
    <3>2. RestTyped'
      BY <2>1, <2>2 DEF CloseSocket, Typed, TypeOK, RestTyped
    <3>3. QED
      BY <2>1, <2>2, <3>1, <3>2, GrownTyped
  <2>5. IInv'
    BY <2>1, <2>2, CloseSocketClosed DEF IInv, ClosedIsIdle, DisconnectedNotOpen, DestroyedIsInert
  <2>6. TcpWork'
    BY <1>2, SetEndpointWork
  <2>7. QED
    BY <2>1, <2>3, <2>4, <2>5, <2>6 DEF Unrefused, Inv
<1>3. QED
  BY <1>1, <1>2

LEMMA SetEndpointToSets ==
  ASSUME NEW e, NEW p, SetEndpointTo(e, p)
  PROVE  /\ attempt = 0
         /\ \/ \E t \in {"tcp", "ssl"} : SetEndpoint(t)
            \/ SetInvalid
            \/ UNCHANGED vars
<1> DEFINE parsed == Parse(e.protocol, Written(e), p)
<1>1. CASE parsed # Invalid /\ ~Refused
  <2>1. SetEndpoint(parsed.transport)
    BY <1>1 DEF SetEndpointTo
  <2>2. parsed.transport \in {"tcp", "ssl"}
    BY <1>1, ParsedTransport
  <2> HIDE DEF parsed
  <2>3. QED
    BY <2>1, <2>2 DEF SetEndpointTo
<1>2. CASE ~(parsed # Invalid /\ ~Refused)
  <2>1. SetInvalid \/ UNCHANGED vars
    BY <1>2 DEF SetEndpointTo
  <2>2. QED
    BY <2>1 DEF SetEndpointTo
<1>3. QED
  BY <1>1, <1>2

\* The other steps of the connection.
LEMMA ConnectionStep ==
  ASSUME Unrefused, ~terminated,
         \/ ~destroyed /\ ((Connect /\ transport = "tcp") \/ Disconnect \/ Destroy)
         \/ \E op \in inflight : Complete(op)
         \/ RunNextHandler
         \/ RunHandler
  PROVE  Unrefused'
<1>1. Next
  BY DEF Next, ClientStep
<1>2. Inv' /\ TcpWork'
  BY <1>1, NextInv, NextTcpWork DEF Unrefused
<1>3. transport' = transport /\ (attempt' = attempt \/ transport = "tcp")
  BY DEF Connect, Disconnect, Destroy, Complete, RunNextHandler, RunHandler
<1>4. QED
  BY <1>2, <1>3 DEF Unrefused

\* Only set_endpoint() changes the transport, and only before an attempt.
LEMMA StrandedStep ==
  ASSUME Stranded, [SessionNext]_sessionVars
  PROVE  Stranded'
<1>1. ASSUME UNCHANGED <<current_service, internal_service_stopping, transport>>,
             attempt' = attempt \/ attempt' = attempt + 1
      PROVE  Stranded'
  BY <1>1 DEF Stranded, Refused
<1>2. CASE ProgramStep
  <2>1. ~(\E e \in WrittenEndpoints, p \in Ports : SetEndpointTo(e, p))
    BY DEF SetEndpointTo, Stranded
  <2>2. CASE ConnectTo \/ ConnectRefused \/ Leave \/ RequestService
    BY <1>1, <2>2 DEF ConnectTo, Connect, ConnectRefused, Leave, Disconnect, Destroy,
                      RequestService, GetService, networkVars, vars
  <2>3. ~UseExternal
    BY DEF UseExternal, Stranded
  <2>4. QED
    BY <1>2, <2>1, <2>2, <2>3 DEF ProgramStep
<1>3. CASE Exit
  BY <1>3 DEF Exit, Destruct, RunReturns, Joined, vars, Stranded, Refused
<1>4. CASE (\E op \in inflight : CompleteWithBytes(op)) \/ NextHandler \/ HandlerRuns
  BY <1>1, <1>4 DEF CompleteWithBytes, Complete, NextHandler, RunNextHandler, HandlerRuns,
                    RunHandler, networkVars
<1>5. CASE UNCHANGED sessionVars
  BY <1>1, <1>5 DEF sessionVars, networkVars, vars
<1>6. QED
  BY <1>2, <1>3, <1>4, <1>5 DEF SessionNext

LEMMA UnrefusedStep ==
  ASSUME Unrefused, [SessionNext]_sessionVars
  PROVE  Unrefused' \/ (~terminated /\ ConnectRefused /\ Stranded')
<1>1. ASSUME UNCHANGED vars PROVE Unrefused'
  <2>1. Inv' /\ TcpWork'
    BY <1>1, NextInv, NextTcpWork DEF Unrefused
  <2>2. QED
    BY <1>1, <2>1 DEF Unrefused, vars
<1>2. CASE ProgramStep
  <2>1. ASSUME NEW e \in WrittenEndpoints, NEW p \in Ports, SetEndpointTo(e, p), ~destroyed
        PROVE  Unrefused'
    BY <1>2, <2>1, SetEndpointToSets, EarlySetEndpoint DEF ProgramStep
  <2>2. CASE ~destroyed /\ ConnectTo
    BY <1>2, <2>2, ConnectionStep DEF ProgramStep, ConnectTo
  <2>3. CASE ConnectRefused
    <3>1. attempt \in Nat
      BY ReadyTyped DEF Unrefused, Inv
    <3>2. Stranded'
      BY <2>3, <3>1 DEF ConnectRefused, Stranded, Refused, networkVars
    <3>3. QED
      BY <1>2, <2>3, <3>2 DEF ProgramStep
  <2>4. CASE ~destroyed /\ Leave
    BY <1>2, <2>4, ConnectionStep DEF ProgramStep, Leave
  <2>5. CASE RequestService \/ UseExternal
    BY <1>1, <2>5 DEF RequestService, UseExternal
  <2>6. QED
    BY <1>2, <2>1, <2>2, <2>3, <2>4, <2>5 DEF ProgramStep
<1>3. CASE Exit
  BY <1>1, <1>3 DEF Exit
<1>4. CASE ~terminated /\ ((\E op \in inflight : CompleteWithBytes(op)) \/ NextHandler \/ HandlerRuns)
  <2>1. \/ \E op \in inflight : Complete(op)
        \/ RunNextHandler
        \/ RunHandler
    BY <1>4 DEF CompleteWithBytes, NextHandler, HandlerRuns
  <2>2. QED
    BY <1>4, <2>1, ConnectionStep
<1>5. CASE UNCHANGED sessionVars
  BY <1>1, <1>5 DEF sessionVars
<1>6. QED
  BY <1>2, <1>3, <1>4, <1>5 DEF SessionNext

\* Whatever the program does with endpoints, the service and the connection,
\* and whenever the static object is destroyed: only a service that is refused
\* leaves a connection connecting with nothing under way for it
\* (connection.cpp:336-337, 357; network.cpp:67-69).
THEOREM StrandedByExit == SessionSpec => []OnlyExitStrands
<1>1. SessionInit => SetInv
  BY InitInv, InitTcpWork DEF SessionInit, Init, SetInv, Unrefused
<1>2. SetInv /\ [SessionNext]_sessionVars => SetInv'
  BY StrandedStep, UnrefusedStep DEF SetInv
<1>3. ASSUME SetInv PROVE OnlyExitStrands
  <2>1. CASE Stranded
    BY <2>1 DEF Stranded, OnlyExitStrands
  <2>2. CASE Unrefused /\ curstate = "connecting" /\ ~terminated
    <3>1. Order /\ Typed /\ Work
      BY <2>2 DEF Unrefused, Inv, TcpWork
    <3>2. attempt > 0
      BY <2>2, <3>1, ReadyTyped DEF Order, Begun
    <3>3. transport = "tcp"
      BY <2>2, <3>2 DEF Unrefused
    <3>4. QED
      BY <2>2, <3>1, <3>3, WorkIsCurrent DEF OnlyExitStrands
  <2>3. QED
    BY <1>3, <2>1, <2>2 DEF SetInv, OnlyExitStrands
<1>4. QED
  BY <1>1, <1>2, <1>3, PTL DEF SessionSpec

----------------------------------------------------------------------------
(* What an endpoint is taken for                                           *)

LEMMA FirstInFound ==
  ASSUME NEW text \in Seq(Characters), NEW S, NEW k \in 1..Len(text), text[k] \in S,
         \A i \in 1..Len(text) : i < k => text[i] \notin S
  PROVE  FirstIn(text, S) = k
<1> DEFINE at == {i \in DOMAIN text : text[i] \in S}
<1>1. DOMAIN text = 1..Len(text) /\ Len(text) \in Nat
  BY LenProperties
<1>2. k \in at /\ at \subseteq Nat /\ \A y \in at : k <= y
  BY <1>1
<1>3. FirstIn(text, S) = IF at = {} THEN 0 ELSE Min(at)
  BY DEF FirstIn
<1> HIDE DEF at
<1>4. Min(at) = CHOOSE x \in at : \A y \in at : x <= y
  BY DEF Min
<1>5. \A x \in at : (\A y \in at : x <= y) => x = k
  BY <1>2
<1>6. QED
  BY <1>2, <1>3, <1>4, <1>5

LEMMA FirstInNone ==
  ASSUME NEW text \in Seq(Characters), NEW S, \A i \in 1..Len(text) : text[i] \notin S
  PROVE  FirstIn(text, S) = 0
<1>1. {i \in DOMAIN text : text[i] \in S} = {}
  BY LenProperties
<1>2. QED
  BY <1>1 DEF FirstIn

LEMMA LastInFound ==
  ASSUME NEW text \in Seq(Characters), NEW S, NEW upto \in Nat,
         NEW k \in 1..Len(text), k <= upto, text[k] \in S,
         \A i \in 1..Len(text) : k < i /\ i <= upto => text[i] \notin S
  PROVE  LastIn(text, S, upto) = k
<1> DEFINE at == {i \in DOMAIN text : i <= upto /\ text[i] \in S}
<1>1. DOMAIN text = 1..Len(text) /\ Len(text) \in Nat
  BY LenProperties
<1>2. k \in at /\ at \subseteq Nat /\ \A y \in at : k >= y
  BY <1>1
<1>3. LastIn(text, S, upto) = IF at = {} THEN 0 ELSE Max(at)
  BY DEF LastIn
<1> HIDE DEF at
<1>4. Max(at) = CHOOSE x \in at : \A y \in at : x >= y
  BY DEF Max
<1>5. \A x \in at : (\A y \in at : x >= y) => x = k
  BY <1>2
<1>6. QED
  BY <1>2, <1>3, <1>4, <1>5

LEMMA LastInNone ==
  ASSUME NEW text \in Seq(Characters), NEW S, NEW upto \in Nat,
         \A i \in 1..Len(text) : i <= upto => text[i] \notin S
  PROVE  LastIn(text, S, upto) = 0
<1>1. {i \in DOMAIN text : i <= upto /\ text[i] \in S} = {}
  BY LenProperties
<1>2. QED
  BY <1>1 DEF LastIn

LEMMA LeastElement ==
  ASSUME NEW T, T \subseteq Nat, T # {}
  PROVE  \E x \in T : \A y \in T : x <= y
<1> DEFINE R == OpToRel(<, Nat)
<1>1. IsWellFoundedOn(R, Nat)
  BY NatLessThanWellFounded
<1>2. ASSUME NEW x \in Nat, NEW y \in Nat, <<y, x>> \notin R
      PROVE  x <= y
  BY <1>2 DEF OpToRel
<1> HIDE DEF R
<1>3. PICK x \in T : \A y \in T : <<y, x>> \notin R
  BY <1>1, WFMin
<1>4. ASSUME NEW y \in T
      PROVE  x <= y
  <2>1. x \in Nat /\ y \in Nat /\ <<y, x>> \notin R
    BY <1>3
  <2>2. QED
    BY <2>1, <1>2
<1>5. QED
  BY <1>4

LEMMA GreatestElement ==
  ASSUME NEW n \in Nat, NEW T, T \subseteq 1..n, T # {}
  PROVE  \E x \in T : \A y \in T : x >= y
<1> DEFINE U == {n - y : y \in T}
<1>1. U \subseteq Nat /\ U # {}
  <2>1. \A y \in T : n - y \in Nat
    <3>1. \A y \in 1..n : n - y \in Nat
      OBVIOUS
    <3>2. QED
      BY <3>1
  <2>2. QED
    BY <2>1
<1>2. PICK l \in U : \A k \in U : l <= k
  BY <1>1, LeastElement
<1>3. PICK x \in T : l = n - x
  OBVIOUS
<1>4. ASSUME NEW y \in T
      PROVE  x >= y
  <2>1. n - y \in U /\ x \in 1..n /\ y \in 1..n
    OBVIOUS
  <2>2. n - x <= n - y
    BY <1>2, <1>3, <2>1
  <2>3. QED
    BY <2>1, <2>2
<1>5. QED
  BY <1>4

LEMMA LastInBounds ==
  ASSUME NEW text \in Seq(Characters), NEW S, NEW upto \in Nat
  PROVE  \/ LastIn(text, S, upto) = 0
         \/ /\ LastIn(text, S, upto) \in 1..Len(text)
            /\ LastIn(text, S, upto) <= upto
            /\ text[LastIn(text, S, upto)] \in S
<1> DEFINE at == {i \in DOMAIN text : i <= upto /\ text[i] \in S}
<1>1. DOMAIN text = 1..Len(text) /\ Len(text) \in Nat
  BY LenProperties
<1>2. at = {} \/ Max(at) \in at
  <2>1. SUFFICES ASSUME at # {} PROVE Max(at) \in at
    OBVIOUS
  <2>2. at \subseteq 1..Len(text)
    BY <1>1
  <2>3. PICK m \in at : \A y \in at : m >= y
    BY <1>1, <2>1, <2>2, GreatestElement
  <2> HIDE DEF at
  <2>4. QED
    BY <2>3 DEF Max
<1>3. QED
  BY <1>1, <1>2 DEF LastIn

\* The text is put together of u, h, p and t, which are so long.
Composed(text, u, h, p, t, U, H, P, T) ==
    /\ text \in Seq(Characters) /\ Len(text) = U + H + P + T
    /\ U \in Nat /\ H \in Nat /\ P \in Nat /\ T \in Nat
    /\ \A i \in 1..Len(text) :
          \/ i \in 1..U /\ text[i] = u[i]
          \/ i - U \in 1..H /\ text[i] = h[i - U]
          \/ i - U - H \in 1..P /\ text[i] = p[i - U - H]
          \/ i - U - H - P \in 1..T /\ text[i] = t[i - U - H - P]
    /\ \A i \in 1..U : text[i] = u[i]
    /\ \A i \in 1..H : text[U + i] = h[i]
    /\ \A i \in 1..P : text[U + H + i] = p[i]
    /\ \A i \in 1..T : text[U + H + P + i] = t[i]

LEMMA WrittenParts ==
  ASSUME NEW u \in Seq(Characters), NEW h \in Seq(Characters),
         NEW p \in Seq(Characters), NEW t \in Seq(Characters),
         NEW text, text = u \o h \o p \o t,
         NEW U, NEW H, NEW P, NEW T, U = Len(u), H = Len(h), P = Len(p), T = Len(t)
  PROVE  Composed(text, u, h, p, t, U, H, P, T)
<1>1. U \in Nat /\ H \in Nat /\ P \in Nat /\ T \in Nat
  BY LenProperties
<1>2. PICK v, w : v = u \o h /\ w = v \o p
  OBVIOUS
<1>3. /\ v \in Seq(Characters) /\ Len(v) = U + H
      /\ \A i \in 1..(U + H) : v[i] = IF i <= U THEN u[i] ELSE h[i - U]
  BY <1>2, ConcatProperties
<1>4. /\ w \in Seq(Characters) /\ Len(w) = U + H + P
      /\ \A i \in 1..(U + H + P) : w[i] = IF i <= U + H THEN v[i] ELSE p[i - (U + H)]
  BY <1>2, <1>3, ConcatProperties
<1>5. /\ text \in Seq(Characters) /\ Len(text) = U + H + P + T
      /\ \A i \in 1..(U + H + P + T) :
            text[i] = IF i <= U + H + P THEN w[i] ELSE t[i - (U + H + P)]
  BY <1>2, <1>4, ConcatProperties
<1>6. \A i \in 1..U : text[i] = u[i]
  BY <1>1, <1>3, <1>4, <1>5
<1>7. \A i \in 1..H : text[U + i] = h[i]
  <2>1. SUFFICES ASSUME NEW i \in 1..H PROVE text[U + i] = h[i]
    OBVIOUS
  <2>2. PICK k : k = U + i
    OBVIOUS
  <2>3. /\ k \in 1..(U + H) /\ ~(k <= U) /\ k - U = i /\ k <= U + H /\ k <= U + H + P
        /\ k \in 1..(U + H + P) /\ k \in 1..(U + H + P + T)
    BY <1>1, <2>1, <2>2
  <2>4. QED
    BY <1>3, <1>4, <1>5, <2>2, <2>3
<1>8. \A i \in 1..P : text[U + H + i] = p[i]
  <2>1. SUFFICES ASSUME NEW i \in 1..P PROVE text[U + H + i] = p[i]
    OBVIOUS
  <2>2. PICK k : k = U + H + i
    OBVIOUS
  <2>3. /\ k \in 1..(U + H + P) /\ ~(k <= U + H) /\ k - (U + H) = i /\ k <= U + H + P
        /\ k \in 1..(U + H + P + T)
    BY <1>1, <2>1, <2>2
  <2>4. QED
    BY <1>4, <1>5, <2>2, <2>3
<1>9. \A i \in 1..T : text[U + H + P + i] = t[i]
  <2>1. SUFFICES ASSUME NEW i \in 1..T PROVE text[U + H + P + i] = t[i]
    OBVIOUS
  <2>2. PICK k : k = U + H + P + i
    OBVIOUS
  <2>3. /\ k \in 1..(U + H + P + T) /\ ~(k <= U + H + P) /\ k - (U + H + P) = i
    BY <1>1, <2>1, <2>2
  <2>4. QED
    BY <1>5, <2>2, <2>3
<1>10. ASSUME NEW i \in 1..Len(text)
       PROVE  \/ i \in 1..U /\ text[i] = u[i]
              \/ i - U \in 1..H /\ text[i] = h[i - U]
              \/ i - U - H \in 1..P /\ text[i] = p[i - U - H]
              \/ i - U - H - P \in 1..T /\ text[i] = t[i - U - H - P]
  <2>1. PICK j, k, l : j = i - U /\ k = i - U - H /\ l = i - U - H - P
    OBVIOUS
  <2>2. /\ i \in 1..U \/ j \in 1..H \/ k \in 1..P \/ l \in 1..T
        /\ i = U + j /\ i = U + H + k /\ i = U + H + P + l
    BY <1>1, <1>5, <2>1
  <2>3. QED
    BY <1>6, <1>7, <1>8, <1>9, <2>1, <2>2
<1>11. QED
  BY <1>1, <1>5, <1>6, <1>7, <1>8, <1>9, <1>10 DEF Composed

LEMMA SubSeqIs ==
  ASSUME NEW s \in Seq(Characters), NEW r \in Seq(Characters), NEW m \in Nat, NEW n \in Nat,
         m \in 1..(n + 1), n <= Len(s), Len(r) = n - m + 1,
         \A i \in 1..Len(r) : r[i] = s[m + i - 1]
  PROVE  SubSeq(s, m, n) = r
<1>1. PICK q : q = SubSeq(s, m, n)
  OBVIOUS
<1>2. Len(s) \in Nat /\ m \in Int /\ n \in Int
  BY LenProperties
<1>3. \A i \in m..n : s[i] \in Characters
  <2>1. \A i \in m..n : i \in 1..Len(s)
    BY <1>2
  <2>2. QED
    BY <2>1, ElementOfSeq
<1>4. /\ q \in Seq(Characters) /\ Len(q) = IF m <= n THEN n - m + 1 ELSE 0
      /\ \A i \in 1..(n - m + 1) : q[i] = s[m + i - 1]
  BY <1>1, <1>2, <1>3, SubSeqProperties
<1>5. Len(q) = Len(r)
  BY <1>4
<1>6. \A i \in 1..Len(q) : q[i] = r[i]
  BY <1>4, <1>5
<1>7. q = r
  BY <1>4, <1>5, <1>6, SeqEqual
<1>8. QED
  BY <1>1, <1>7

\* An endpoint that is not one of those named by Misread is taken for what the
\* client means by it: whatever the names, the digits and the parts that are
\* there.
LEMMA ParsesAsMeant ==
  ASSUME NEW e, WellFormed(e), ~Misread(e), NEW new_port
  PROVE  Parse(e.protocol, Written(e), new_port) = Meant(e, new_port)
<1>1. PICK protocol, u, h, p, t, text :
         /\ protocol = e.protocol /\ u = e.user /\ h = e.host /\ p = e.port /\ t = e.path
         /\ text = Written(e) /\ text = u \o h \o p \o t
  BY DEF Written
<1>2. /\ u \in Seq(Characters) /\ h \in Seq(Characters)
      /\ p \in Seq(Characters) /\ t \in Seq(Characters)
  BY <1>1 DEF WellFormed
<1>3. PICK U, H, P, T : U = Len(u) /\ H = Len(h) /\ P = Len(p) /\ T = Len(t)
  OBVIOUS
<1>4. /\ text \in Seq(Characters) /\ Len(text) = U + H + P + T
      /\ U \in Nat /\ H \in Nat /\ P \in Nat /\ T \in Nat
      /\ \A i \in 1..Len(text) :
            \/ i \in 1..U /\ text[i] = u[i]
            \/ i - U \in 1..H /\ text[i] = h[i - U]
            \/ i - U - H \in 1..P /\ text[i] = p[i - U - H]
            \/ i - U - H - P \in 1..T /\ text[i] = t[i - U - H - P]
      /\ \A i \in 1..U : text[i] = u[i]
      /\ \A i \in 1..H : text[U + i] = h[i]
      /\ \A i \in 1..P : text[U + H + i] = p[i]
      /\ \A i \in 1..T : text[U + H + P + i] = t[i]
  <2>1. text = u \o h \o p \o t
    BY <1>1
  <2>2. Composed(text, u, h, p, t, U, H, P, T)
    BY ONLY <1>2, <1>3, <2>1, WrittenParts
  <2>3. QED
    BY <2>2 DEF Composed
\* What the parts are made of.
<1>5. (U > 0 => u[U] = "@") /\ \A i \in 1..U : u[i] # "/"
  <2>1. u = <<>> \/ (Last(u) = "@" /\ "/" \notin Range(u))
    BY <1>1 DEF WellFormed
  <2>2. u # <<>> => Last(u) = u[U]
    BY <1>3 DEF Last
  <2>3. \A i \in 1..U : u[i] \in Range(u)
    BY <1>2, <1>3, LenProperties DEF Range
  <2>4. u = <<>> <=> U = 0
    BY <1>2, <1>3, EmptySeq
  <2>5. QED
    BY <1>4, <2>1, <2>2, <2>3, <2>4
<1>6. \A i \in 1..H : h[i] \notin {"@", "/", ":", "["}
  <2>1. \A i \in 1..H : h[i] \in Range(h)
    BY <1>2, <1>3, LenProperties DEF Range
  <2>2. {"@", "/", ":", "["} \cap Range(h) = {}
    BY <1>1 DEF WellFormed, Misread
  <2>3. QED
    BY <2>1, <2>2
<1>7. (P > 0 => p[1] = ":") /\ \A i \in 1..P : i # 1 => p[i] = "8"
  <2>1. SUFFICES ASSUME P > 0
                 PROVE  p[1] = ":" /\ \A i \in 1..P : i # 1 => p[i] = "8"
    BY <1>4
  <2>2. p # <<>>
    BY <1>3, <2>1, EmptySeq
  <2>3. Head(p) = ":" /\ Range(Tail(p)) \subseteq {"8"}
    BY <1>1, <2>2 DEF WellFormed
  <2>4. /\ p[1] = Head(p) /\ Tail(p) \in Seq(Characters) /\ Len(Tail(p)) = P - 1
        /\ \A i \in 1..Len(Tail(p)) : Tail(p)[i] = p[i + 1]
    BY <1>2, <1>3, <2>2, HeadTailProperties
  <2>5. PICK r : r = Tail(p)
    OBVIOUS
  <2>6. \A i \in 1..(P - 1) : r[i] = "8" /\ r[i] = p[i + 1]
    BY <2>3, <2>4, <2>5, LenProperties DEF Range
  <2>7. ASSUME NEW i \in 1..P, i # 1
        PROVE  p[i] = "8"
    <3>1. PICK k : k = i - 1
      OBVIOUS
    <3>2. k \in 1..(P - 1) /\ k + 1 = i
      BY <1>4, <2>7, <3>1
    <3>3. QED
      BY <2>6, <3>2
  <2>8. QED
    BY <2>3, <2>4, <2>7
<1>8. (T > 0 => t[1] = "/") /\ (T > 0 => P = 0)
  <2>1. (t = <<>> <=> T = 0) /\ (p = <<>> <=> P = 0)
    BY <1>2, <1>3, EmptySeq
  <2>2. t # <<>> => Head(t) = "/" /\ p = <<>>
    BY <1>1 DEF WellFormed, Misread
  <2>3. t # <<>> => Head(t) = t[1]
    BY <1>2, HeadTailProperties
  <2>4. QED
    BY <1>4, <2>1, <2>2, <2>3
<1>9. protocol = "none" => U = 0 /\ T = 0
  BY <1>1, <1>3, EmptySeq DEF WellFormed
<1>10. PICK E : E = U + H + P + 1
  OBVIOUS
<1>11. E \in Nat /\ E # 0 /\ (T > 0 => E \in 1..Len(text) /\ text[E] = "/")
  <2>1. E \in Nat /\ E # 0
    BY <1>4, <1>10
  <2>2. T > 0 => E \in 1..Len(text) /\ 1 \in 1..T
    BY <1>4, <1>10
  <2>3. QED
    BY <1>4, <1>8, <1>10, <2>1, <2>2
\* server_port_end
<1>12. FirstIn(text, {"/"}) = IF T > 0 THEN E ELSE 0
  <2>1. ASSUME NEW i \in 1..Len(text), T > 0 => i < E
        PROVE  text[i] # "/"
    <3>1. ~(i - U - H - P \in 1..T)
      BY <1>4, <1>10, <2>1
    <3>2. QED
      BY <1>4, <1>5, <1>6, <1>7, <3>1
  <2>2. CASE T > 0
    <3>1. E \in 1..Len(text) /\ text[E] \in {"/"}
      BY <1>11, <2>2
    <3>2. \A i \in 1..Len(text) : i < E => text[i] \notin {"/"}
      BY <2>1
    <3>3. FirstIn(text, {"/"}) = E
      BY <1>4, <3>1, <3>2, FirstInFound
    <3>4. QED
      BY <2>2, <3>3
  <2>3. CASE ~(T > 0)
    BY <1>4, <2>1, <2>3, FirstInNone
  <2>4. QED
    BY <2>2, <2>3
<1>13. (IF protocol # "none" /\ FirstIn(text, {"/"}) # 0
        THEN FirstIn(text, {"/"}) ELSE Len(text) + 1) = E
  <2>1. CASE T > 0
    BY <1>9, <1>11, <1>12, <2>1
  <2>2. CASE ~(T > 0)
    BY <1>4, <1>10, <1>12, <2>2
  <2>3. QED
    BY <2>1, <2>2
\* server_port_begin
<1>14. LastIn(text, {"@"}, E) = U
  <2>1. ASSUME NEW i \in 1..Len(text), i > U, i <= E
        PROVE  text[i] # "@"
    <3>1. i - U - H - P \in 1..T => i = E /\ T > 0
      BY <1>4, <1>10, <2>1
    <3>2. ~(i \in 1..U)
      BY <1>4, <2>1
    <3>3. QED
      BY <1>4, <1>6, <1>7, <1>11, <3>1, <3>2
  <2>2. CASE U > 0
    <3>1. U \in 1..Len(text) /\ U <= E /\ U \in 1..U
      BY <1>4, <1>10, <2>2
    <3>2. text[U] = "@"
      BY <1>4, <1>5, <2>2, <3>1
    <3>3. QED
      BY <1>4, <1>11, <2>1, <3>1, <3>2, LastInFound
  <2>3. CASE ~(U > 0)
    <3>1. U = 0 /\ \A i \in 1..Len(text) : i > U
      BY <1>4, <2>3
    <3>2. QED
      BY <1>4, <1>11, <2>1, <3>1, LastInNone
  <2>4. QED
    BY <2>2, <2>3
<1>15. (IF protocol # "none" THEN LastIn(text, {"@"}, E) + 1 ELSE 1) = U + 1
  BY <1>9, <1>14
\* The port
<1>16. PICK pos : pos = LastIn(text, Characters \ {"8"}, E)
  OBVIOUS
<1>17. PICK host_end : host_end = IF pos >= U + 1 /\ text[pos] = ":" THEN pos ELSE E
  OBVIOUS
<1>18. ASSUME P > 0
       PROVE  /\ host_end = U + H + 1 /\ p # <<>>
              /\ pos >= U + 1 /\ text[pos] = ":"
              /\ Tail(p) = SubSeq(text, pos + 1, Len(text))
  <2>1. T = 0 /\ U + H + 1 \in 1..Len(text) /\ U + H + 1 <= E /\ 1 \in 1..P
    BY <1>4, <1>8, <1>10, <1>18
  <2>2. text[U + H + 1] = ":"
    BY <1>4, <1>7, <1>18, <2>1
  <2>3. ASSUME NEW i \in 1..Len(text), U + H + 1 < i
        PROVE  text[i] = "8"
    <3>1. PICK k : k = i - U - H
      OBVIOUS
    <3>2. k \in 1..P /\ k # 1 /\ U + H + k = i
      BY <1>4, <2>1, <2>3, <3>1
    <3>3. QED
      BY <1>4, <1>7, <3>2
  <2>4. ":" \in Characters \ {"8"}
    BY DEF Characters
  <2>5. PICK k : k = U + H + 1
    OBVIOUS
  <2>6. pos = k
    <3>1. k \in 1..Len(text) /\ k <= E /\ text[k] \in Characters \ {"8"}
      BY <2>1, <2>2, <2>4, <2>5
    <3>2. \A i \in 1..Len(text) : k < i /\ i <= E => text[i] \notin Characters \ {"8"}
      BY <2>3, <2>5
    <3>3. E \in Nat /\ text \in Seq(Characters)
      BY <1>4, <1>11
    <3>4. QED
      BY <1>16, <3>1, <3>2, <3>3, LastInFound
  <2>7. pos >= U + 1
    BY <1>4, <2>5, <2>6
  <2>8. host_end = U + H + 1 /\ text[pos] = ":"
    BY <1>17, <2>2, <2>5, <2>6, <2>7
  <2>9. Tail(p) = SubSeq(text, pos + 1, Len(text))
    <3>1. p # <<>>
      BY <1>3, <1>18, EmptySeq
    <3>2. PICK r : r = Tail(p)
      OBVIOUS
    <3>3. r \in Seq(Characters) /\ Len(r) = P - 1 /\ \A i \in 1..Len(r) : r[i] = p[i + 1]
      BY <1>2, <1>3, <3>1, <3>2, HeadTailProperties
    <3>4. PICK m, n : m = pos + 1 /\ n = Len(text)
      OBVIOUS
    <3>5. /\ m \in Nat /\ n \in Nat /\ m \in 1..(n + 1) /\ n <= Len(text)
          /\ Len(r) = n - m + 1
      BY <1>4, <1>18, <2>1, <2>5, <2>6, <3>3, <3>4
    <3>6. \A i \in 1..Len(r) : r[i] = text[m + i - 1]
      <4>1. SUFFICES ASSUME NEW i \in 1..Len(r) PROVE r[i] = text[m + i - 1]
        OBVIOUS
      <4>2. PICK l : l = i + 1
        OBVIOUS
      <4>3. l \in 1..P /\ m + i - 1 = U + H + l /\ r[i] = p[l]
        BY <1>4, <2>5, <2>6, <3>3, <3>4, <4>2
      <4>4. QED
        BY <1>4, <4>3
    <3>7. SubSeq(text, m, n) = r
      <4>1. text \in Seq(Characters)
        BY <1>4
      <4>2. QED
        BY <3>3, <3>5, <3>6, <4>1, SubSeqIs
    <3>8. QED
      BY <3>2, <3>4, <3>7
  <2>10. p # <<>>
    BY <1>3, <1>18, EmptySeq
  <2>11. QED
    BY <2>7, <2>8, <2>9, <2>10
<1>19. ASSUME P = 0
       PROVE  host_end = U + H + 1 /\ p = <<>> /\ ~(pos >= U + 1 /\ text[pos] = ":")
  <2>1. ASSUME pos >= U + 1
        PROVE  text[pos] # ":"
    <3>1. pos \in 1..Len(text) /\ pos <= E
      <4>1. pos # 0
        BY <1>4, <2>1
      <4>2. QED
        BY <1>4, <1>11, <1>16, <4>1, LastInBounds
    <3>2. ~(pos \in 1..U) /\ ~(pos - U - H \in 1..P)
      BY <1>4, <1>19, <2>1, <3>1
    <3>3. pos - U - H - P \in 1..T => pos = E /\ T > 0
      BY <1>4, <1>10, <3>1
    <3>4. QED
      BY <1>4, <1>6, <1>11, <3>1, <3>2, <3>3
  <2>2. host_end = E /\ E = U + H + 1
    BY <1>4, <1>10, <1>17, <1>19, <2>1
  <2>3. p = <<>>
    BY <1>2, <1>3, <1>19, EmptySeq
  <2>4. QED
    BY <2>1, <2>2, <2>3
<1>20. host_end = U + H + 1
  <2>1. P > 0 \/ P = 0
    BY <1>4
  <2>2. QED
    BY <1>18, <1>19, <2>1
\* The host
<1>21. SubSeq(text, U + 1, host_end - 1) = h
  <2>1. PICK m, n : m = U + 1 /\ n = host_end - 1
    OBVIOUS
  <2>2. m \in Nat /\ n \in Nat /\ m \in 1..(n + 1) /\ n <= Len(text) /\ Len(h) = n - m + 1
    BY <1>3, <1>4, <1>20, <2>1
  <2>3. \A i \in 1..Len(h) : h[i] = text[m + i - 1]
    <3>1. \A i \in 1..H : m + i - 1 = U + i
      BY <1>4, <2>1
    <3>2. QED
      BY <1>3, <1>4, <3>1
  <2>4. QED
    BY <1>2, <1>4, <2>1, <2>2, <2>3, SubSeqIs
<1>22. host_end <= U + 1 <=> h = <<>>
  <2>1. h = <<>> <=> H = 0
    BY <1>2, <1>3, EmptySeq
  <2>2. QED
    BY <1>4, <1>20, <2>1
<1>23. h # <<>> => Bare(h) = h
  <2>1. h # <<>> => Head(h) = h[1] /\ 1 \in 1..H
    BY <1>2, <1>3, HeadTailProperties, EmptySeq, LenProperties
  <2>2. QED
    BY <1>6, <2>1 DEF Bare
<1>24. PICK transport1, use_port :
          /\ transport1 = IF protocol = "ircs" THEN "ssl" ELSE "tcp"
          /\ use_port = IF new_port # 0 THEN new_port
                        ELSE IF pos >= U + 1 /\ text[pos] = ":"
                        THEN Number(SubSeq(text, pos + 1, Len(text)))
                        ELSE DefaultPort[transport1]
  OBVIOUS
<1>25. use_port = IF new_port # 0 THEN new_port
                  ELSE IF p # <<>> THEN Number(Tail(p)) ELSE DefaultPort[transport1]
  <2>1. P > 0 \/ P = 0
    BY <1>4
  <2>2. CASE P > 0
    BY <1>18, <1>24, <2>2
  <2>3. CASE P = 0
    BY <1>19, <1>24, <2>3
  <2>4. QED
    BY <2>1, <2>2, <2>3
<1>26. Parse(protocol, text, new_port) =
          IF protocol = "http" \/ host_end <= U + 1 THEN Invalid
          ELSE [host |-> SubSeq(text, U + 1, host_end - 1), port |-> use_port,
                transport |-> transport1]
  BY <1>13, <1>15, <1>16, <1>17, <1>24 DEF Parse
<1>27. Meant(e, new_port) =
          IF protocol = "http" \/ h = <<>> THEN Invalid
          ELSE [host |-> Bare(h), port |-> use_port, transport |-> transport1]
  BY <1>1, <1>24, <1>25 DEF Meant
<1>28. QED
  BY <1>1, <1>21, <1>22, <1>23, <1>26, <1>27

\* Unless the service was refused, the endpoint is the one last asked for.
LEMMA EndpointStep ==
  ASSUME internal_service_stopping \in BOOLEAN, EndpointAsMeant, [SessionNext]_sessionVars
  PROVE  EndpointAsMeant' /\ internal_service_stopping' \in BOOLEAN
<1>1. ASSUME UNCHANGED <<hostname, port, asked, transport>>,
             internal_service_stopping => internal_service_stopping',
             internal_service_stopping' \in BOOLEAN
      PROVE  EndpointAsMeant' /\ internal_service_stopping' \in BOOLEAN
  BY <1>1 DEF EndpointAsMeant
<1>2. ASSUME NEW e \in WrittenEndpoints, NEW p \in Ports, SetEndpointTo(e, p)
      PROVE  EndpointAsMeant' /\ internal_service_stopping' \in BOOLEAN
  <2>1. PICK parsed, meant : parsed = Parse(e.protocol, Written(e), p) /\ meant = Meant(e, p)
    OBVIOUS
  <2>2. Misread(e) \/ parsed = meant
    BY <2>1, SessionAssumption, ParsesAsMeant DEF SessionAssumption
  <2>3. /\ hostname' = parsed.host /\ port' = parsed.port
        /\ asked' = IF Misread(e) THEN MisreadEndpoint ELSE meant
    BY <1>2, <2>1 DEF SetEndpointTo
  <2>4. internal_service_stopping' = internal_service_stopping
    BY <1>2 DEF SetEndpointTo, GetService, networkVars
  <2>5. parsed # Invalid /\ ~Refused => transport' = parsed.transport
    BY <1>2, <2>1 DEF SetEndpointTo, SetEndpoint
  <2>6. internal_service_stopping \/ ~Refused
    BY DEF Refused
  <2>7. QED
    BY <2>2, <2>3, <2>4, <2>5, <2>6 DEF EndpointAsMeant
<1>3. CASE ProgramStep
  <2>1. CASE ConnectTo \/ ConnectRefused \/ Leave \/ RequestService \/ UseExternal
    BY <1>1, <2>1 DEF ConnectTo, Connect, ConnectRefused, Leave, Disconnect, Destroy,
                      RequestService, UseExternal, GetService, SetService, networkVars,
                      endpointVars, vars
  <2>2. QED
    BY <1>2, <1>3, <2>1 DEF ProgramStep
<1>4. CASE Exit
  <2>1. UNCHANGED <<hostname, port, asked, transport>>
    BY <1>4 DEF Exit, vars, endpointVars
  <2>2. CASE Destruct
    BY <1>1, <2>1, <2>2 DEF Destruct
  <2>3. CASE RunReturns(Idle)
    BY <1>1, <2>1, <2>3 DEF RunReturns
  <2>4. CASE Joined
    BY <1>1, <2>1, <2>4 DEF Joined
  <2>5. QED
    BY <1>4, <2>2, <2>3, <2>4 DEF Exit
<1>5. CASE (\E op \in inflight : CompleteWithBytes(op)) \/ NextHandler \/ HandlerRuns
  BY <1>1, <1>5 DEF CompleteWithBytes, Complete, NextHandler, RunNextHandler, HandlerRuns,
                    RunHandler, networkVars, endpointVars
<1>6. CASE UNCHANGED sessionVars
  BY <1>1, <1>6 DEF sessionVars, networkVars, endpointVars, vars
<1>7. QED
  BY <1>3, <1>4, <1>5, <1>6 DEF SessionNext

\* set_endpoint() takes host, port and transport for what its argument means
\* (modules/connection.hpp:132-178, connection.cpp:234-321): for all names,
\* digits and parts of an endpoint, apart from those that Misread names and
\* from a service that is refused.
THEOREM EndpointsTakenAsMeant == SessionSpec => []EndpointAsMeant
<1>1. SessionInit => EndpointAsMeant /\ internal_service_stopping \in BOOLEAN
  BY DEF SessionInit, NetworkInit, EndpointAsMeant
<1>2. EndpointAsMeant /\ internal_service_stopping \in BOOLEAN /\ [SessionNext]_sessionVars
         => (EndpointAsMeant /\ internal_service_stopping \in BOOLEAN)'
  BY EndpointStep
<1>3. QED
  BY <1>1, <1>2, PTL DEF SessionSpec

----------------------------------------------------------------------------
(* The lines of a stream                                                   *)

\* A set of numbers that has 0 and the successors of its elements has them all.
LEMMA Induction ==
  ASSUME NEW N \in Nat, NEW G, 0 \in G,
         \A n \in 0..(N - 1) : n \in G => n + 1 \in G
  PROVE  \A n \in 0..N : n \in G
<1> DEFINE Bad == {n \in 0..N : n \notin G}
<1>1. SUFFICES ASSUME Bad # {} PROVE FALSE
  OBVIOUS
<1>2. PICK x \in Bad : \A y \in Bad : x <= y
  <2>1. Bad \subseteq Nat
    OBVIOUS
  <2> HIDE DEF Bad
  <2>2. QED
    BY <1>1, <2>1, LeastElement
<1>3. x \in 0..N /\ x # 0 /\ x \notin G
  OBVIOUS
<1>4. x - 1 \in 0..(N - 1) /\ x - 1 \in 0..N
  BY <1>3
<1>5. x - 1 \in G
  BY <1>2, <1>3, <1>4
<1>6. (x - 1) + 1 \in G
  BY <1>4, <1>5
<1>7. (x - 1) + 1 = x
  BY <1>3
<1>8. QED
  BY <1>3, <1>6, <1>7

\* A set that has <<>> and what appending to its sequences makes has them all.
LEMMA AppendInduction ==
  ASSUME NEW T, NEW G, <<>> \in G,
         \A s \in Seq(T), x \in T : s \in G => Append(s, x) \in G
  PROVE  \A s \in Seq(T) : s \in G
<1> SUFFICES ASSUME NEW s \in Seq(T) PROVE s \in G
  OBVIOUS
<1> DEFINE H == {n \in 0..Len(s) : SubSeq(s, 1, n) \in G}
<1>1. Len(s) \in Nat
  BY LenProperties
<1>2. 0 \in H
  <2>1. SubSeq(s, 1, 0) = <<>>
    BY SubSeqEmpty
  <2>2. 0 \in 0..Len(s)
    BY <1>1
  <2>3. SubSeq(s, 1, 0) \in G
    BY <2>1
  <2>4. QED
    BY <2>2, <2>3, Zenon
<1>3. ASSUME NEW n \in 0..(Len(s) - 1), n \in H
      PROVE  n + 1 \in H
  <2>1. n + 1 \in 1..Len(s) /\ s[n + 1] \in T
    BY <1>1, ElementOfSeq
  <2>2. SubSeq(s, 1, n) \in Seq(T)
    BY <1>1, <2>1, SubSeqProperties
  <2>3. SubSeq(s, 1, n + 1) = Append(SubSeq(s, 1, n), s[n + 1])
    BY <1>1, <2>1, SubSeqRecursiveSecond
  <2>4. SubSeq(s, 1, n) \in G
    BY <1>3, Zenon
  <2>5. SubSeq(s, 1, n + 1) \in G
    BY <2>1, <2>2, <2>3, <2>4
  <2>6. n + 1 \in 0..Len(s)
    BY <1>1, <2>1
  <2>7. QED
    BY <2>5, <2>6, Zenon
<1>4. Len(s) \in H
  <2> HIDE DEF H
  <2>1. \A n \in 0..Len(s) : n \in H
    BY <1>1, <1>2, <1>3, Induction
  <2>2. QED
    BY <1>1, <2>1
<1>5. SubSeq(s, 1, Len(s)) = s
  BY SubSeqFull
<1>6. QED
  BY <1>4, <1>5

\* The line that goes up to position n has text at k.
HasText(s, n, k) ==
    k \in 1 .. n - 1 /\ s[k] \notin Blanks /\ \A j \in k .. n - 1 : s[j] # "\n"

LEMMA LineBeginLeast ==
  ASSUME NEW s, NEW n \in Nat
  PROVE  /\ LineBegin(s, n) \in Nat
         /\ LineBegin(s, n) = 0 => \A k : ~HasText(s, n, k)
         /\ LineBegin(s, n) # 0 => /\ HasText(s, n, LineBegin(s, n))
                                   /\ \A k : HasText(s, n, k) => LineBegin(s, n) <= k
<1> DEFINE text == {k \in 1 .. n - 1 : s[k] \notin Blanks /\ \A j \in k .. n - 1 : s[j] # "\n"}
<1>1. LineBegin(s, n) = IF text = {} THEN 0 ELSE Min(text)
  BY DEF LineBegin
<1>2. \A k : k \in text <=> HasText(s, n, k)
  BY DEF HasText
<1>3. text \subseteq Nat /\ 0 \notin text
  OBVIOUS
<1> HIDE DEF text
<1>4. CASE text = {}
  BY <1>1, <1>2, <1>4
<1>5. CASE text # {}
  <2>1. PICK m \in text : \A y \in text : m <= y
    BY <1>3, <1>5, LeastElement
  <2>2. Min(text) \in text /\ \A y \in text : Min(text) <= y
    BY <2>1 DEF Min
  <2>3. Min(text) \in Nat /\ Min(text) # 0
    BY <1>3, <2>2
  <2>4. QED
    BY <1>1, <1>2, <1>5, <2>2, <2>3
<1>6. QED
  BY <1>4, <1>5

\* Only what a line has text at counts.
LEMMA SameLineBegin ==
  ASSUME NEW s, NEW t, NEW m \in Nat, NEW n \in Nat,
         \A k : HasText(s, m, k) <=> HasText(t, n, k)
  PROVE  LineBegin(s, m) = LineBegin(t, n)
<1>1. PICK a \in Nat : /\ a = LineBegin(s, m)
                       /\ a = 0 => \A k : ~HasText(s, m, k)
                       /\ a # 0 => HasText(s, m, a) /\ \A k : HasText(s, m, k) => a <= k
  BY LineBeginLeast
<1>2. PICK b \in Nat : /\ b = LineBegin(t, n)
                       /\ b = 0 => \A k : ~HasText(t, n, k)
                       /\ b # 0 => HasText(t, n, b) /\ \A k : HasText(t, n, k) => b <= k
  BY LineBeginLeast
<1>3. a = b
  BY <1>1, <1>2
<1>4. QED
  BY <1>1, <1>2, <1>3

\* What follows the last line break, from its first byte of text on: the part
\* of a stream that later bytes go on with.
Unfinished(s) ==
    LET b == LineBegin(s, Len(s) + 1) IN IF b = 0 THEN <<>> ELSE SubSeq(s, b, Len(s))

\* A line without the "\r" at its end.
Trimmed(r) == IF r[Len(r)] = "\r" THEN SubSeq(r, 1, Len(r) - 1) ELSE r

LEMMA UnfinishedIs ==
  ASSUME NEW s \in Seq(Bytes)
  PROVE  /\ Unfinished(s) \in Seq(Bytes)
         /\ Unfinished(s) = <<>> <=> LineBegin(s, Len(s) + 1) = 0
         /\ LineBegin(s, Len(s) + 1) \in 0 .. Len(s)
         /\ Unfinished(s) # <<>> =>
               /\ Unfinished(s) = SubSeq(s, LineBegin(s, Len(s) + 1), Len(s))
               /\ HasText(s, Len(s) + 1, LineBegin(s, Len(s) + 1))
               /\ Len(Unfinished(s)) = Len(s) - LineBegin(s, Len(s) + 1) + 1
<1>1. Len(s) \in Nat /\ \A i \in 1 .. Len(s) : s[i] \in Bytes
  BY LenProperties, ElementOfSeq
<1>2. PICK b \in Nat : /\ b = LineBegin(s, Len(s) + 1)
                       /\ b # 0 => HasText(s, Len(s) + 1, b)
  BY <1>1, LineBeginLeast
<1>3. b # 0 => b \in 1 .. Len(s)
  BY <1>1, <1>2 DEF HasText
<1>4. Unfinished(s) = IF b = 0 THEN <<>> ELSE SubSeq(s, b, Len(s))
  BY <1>2 DEF Unfinished
<1>5. CASE b = 0
  <2>1. Unfinished(s) = <<>> /\ <<>> \in Seq(Bytes)
    BY <1>4, <1>5, EmptySeq
  <2>2. QED
    BY <1>1, <1>2, <1>5, <2>1
<1>6. CASE b # 0
  <2>1. /\ SubSeq(s, b, Len(s)) \in Seq(Bytes)
        /\ Len(SubSeq(s, b, Len(s))) = Len(s) - b + 1
    BY <1>1, <1>3, <1>6, SubSeqProperties
  <2>2. Unfinished(s) = SubSeq(s, b, Len(s))
    BY <1>4, <1>6
  <2>3. Unfinished(s) # <<>>
    <3>1. Len(s) - b + 1 # 0
      BY <1>1, <1>3, <1>6
    <3>2. Len(<<>>) = 0
      BY EmptySeq
    <3>3. QED
      BY <2>1, <2>2, <3>1, <3>2
  <2>4. QED
    BY <1>1, <1>2, <1>3, <1>6, <2>1, <2>2, <2>3
<1>7. QED
  BY <1>5, <1>6

\* A byte goes on with a line, or ends it, or is a blank before its text.
LEMMA LineBeginAppend ==
  ASSUME NEW s \in Seq(Bytes), NEW x \in Bytes
  PROVE  /\ \A n \in 0 .. Len(s) + 1 : LineBegin(Append(s, x), n) = LineBegin(s, n)
         /\ LineBegin(Append(s, x), Len(s) + 2) =
               IF x = "\n" THEN 0
               ELSE IF LineBegin(s, Len(s) + 1) # 0 THEN LineBegin(s, Len(s) + 1)
               ELSE IF x \in Blanks THEN 0 ELSE Len(s) + 1
<1>1. PICK t \in Seq(Bytes), N \in Nat :
         /\ t = Append(s, x) /\ N = Len(s) /\ Len(t) = N + 1 /\ t[N + 1] = x
         /\ \A i \in 1 .. N : t[i] = s[i]
  <2>1. Len(s) \in Nat
    BY LenProperties
  <2>2. /\ Append(s, x) \in Seq(Bytes) /\ Len(Append(s, x)) = Len(s) + 1
        /\ Append(s, x)[Len(s) + 1] = x /\ \A i \in 1 .. Len(s) : Append(s, x)[i] = s[i]
    BY AppendProperties
  <2>3. QED
    BY <2>1, <2>2
<1>2. \A n \in 0 .. N + 1 : \A k : HasText(t, n, k) <=> HasText(s, n, k)
  BY <1>1 DEF HasText
<1>3. \A n \in 0 .. N + 1 : LineBegin(t, n) = LineBegin(s, n)
  BY <1>2, SameLineBegin
<1>4. PICK a \in Nat : /\ a = LineBegin(s, N + 1)
                       /\ a = 0 => \A k : ~HasText(s, N + 1, k)
                       /\ a # 0 => HasText(s, N + 1, a) /\ \A k : HasText(s, N + 1, k) => a <= k
  BY LineBeginLeast
<1>5. PICK b \in Nat : /\ b = LineBegin(t, N + 2)
                       /\ b = 0 => \A k : ~HasText(t, N + 2, k)
                       /\ b # 0 => HasText(t, N + 2, b) /\ \A k : HasText(t, N + 2, k) => b <= k
  BY LineBeginLeast
<1>6. \A k \in 1 .. N : HasText(t, N + 2, k) <=> HasText(s, N + 1, k) /\ x # "\n"
  BY <1>1 DEF HasText
<1>7. HasText(t, N + 2, N + 1) <=> x \notin Blanks
  <2>1. x \notin Blanks => x # "\n"
    BY DEF Blanks
  <2>2. /\ N + 1 \in 1 .. (N + 2) - 1
        /\ \A j \in (N + 1) .. (N + 2) - 1 : j = N + 1
    OBVIOUS
  <2>3. QED
    BY <1>1, <2>1, <2>2 DEF HasText
<1>8. (\A k : HasText(t, N + 2, k) => k \in 1 .. N + 1) /\ (\A k : HasText(s, N + 1, k) => k \in 1 .. N)
  BY DEF HasText
<1>9. CASE x = "\n"
  <2>1. x \in Blanks
    BY <1>9 DEF Blanks
  <2>2. b = 0
    BY <1>5, <1>6, <1>7, <1>8, <1>9, <2>1
  <2>3. QED
    BY <1>1, <1>3, <1>5, <1>9, <2>2
<1>10. CASE x # "\n" /\ a # 0
  <2>1. b # 0 /\ a \in 1 .. N /\ HasText(t, N + 2, a)
    BY <1>4, <1>5, <1>6, <1>8, <1>10
  <2>2. b <= a /\ b \in 1 .. N
    BY <1>5, <1>8, <2>1
  <2>3. a <= b
    BY <1>4, <1>5, <1>6, <1>10, <2>1, <2>2
  <2>4. b = a
    BY <2>2, <2>3
  <2>5. QED
    BY <1>1, <1>3, <1>4, <1>5, <1>10, <2>4
<1>11. CASE x # "\n" /\ a = 0 /\ x \in Blanks
  <2>1. b = 0
    BY <1>4, <1>5, <1>6, <1>7, <1>8, <1>11
  <2>2. QED
    BY <1>1, <1>3, <1>4, <1>5, <1>11, <2>1
<1>12. CASE x # "\n" /\ a = 0 /\ x \notin Blanks
  <2>1. b = N + 1
    BY <1>4, <1>5, <1>6, <1>7, <1>8, <1>12
  <2>2. QED
    BY <1>1, <1>3, <1>4, <1>5, <1>12, <2>1
<1>13. QED
  BY <1>9, <1>10, <1>11, <1>12

LEMMA UnfinishedAppend ==
  ASSUME NEW s \in Seq(Bytes), NEW x \in Bytes
  PROVE  Unfinished(Append(s, x)) =
             IF x = "\n" \/ (Unfinished(s) = <<>> /\ x \in Blanks)
             THEN <<>> ELSE Append(Unfinished(s), x)
<1>1. PICK t \in Seq(Bytes), N \in Nat :
         /\ t = Append(s, x) /\ N = Len(s) /\ Len(t) = N + 1 /\ t[N + 1] = x
         /\ \A i \in 1 .. N : t[i] = s[i]
  <2>1. Len(s) \in Nat
    BY LenProperties
  <2>2. /\ Append(s, x) \in Seq(Bytes) /\ Len(Append(s, x)) = Len(s) + 1
        /\ Append(s, x)[Len(s) + 1] = x /\ \A i \in 1 .. Len(s) : Append(s, x)[i] = s[i]
    BY AppendProperties
  <2>3. QED
    BY <2>1, <2>2
<1>2. PICK a \in 0 .. N : a = LineBegin(s, N + 1)
  BY <1>1, UnfinishedIs
<1>3. Unfinished(s) = (IF a = 0 THEN <<>> ELSE SubSeq(s, a, N)) /\ (Unfinished(s) = <<>> <=> a = 0)
  BY <1>1, <1>2, UnfinishedIs DEF Unfinished
<1>4. PICK b : b = LineBegin(t, N + 2)
  OBVIOUS
<1>5. Unfinished(t) = IF b = 0 THEN <<>> ELSE SubSeq(t, b, N + 1)
  <2>1. (N + 1) + 1 = N + 2
    OBVIOUS
  <2>2. QED
    BY <1>1, <1>4, <2>1 DEF Unfinished
<1>6. b = IF x = "\n" THEN 0 ELSE IF a # 0 THEN a ELSE IF x \in Blanks THEN 0 ELSE N + 1
  BY <1>1, <1>2, <1>4, LineBeginAppend
<1>7. CASE x = "\n" \/ (a = 0 /\ x \in Blanks)
  BY <1>1, <1>3, <1>5, <1>6, <1>7
<1>8. CASE x # "\n" /\ a # 0
  <2>1. b = a /\ a \in 1 .. N + 1 /\ N + 1 \in a .. N + 1
    BY <1>6, <1>8
  <2>2. SubSeq(t, a, N + 1) = SubSeq(t, a, N) \o <<x>>
    BY <1>1, <2>1, SubSeqRecursiveSecond
  <2>3. SubSeq(t, a, N) = SubSeq(s, a, N)
    <3>1. s = SubSeq(s, 1, N)
      BY <1>1, SubSeqFull
    <3>2. t = s \o <<x>>
      BY <1>1, AppendIsConcat
    <3>3. <<x>> \in Seq(Bytes)
      OBVIOUS
    <3>4. a \in 1 .. N /\ N \in 1 .. N
      BY <1>2, <1>8
    <3>5. QED
      BY <1>1, <3>2, <3>3, <3>4, SubSeqOfConcat1
  <2>4. SubSeq(s, a, N) \in Seq(Bytes)
    BY <1>1, <1>3, <1>8, UnfinishedIs
  <2>5. Append(SubSeq(s, a, N), x) = SubSeq(s, a, N) \o <<x>>
    BY <2>4, AppendIsConcat
  <2>6. Unfinished(t) = Append(Unfinished(s), x)
    BY <1>3, <1>5, <1>8, <2>1, <2>2, <2>3, <2>5
  <2>7. QED
    BY <1>1, <1>3, <1>8, <2>6
<1>9. CASE x # "\n" /\ a = 0 /\ x \notin Blanks
  <2>1. b = N + 1 /\ b # 0
    BY <1>6, <1>9
  <2>2. SubSeq(t, N + 1, N + 1) = <<x>>
    <3>1. N + 1 \in 1 .. Len(t) /\ N + 1 \in (N + 1) .. Len(t)
      BY <1>1
    <3>2. SubSeq(t, N + 1, N + 1) = SubSeq(t, N + 1, (N + 1) - 1) \o <<t[N + 1]>>
      BY <3>1, SubSeqRecursiveSecond
    <3>3. SubSeq(t, N + 1, (N + 1) - 1) = <<>>
      BY SubSeqEmpty
    <3>4. <<>> \o <<x>> = <<x>>
      OBVIOUS
    <3>5. QED
      BY <1>1, <3>2, <3>3, <3>4
  <2>3. Append(<<>>, x) = <<x>>
    OBVIOUS
  <2>4. QED
    BY <1>1, <1>3, <1>5, <1>9, <2>1, <2>2, <2>3
<1>10. QED
  BY <1>7, <1>8, <1>9

LEMMA UnfinishedEmpty == Unfinished(<<>>) = <<>> /\ <<>> \in Seq(Bytes)
<1>1. <<>> \in Seq(Bytes) /\ Len(<<>>) = 0
  BY EmptySeq
<1>2. LineBegin(<<>>, 1) = 0
  <2>1. \A k : ~HasText(<<>>, 1, k)
    BY DEF HasText
  <2>2. QED
    BY <2>1, LineBeginLeast
<1>3. QED
  BY <1>1, <1>2 DEF Unfinished

\* A line break ends the line that is unfinished before it.
LEMMA LineIsTrimmed ==
  ASSUME NEW s \in Seq(Bytes), Unfinished(s) # <<>>
  PROVE  /\ Line(Append(s, "\n"), Len(s) + 1) = Trimmed(Unfinished(s))
         /\ Trimmed(Unfinished(s)) \in Seq(Bytes)
<1> DEFINE N == Len(s)
           a == LineBegin(s, N + 1)
           t == Append(s, "\n")
           r == Unfinished(s)
<1>1. /\ N \in Nat /\ a \in 1 .. N /\ r = SubSeq(s, a, N) /\ r \in Seq(Bytes)
      /\ Len(r) = N - a + 1 /\ s[a] \notin Blanks /\ \A i \in 1 .. N : s[i] \in Bytes
  <2>1. N \in Nat /\ \A i \in 1 .. N : s[i] \in Bytes
    BY LenProperties, ElementOfSeq
  <2>2. /\ a \in 0 .. N /\ a # 0 /\ r = SubSeq(s, a, N) /\ r \in Seq(Bytes)
        /\ Len(r) = N - a + 1 /\ HasText(s, N + 1, a)
    BY UnfinishedIs
  <2>3. s[a] \notin Blanks
    BY <2>2 DEF HasText
  <2> HIDE DEF a, r, N
  <2>4. a \in 1 .. N
    BY <2>1, <2>2
  <2>5. QED
    BY <2>1, <2>2, <2>3, <2>4
<1>2. "\n" \in Bytes
  BY DEF Bytes
<1>3. t \in Seq(Bytes) /\ Len(t) = N + 1 /\ \A i \in 1 .. N : t[i] = s[i]
  BY <1>2, AppendProperties
<1>4. LineBegin(t, N + 1) = a
  <2>1. N + 1 \in 0 .. N + 1
    BY <1>1
  <2>2. QED
    BY <1>2, <2>1, LineBeginAppend
<1>5. t = s \o <<"\n">> /\ <<"\n">> \in Seq(Bytes)
  BY <1>2, AppendIsConcat
<1>6. Line(t, N + 1) = SubSeq(t, a, IF t[N] = "\r" THEN N - 1 ELSE N)
  <2>1. (N + 1) - 1 = N /\ (N + 1) - 2 = N - 1
    BY <1>1
  <2> HIDE DEF N, a, t
  <2>2. QED
    BY <1>4, <2>1 DEF Line
<1> HIDE DEF N, a, t, r
<1>7. t[N] = s[N] /\ r[Len(r)] = s[N]
  <2>1. N \in 1 .. N /\ N - a + 1 \in 1 .. N - a + 1
    BY <1>1
  <2>2. SubSeq(s, a, N)[N - a + 1] = s[a + (N - a + 1) - 1]
    <3>1. \A i \in a .. N : s[i] \in Bytes
      BY <1>1
    <3>2. a \in Int /\ N \in Int
      BY <1>1
    <3>3. \A i \in 1 .. N - a + 1 : SubSeq(s, a, N)[i] = s[a + i - 1]
      BY <3>1, <3>2, SubSeqProperties
    <3>4. QED
      BY <2>1, <3>3
  <2>3. a + (N - a + 1) - 1 = N
    BY <1>1
  <2>4. QED
    BY <1>1, <1>3, <2>1, <2>2, <2>3
<1>8. CASE s[N] = "\r"
  <2>1. a # N
    BY <1>1, <1>8 DEF Blanks
  <2>2. a \in 1 .. N /\ N - 1 \in 1 .. N /\ N \in 1 .. N
    BY <1>1, <2>1
  <2>3. SubSeq(t, a, N - 1) = SubSeq(s, a, N - 1)
    BY <1>5, <2>2, SubSeqOfConcat1 DEF N
  <2>4. 1 \in 1 .. N - a + 1 /\ N - a \in 1 .. N - a + 1
    BY <1>1, <2>1
  <2>5. SubSeq(SubSeq(s, a, N), 1, N - a) = SubSeq(s, a + 1 - 1, a + (N - a) - 1)
    BY <2>2, <2>4, SubSeqOfSubSeq DEF N
  <2>6. a + 1 - 1 = a /\ a + (N - a) - 1 = N - 1 /\ Len(r) - 1 = N - a
    BY <1>1
  <2>7. Trimmed(r) = SubSeq(s, a, N - 1)
    BY <1>1, <1>7, <1>8, <2>5, <2>6 DEF Trimmed
  <2>8. SubSeq(s, a, N - 1) \in Seq(Bytes)
    <3>1. \A i \in a .. N - 1 : s[i] \in Bytes
      BY <1>1
    <3>2. a \in Int /\ N - 1 \in Int
      BY <1>1
    <3>3. QED
      BY <3>1, <3>2, SubSeqProperties
  <2>9. Line(t, N + 1) = SubSeq(t, a, N - 1)
    BY <1>6, <1>7, <1>8
  <2>10. QED
    BY <2>3, <2>7, <2>8, <2>9 DEF t, N, r
<1>9. CASE s[N] # "\r"
  <2>1. SubSeq(t, a, N) = SubSeq(s, a, N)
    <3>1. a \in 1 .. Len(s) /\ N \in 1 .. Len(s)
      BY <1>1 DEF N
    <3>2. QED
      BY <1>5, <3>1, SubSeqOfConcat1
  <2>2. Trimmed(r) = r
    BY <1>7, <1>9 DEF Trimmed
  <2>3. Line(t, N + 1) = SubSeq(t, a, N)
    BY <1>6, <1>7, <1>9
  <2>4. QED
    BY <1>1, <2>1, <2>2, <2>3 DEF t, N, r
<1>10. QED
  BY <1>8, <1>9

\* One step of the recursion that Lines is.
LinesStep(f, s, n) ==
    IF n = 0 THEN <<>>
    ELSE IF s[n] = "\n" /\ LineBegin(s, n) # 0 THEN Append(f[n - 1], Line(s, n)) ELSE f[n - 1]

\* f is the recursive function of Lines up to N.
Gathers(f, s, N) == f = [n \in 0 .. N |-> LinesStep(f, s, n)]

\* There is such a function.
LEMMA GathersExists ==
  ASSUME NEW s, NEW N \in Nat
  PROVE  \E f : Gathers(f, s, N)
<1> DEFINE Good == {m \in Nat : \E f : Gathers(f, s, m)}
<1>1. 0 \in Good
  <2> DEFINE f == [n \in 0 .. 0 |-> <<>>]
  <2>1. Gathers(f, s, 0)
    BY DEF Gathers, LinesStep
  <2>2. QED
    BY <2>1
<1>2. ASSUME NEW m \in Nat, m \in Good PROVE m + 1 \in Good
  <2>1. PICK f : Gathers(f, s, m)
    BY <1>2
  <2> DEFINE g == [n \in 0 .. m + 1 |-> IF n = m + 1 THEN LinesStep(f, s, m + 1) ELSE f[n]]
  <2>2. \A n \in 0 .. m + 1 : g[n] = LinesStep(g, s, n)
    <3> SUFFICES ASSUME NEW n \in 0 .. m + 1 PROVE g[n] = LinesStep(g, s, n)
      OBVIOUS
    <3>1. n # 0 => n - 1 \in 0 .. m /\ g[n - 1] = f[n - 1]
      OBVIOUS
    <3>2. LinesStep(g, s, n) = LinesStep(f, s, n)
      <4>1. CASE n = 0
        BY <4>1 DEF LinesStep
      <4>2. CASE n # 0
        <5>1. g[n - 1] = f[n - 1]
          BY <3>1, <4>2
        <5> HIDE DEF g
        <5>2. QED
          BY <5>1 DEF LinesStep
      <4>3. QED
        BY <4>1, <4>2
    <3>3. CASE n = m + 1
      <4>1. g[n] = LinesStep(f, s, m + 1)
        BY <3>3
      <4>2. QED
        BY <3>2, <3>3, <4>1
    <3>4. CASE n \in 0 .. m
      <4>1. g[n] = f[n] /\ f[n] = LinesStep(f, s, n)
        BY <2>1, <3>4 DEF Gathers
      <4>2. QED
        BY <4>1, <3>2
    <3>5. QED
      BY <3>3, <3>4
  <2>3. Gathers(g, s, m + 1)
    <3>1. g = [n \in 0 .. m + 1 |-> g[n]]
      OBVIOUS
    <3> HIDE DEF g
    <3>2. QED
      BY <3>1, <2>2 DEF Gathers
  <2>4. QED
    BY <2>3
<1>3. 0 .. N \subseteq Good
  <2> HIDE DEF Good
  <2>1. \A n \in 0 .. N : n \in Good
    BY <1>1, <1>2, Induction
  <2>2. QED
    BY <2>1
<1>4. QED
  BY <1>3

LEMMA LinesIs ==
  ASSUME NEW s, Len(s) \in Nat
  PROVE  \E f : Gathers(f, s, Len(s)) /\ Lines(s) = f[Len(s)]
<1> DEFINE f == CHOOSE f : Gathers(f, s, Len(s))
<1>1. Gathers(f, s, Len(s))
  BY GathersExists
<1>2. Lines(s) = f[Len(s)]
  BY DEF Lines, Gathers, LinesStep
<1>3. QED
  BY <1>1, <1>2

LEMMA LinesEmpty == Lines(<<>>) = <<>>
<1>1. Len(<<>>) = 0
  BY EmptySeq
<1>2. PICK f : Gathers(f, <<>>, 0) /\ Lines(<<>>) = f[0]
  BY <1>1, LinesIs
<1>3. QED
  BY <1>2 DEF Gathers, LinesStep

LEMMA LinesAppend ==
  ASSUME NEW s \in Seq(Bytes), NEW x \in Bytes
  PROVE  Lines(Append(s, x)) =
             IF x = "\n" /\ Unfinished(s) # <<>>
             THEN Append(Lines(s), Trimmed(Unfinished(s))) ELSE Lines(s)
<1>1. PICK t \in Seq(Bytes), N \in Nat :
         /\ t = Append(s, x) /\ N = Len(s) /\ Len(t) = N + 1 /\ t[N + 1] = x
         /\ \A i \in 1 .. N : t[i] = s[i]
  <2>1. Len(s) \in Nat
    BY LenProperties
  <2>2. /\ Append(s, x) \in Seq(Bytes) /\ Len(Append(s, x)) = Len(s) + 1
        /\ Append(s, x)[Len(s) + 1] = x /\ \A i \in 1 .. Len(s) : Append(s, x)[i] = s[i]
    BY AppendProperties
  <2>3. QED
    BY <2>1, <2>2
<1>2. PICK f : Gathers(f, s, N) /\ Lines(s) = f[N]
  BY <1>1, LinesIs
<1>3. PICK g : Gathers(g, t, N + 1) /\ Lines(t) = g[N + 1]
  <2>1. Len(t) \in Nat
    BY <1>1
  <2>2. PICK g : Gathers(g, t, Len(t)) /\ Lines(t) = g[Len(t)]
    BY <2>1, LinesIs
  <2>3. QED
    BY <1>1, <2>2
<1> DEFINE G == {n \in 0 .. N : g[n] = f[n]}
<1>4. 0 \in G
  BY <1>1, <1>2, <1>3 DEF Gathers, LinesStep
<1>5. ASSUME NEW n \in 0 .. N - 1, n \in G
      PROVE  n + 1 \in G
  <2>1. /\ n + 1 \in 0 .. N /\ n + 1 \in 1 .. N /\ n + 1 \in 0 .. N + 1 /\ n + 1 # 0
        /\ (n + 1) - 1 = n /\ ((n + 1) - 1 = 0 \/ (n + 1) - 1 \in 1 .. N)
    BY <1>1
  <2>2. g[n + 1] = LinesStep(g, t, n + 1) /\ f[n + 1] = LinesStep(f, s, n + 1)
    BY <1>2, <1>3, <2>1 DEF Gathers
  <2>3. t[n + 1] = s[n + 1] /\ LineBegin(t, n + 1) = LineBegin(s, n + 1) /\ g[n] = f[n]
    BY <1>1, <1>5, <2>1, LineBeginAppend
  <2>4. LineBegin(s, n + 1) # 0 => Line(t, n + 1) = Line(s, n + 1)
    <3> SUFFICES ASSUME LineBegin(s, n + 1) # 0 PROVE Line(t, n + 1) = Line(s, n + 1)
      OBVIOUS
    <3>1. PICK b : b = LineBegin(s, n + 1) /\ HasText(s, n + 1, b)
      BY <2>1, LineBeginLeast
    <3>2. b \in 1 .. n /\ n \in 1 .. N /\ b \in 1 .. N
      BY <1>1, <2>1, <3>1 DEF HasText
    <3>3. PICK m : m = (IF s[n] = "\r" THEN n - 1 ELSE n) /\ m \in 0 .. N
      BY <3>2
    <3>4. t[n] = s[n]
      BY <1>1, <3>2
    <3>5. Line(t, n + 1) = SubSeq(t, b, m) /\ Line(s, n + 1) = SubSeq(s, b, m)
      <4>1. (n + 1) - 1 = n /\ (n + 1) - 2 = n - 1
        BY <3>2
      <4>2. QED
        BY <2>3, <3>1, <3>3, <3>4, <4>1 DEF Line
    <3>6. CASE m = 0
      <4>1. SubSeq(t, b, m) = <<>> /\ SubSeq(s, b, m) = <<>>
        BY <3>2, <3>6, SubSeqEmpty
      <4>2. QED
        BY <3>5, <4>1
    <3>7. CASE m # 0
      <4>1. t = s \o <<x>> /\ <<x>> \in Seq(Bytes)
        BY <1>1, AppendIsConcat
      <4>2. b \in 1 .. Len(s) /\ m \in 1 .. Len(s)
        BY <1>1, <3>2, <3>3, <3>7
      <4>3. SubSeq(t, b, m) = SubSeq(s, b, m)
        BY <4>1, <4>2, SubSeqOfConcat1
      <4>4. QED
        BY <3>5, <4>3
    <3>8. QED
      BY <3>6, <3>7
  <2>5. g[n + 1] = f[n + 1]
    BY <2>1, <2>2, <2>3, <2>4 DEF LinesStep
  <2>6. QED
    BY <2>1, <2>5
<1>6. g[N] = f[N]
  <2> HIDE DEF G
  <2>1. \A n \in 0 .. N : n \in G
    BY <1>4, <1>5, Induction
  <2>2. N \in G
    BY <2>1
  <2>3. QED
    BY <2>2 DEF G
<1>7. g[N + 1] = IF x = "\n" /\ LineBegin(t, N + 1) # 0 THEN Append(g[N], Line(t, N + 1)) ELSE g[N]
  <2>1. N + 1 \in 0 .. N + 1 /\ N + 1 # 0 /\ (N + 1) - 1 = N
    OBVIOUS
  <2>2. g[N + 1] = LinesStep(g, t, N + 1)
    BY <1>3, <2>1 DEF Gathers
  <2>3. QED
    BY <1>1, <2>1, <2>2 DEF LinesStep
<1>8. LineBegin(t, N + 1) # 0 <=> Unfinished(s) # <<>>
  <2>1. N + 1 \in 0 .. N + 1
    OBVIOUS
  <2>2. LineBegin(t, N + 1) = LineBegin(s, N + 1)
    BY <1>1, <2>1, LineBeginAppend
  <2>3. QED
    BY <1>1, <2>2, UnfinishedIs
<1>9. CASE x = "\n" /\ Unfinished(s) # <<>>
  <2>1. Line(t, N + 1) = Trimmed(Unfinished(s))
    BY <1>1, <1>9, LineIsTrimmed
  <2>2. QED
    BY <1>1, <1>2, <1>3, <1>6, <1>7, <1>8, <1>9, <2>1
<1>10. CASE ~(x = "\n" /\ Unfinished(s) # <<>>)
  BY <1>1, <1>2, <1>3, <1>6, <1>7, <1>8, <1>10
<1>11. QED
  BY <1>9, <1>10

\* A sequence of bytes; Seq of these is one of lines.
ByteString == Seq(Bytes)

LEMMA LinesTyped ==
  ASSUME NEW s \in Seq(Bytes)
  PROVE  Lines(s) \in Seq(ByteString)
<1> DEFINE G == {u \in Seq(Bytes) : Lines(u) \in Seq(ByteString)}
<1>1. <<>> \in G
  <2>1. <<>> \in Seq(ByteString)
    BY EmptySeq
  <2>2. QED
    BY <2>1, LinesEmpty, UnfinishedEmpty
<1>2. ASSUME NEW u \in Seq(Bytes), NEW x \in Bytes, u \in G
      PROVE  Append(u, x) \in G
  <2>1. Append(u, x) \in Seq(Bytes) /\ Lines(u) \in Seq(ByteString)
    BY <1>2, AppendProperties
  <2>2. CASE x = "\n" /\ Unfinished(u) # <<>>
    <3>1. Trimmed(Unfinished(u)) \in ByteString
      BY <2>2, LineIsTrimmed DEF ByteString
    <3>2. Append(Lines(u), Trimmed(Unfinished(u))) \in Seq(ByteString)
      BY <2>1, <3>1, AppendProperties
    <3>3. QED
      BY <2>1, <2>2, <3>2, LinesAppend
  <2>3. CASE ~(x = "\n" /\ Unfinished(u) # <<>>)
    <3>1. Lines(Append(u, x)) = Lines(u)
      BY <2>3, LinesAppend
    <3>2. QED
      BY <2>1, <3>1
  <2>4. QED
    BY <2>2, <2>3
<1> HIDE DEF G
<1>3. s \in G
  BY <1>1, <1>2, AppendInduction
<1>4. QED
  BY <1>3 DEF G

LEMMA ConcatAppend ==
  ASSUME NEW T, NEW s \in Seq(T), NEW t \in Seq(T), NEW x \in T
  PROVE  s \o Append(t, x) = Append(s \o t, x)
<1>1. <<x>> \in Seq(T) /\ s \o t \in Seq(T)
  BY ConcatProperties
<1>2. Append(t, x) = t \o <<x>> /\ Append(s \o t, x) = (s \o t) \o <<x>>
  BY <1>1, AppendIsConcat
<1>3. s \o (t \o <<x>>) = (s \o t) \o <<x>>
  BY <1>1, ConcatAssociative
<1>4. QED
  BY <1>2, <1>3

\* An unfinished line is unfinished as a stream of its own.
LEMMA UnfinishedSelf ==
  ASSUME NEW s \in Seq(Bytes)
  PROVE  Unfinished(Unfinished(s)) = Unfinished(s) /\ Lines(Unfinished(s)) = <<>>
<1> DEFINE G == {u \in Seq(Bytes) : /\ Unfinished(Unfinished(u)) = Unfinished(u)
                                    /\ Lines(Unfinished(u)) = <<>>}
<1>1. <<>> \in G
  BY LinesEmpty, UnfinishedEmpty
<1>2. ASSUME NEW u \in Seq(Bytes), NEW x \in Bytes, u \in G
      PROVE  Append(u, x) \in G
  <2>1. PICK r \in Seq(Bytes) : r = Unfinished(u) /\ Unfinished(r) = r /\ Lines(r) = <<>>
    BY <1>2, UnfinishedIs
  <2>2. Append(u, x) \in Seq(Bytes)
    BY AppendProperties
  <2>3. CASE x = "\n" \/ (r = <<>> /\ x \in Blanks)
    <3>1. Unfinished(Append(u, x)) = <<>>
      BY <2>1, <2>3, UnfinishedAppend
    <3>2. QED
      BY <2>2, <3>1, LinesEmpty, UnfinishedEmpty
  <2>4. CASE ~(x = "\n" \/ (r = <<>> /\ x \in Blanks))
    <3>1. Unfinished(Append(u, x)) = Append(r, x)
      BY <2>1, <2>4, UnfinishedAppend
    <3>2. Unfinished(Append(r, x)) = Append(r, x)
      BY <2>1, <2>4, UnfinishedAppend
    <3>3. Lines(Append(r, x)) = <<>>
      BY <2>1, <2>4, LinesAppend
    <3>4. QED
      BY <2>2, <3>1, <3>2, <3>3
  <2>5. QED
    BY <2>3, <2>4
<1> HIDE DEF G
<1>3. s \in G
  BY <1>1, <1>2, AppendInduction
<1>4. QED
  BY <1>3 DEF G

\* What a stream leaves unfinished is all that the bytes after it need: lines
\* can be cut out of chunk after chunk.
LEMMA LinesConcat ==
  ASSUME NEW u \in Seq(Bytes), NEW s \in Seq(Bytes)
  PROVE  /\ Lines(u \o s) = Lines(u) \o Lines(Unfinished(u) \o s)
         /\ Unfinished(u \o s) = Unfinished(Unfinished(u) \o s)
<1>1. PICK r \in Seq(Bytes), L \in Seq(ByteString) :
         r = Unfinished(u) /\ Unfinished(r) = r /\ Lines(r) = <<>> /\ L = Lines(u)
  BY UnfinishedIs, UnfinishedSelf, LinesTyped
<1> DEFINE G == {t \in Seq(Bytes) : /\ Lines(u \o t) = L \o Lines(r \o t)
                                    /\ Unfinished(u \o t) = Unfinished(r \o t)}
<1>2. <<>> \in G
  <2>1. u \o <<>> = u /\ r \o <<>> = r /\ L \o <<>> = L
    BY ConcatEmptySeq
  <2>2. QED
    BY <1>1, <2>1, UnfinishedEmpty
<1>3. ASSUME NEW t \in Seq(Bytes), NEW x \in Bytes, t \in G
      PROVE  Append(t, x) \in G
  <2>1. Append(t, x) \in Seq(Bytes)
    BY AppendProperties
  <2>2. u \o t \in Seq(Bytes) /\ r \o t \in Seq(Bytes)
    BY ConcatProperties
  <2>3. PICK v \in Seq(Bytes), w \in Seq(Bytes) :
          /\ v = u \o t /\ w = r \o t
          /\ Lines(v) = L \o Lines(w) /\ Unfinished(v) = Unfinished(w)
    BY <1>3, <2>2
  <2>4. u \o Append(t, x) = Append(v, x) /\ r \o Append(t, x) = Append(w, x)
    <3>1. u \o Append(t, x) = Append(u \o t, x)
      BY ConcatAppend
    <3>2. r \o Append(t, x) = Append(r \o t, x)
      BY ConcatAppend
    <3>3. QED
      BY <2>3, <3>1, <3>2, Zenon
  <2>5. Unfinished(Append(v, x)) = Unfinished(Append(w, x))
    <3>1. Unfinished(Append(v, x)) =
             IF x = "\n" \/ (Unfinished(v) = <<>> /\ x \in Blanks)
             THEN <<>> ELSE Append(Unfinished(v), x)
      BY UnfinishedAppend
    <3>2. Unfinished(Append(w, x)) =
             IF x = "\n" \/ (Unfinished(w) = <<>> /\ x \in Blanks)
             THEN <<>> ELSE Append(Unfinished(w), x)
      BY UnfinishedAppend
    <3>3. QED
      BY <2>3, <3>1, <3>2, Zenon
  <2>6. Lines(Append(v, x)) = L \o Lines(Append(w, x))
    <3>1. CASE x = "\n" /\ Unfinished(w) # <<>>
      <4>1. PICK e \in Seq(Bytes) : e = Trimmed(Unfinished(w))
        BY <2>3, <3>1, LineIsTrimmed
      <4>2. Lines(Append(v, x)) = Append(Lines(v), e) /\ Lines(Append(w, x)) = Append(Lines(w), e)
        BY <2>3, <3>1, <4>1, LinesAppend
      <4>3. PICK M \in Seq(ByteString) : M = Lines(w)
        BY LinesTyped
      <4>4. L \o Append(M, e) = Append(L \o M, e)
        <5>1. e \in ByteString
          BY DEF ByteString
        <5>2. QED
          BY <5>1, ConcatAppend
      <4>5. QED
        BY <2>3, <4>2, <4>3, <4>4
    <3>2. CASE ~(x = "\n" /\ Unfinished(w) # <<>>)
      <4>1. Lines(Append(v, x)) = Lines(v) /\ Lines(Append(w, x)) = Lines(w)
        BY <2>3, <3>2, LinesAppend
      <4>2. QED
        BY <2>3, <4>1
    <3>3. QED
      BY <3>1, <3>2
  <2>7. QED
    BY <2>1, <2>4, <2>5, <2>6
<1> HIDE DEF G
<1>4. s \in G
  BY <1>2, <1>3, AppendInduction
<1>5. QED
  BY <1>1, <1>4 DEF G

\* Blanks before its text are no part of a line.
LEMMA LinesOfBlanks ==
  ASSUME NEW z \in Seq(Blanks)
  PROVE  z \in Seq(Bytes) /\ Lines(z) = <<>> /\ Unfinished(z) = <<>>
<1> DEFINE G == {u \in Seq(Bytes) : Lines(u) = <<>> /\ Unfinished(u) = <<>>}
<1>1. <<>> \in G
  BY LinesEmpty, UnfinishedEmpty
<1>2. ASSUME NEW u \in Seq(Blanks), NEW x \in Blanks, u \in G
      PROVE  Append(u, x) \in G
  <2>1. x \in Bytes
    BY DEF Blanks, Bytes
  <2>2. u \in Seq(Bytes) /\ Lines(u) = <<>> /\ Unfinished(u) = <<>>
    BY <1>2
  <2>3. Append(u, x) \in Seq(Bytes)
    BY <2>1, <2>2, AppendProperties
  <2>4. Unfinished(Append(u, x)) = <<>> /\ Lines(Append(u, x)) = <<>>
    BY <2>1, <2>2, UnfinishedAppend, LinesAppend
  <2>5. QED
    BY <2>3, <2>4
<1> HIDE DEF G
<1>3. z \in G
  BY <1>1, <1>2, AppendInduction
<1>4. QED
  BY <1>3 DEF G

\* Text without a line break in it ends no line.
LEMMA LinesOfText ==
  ASSUME NEW x \in Bytes \ Blanks, NEW s \in Seq(Bytes \ {"\n"})
  PROVE  <<x>> \o s \in Seq(Bytes) /\ Lines(<<x>> \o s) = <<>> /\ Unfinished(<<x>> \o s) = <<x>> \o s
<1> DEFINE G == {u \in Seq(Bytes) : Lines(<<x>> \o u) = <<>> /\ Unfinished(<<x>> \o u) = <<x>> \o u}
<1>1. x \in Bytes /\ <<x>> \in Seq(Bytes) /\ x # "\n" /\ x \notin Blanks
  <2>1. x \in Bytes /\ x \notin Blanks
    OBVIOUS
  <2>2. <<x>> \in Seq(Bytes)
    BY <2>1
  <2>3. x # "\n"
    BY <2>1 DEF Blanks
  <2>4. QED
    BY <2>1, <2>2, <2>3
<1>2. <<>> \in G
  <2>1. <<x>> \o <<>> = <<x>> /\ Append(<<>>, x) = <<x>>
    OBVIOUS
  <2>2. Lines(Append(<<>>, x)) = <<>> /\ Unfinished(Append(<<>>, x)) = Append(<<>>, x)
    BY <1>1, LinesEmpty, UnfinishedEmpty, LinesAppend, UnfinishedAppend
  <2>3. QED
    BY <2>1, <2>2, UnfinishedEmpty
<1>3. ASSUME NEW u \in Seq(Bytes \ {"\n"}), NEW y \in Bytes \ {"\n"}, u \in G
      PROVE  Append(u, y) \in G
  <2>1. y \in Bytes /\ y # "\n" /\ u \in Seq(Bytes)
    BY <1>3
  <2>2. <<x>> \o u \in Seq(Bytes) /\ Len(<<x>> \o u) # 0
    <3>1. <<x>> \o u \in Seq(Bytes) /\ Len(<<x>> \o u) = Len(<<x>>) + Len(u)
      BY <1>1, <2>1, ConcatProperties
    <3>2. Len(<<x>>) = 1 /\ Len(u) \in Nat
      BY <2>1, LenProperties
    <3>3. QED
      BY <3>1, <3>2
  <2>3. PICK v \in Seq(Bytes) : v = <<x>> \o u /\ Lines(v) = <<>> /\ Unfinished(v) = v /\ v # <<>>
    <3>1. <<x>> \o u # <<>>
      BY <2>2, EmptySeq
    <3>2. QED
      BY <1>3, <2>2, <3>1
  <2>4. <<x>> \o Append(u, y) = Append(v, y)
    BY <1>1, <2>1, <2>3, ConcatAppend
  <2>5. Lines(Append(v, y)) = <<>> /\ Unfinished(Append(v, y)) = Append(v, y)
    BY <2>1, <2>3, LinesAppend, UnfinishedAppend
  <2>6. Append(u, y) \in Seq(Bytes)
    BY <2>1, AppendProperties
  <2>7. QED
    BY <2>4, <2>5, <2>6
<1> HIDE DEF G
<1>4. s \in G
  BY <1>2, <1>3, AppendInduction
<1>5. s \in Seq(Bytes) /\ Lines(<<x>> \o s) = <<>> /\ Unfinished(<<x>> \o s) = <<x>> \o s
  BY <1>4 DEF G
<1>6. QED
  BY <1>1, <1>5, ConcatProperties

----------------------------------------------------------------------------
(* The loop of recv() over its buffer                                     *)

\* What FirstOf returns.
LEMMA FirstOfIs ==
  ASSUME NEW s, NEW S, NEW p \in Nat \ {0}, Len(s) \in Nat
  PROVE  /\ FirstOf(s, S, p) = 0 => \A i \in p .. Len(s) : s[i] \notin S
         /\ FirstOf(s, S, p) # 0 => /\ FirstOf(s, S, p) \in p .. Len(s)
                                    /\ s[FirstOf(s, S, p)] \in S
                                    /\ \A i \in p .. FirstOf(s, S, p) - 1 : s[i] \notin S
<1> DEFINE found == {k \in p .. Len(s) : s[k] \in S}
<1>1. FirstOf(s, S, p) = IF found = {} THEN 0 ELSE Min(found)
  BY DEF FirstOf
<1>2. found \subseteq Nat /\ 0 \notin found /\ found \subseteq p .. Len(s)
  OBVIOUS
<1>3. \A k \in p .. Len(s) : s[k] \in S <=> k \in found
  OBVIOUS
<1> HIDE DEF found
<1>4. CASE found = {}
  BY <1>1, <1>3, <1>4
<1>5. CASE found # {}
  <2>1. PICK m \in found : \A y \in found : m <= y
    BY <1>2, <1>5, LeastElement
  <2>2. Min(found) \in found /\ \A y \in found : Min(found) <= y
    BY <2>1 DEF Min
  <2>3. PICK a \in Nat : a = Min(found) /\ a \in found /\ \A y \in found : a <= y
    BY <1>2, <2>2
  <2>4. a \in p .. Len(s) /\ a # 0 /\ s[a] \in S
    BY <1>2, <1>3, <2>3
  <2>5. ASSUME NEW i \in p .. a - 1 PROVE s[i] \notin S
    <3>1. i \in p .. Len(s) /\ ~(a <= i)
      BY <2>3, <2>4
    <3>2. QED
      BY <1>3, <2>3, <3>1
  <2>6. FirstOf(s, S, p) = a
    BY <1>1, <1>5, <2>3
  <2>7. QED
    BY <2>4, <2>5, <2>6
<1>6. QED
  BY <1>4, <1>5

\* What follows a position, which is included.
Suffix(s, p) == SubSeq(s, p, Len(s))

LEMMA SuffixOfBytes ==
  ASSUME NEW s \in Seq(Bytes), NEW p \in 1 .. Len(s) + 1, NEW q \in p .. Len(s) + 1
  PROVE  /\ Suffix(s, p) \in Seq(Bytes) /\ SubSeq(s, p, q - 1) \in Seq(Bytes)
         /\ Suffix(s, p) = SubSeq(s, p, q - 1) \o Suffix(s, q)
<1>1. Len(s) \in Nat /\ \A i \in 1 .. Len(s) : s[i] \in Bytes
  BY LenProperties, ElementOfSeq
<1>2. p \in Int /\ q - 1 \in Int /\ Len(s) \in Int
  BY <1>1
<1>3. (\A i \in p .. Len(s) : s[i] \in Bytes) /\ (\A i \in p .. q - 1 : s[i] \in Bytes)
  BY <1>1
<1>4. Suffix(s, p) \in Seq(Bytes) /\ SubSeq(s, p, q - 1) \in Seq(Bytes)
  BY <1>2, <1>3, SubSeqProperties DEF Suffix
<1>5. q - 1 \in p - 1 .. Len(s) /\ Len(s) \in q - 1 .. Len(s) /\ (q - 1) + 1 = q
  BY <1>1
<1>6. SubSeq(s, p, q - 1) \o SubSeq(s, (q - 1) + 1, Len(s)) = SubSeq(s, p, Len(s))
  BY <1>5, ConcatAdjacentSubSeq
<1>7. QED
  BY <1>4, <1>5, <1>6 DEF Suffix

\* Blanks before a position are skipped.
LEMMA SkipBlanks ==
  ASSUME NEW s \in Seq(Bytes), NEW p \in 1 .. Len(s) + 1, NEW q \in p .. Len(s) + 1,
         \A i \in p .. q - 1 : s[i] \in Blanks
  PROVE  /\ Lines(Suffix(s, p)) = Lines(Suffix(s, q))
         /\ Unfinished(Suffix(s, p)) = Unfinished(Suffix(s, q))
<1>1. Len(s) \in Nat
  BY LenProperties
<1>2. PICK z : z = SubSeq(s, p, q - 1) /\ z \in Seq(Blanks)
  <2>1. p \in Int /\ q - 1 \in Int
    BY <1>1
  <2>2. SubSeq(s, p, q - 1) \in Seq(Blanks)
    BY <2>1, SubSeqProperties
  <2>3. QED
    BY <2>2
<1>3. z \in Seq(Bytes) /\ Lines(z) = <<>> /\ Unfinished(z) = <<>>
  BY <1>2, LinesOfBlanks
<1>4. PICK v \in Seq(Bytes) : v = Suffix(s, q)
  <2>1. q \in 1 .. Len(s) + 1 /\ q \in q .. Len(s) + 1
    BY <1>1
  <2>2. QED
    BY <2>1, SuffixOfBytes
<1>5. Suffix(s, p) = z \o v
  BY <1>2, <1>4, SuffixOfBytes
<1>6. Lines(z \o v) = <<>> \o Lines(<<>> \o v) /\ Unfinished(z \o v) = Unfinished(<<>> \o v)
  <2>1. /\ Lines(z \o v) = Lines(z) \o Lines(Unfinished(z) \o v)
        /\ Unfinished(z \o v) = Unfinished(Unfinished(z) \o v)
    BY <1>3, LinesConcat
  <2>2. QED
    BY <1>3, <2>1, Zenon
<1>7. <<>> \o v = v /\ <<>> \o Lines(v) = Lines(v)
  BY <1>4, LinesTyped, ConcatEmptySeq
<1>8. QED
  BY <1>4, <1>5, <1>6, <1>7

\* The position from which recv() goes on when a line begins at b and its line
\* break is at n.
LineEnd(s, n) == IF s[n - 1] = "\r" THEN n - 1 ELSE n

\* A line that begins at b and whose line break is at n, as recv() cuts it out.
LEMMA CutLine ==
  ASSUME NEW s \in Seq(Bytes), NEW b \in 1 .. Len(s), NEW n \in b + 1 .. Len(s),
         s[b] \notin Blanks, s[n] = "\n", \A i \in b .. n - 1 : s[i] # "\n",
         NEW e, e = LineEnd(s, n)
  PROVE  /\ e \in b + 1 .. n
         /\ Lines(Suffix(s, b)) = <<SubSeq(s, b, e - 1)>> \o Lines(Suffix(s, e))
         /\ Unfinished(Suffix(s, b)) = Unfinished(Suffix(s, e))
<1>1. Len(s) \in Nat /\ \A i \in 1 .. Len(s) : s[i] \in Bytes
  BY LenProperties, ElementOfSeq
<1>2. e \in b + 1 .. n /\ e = IF s[n - 1] = "\r" THEN n - 1 ELSE n
  <2>1. CASE s[n - 1] = "\r"
    <3>1. b # n - 1
      BY <2>1 DEF Blanks
    <3>2. QED
      BY <1>1, <2>1, <3>1 DEF LineEnd
  <2>2. CASE s[n - 1] # "\r"
    BY <1>1, <2>2 DEF LineEnd
  <2>3. QED
    BY <2>1, <2>2
<1>3. PICK w \in Seq(Bytes) : /\ w = SubSeq(s, b, n - 1) /\ w # <<>> /\ Len(w) = n - b
                              /\ w[n - b] = s[n - 1] /\ Lines(w) = <<>> /\ Unfinished(w) = w
  <2>1. /\ b \in Int /\ n - 1 \in Int /\ b + 1 \in Int /\ b <= n - 1
        /\ (n - 1) - b + 1 = n - b /\ n - b \in 1 .. n - b /\ b + (n - b) - 1 = n - 1
    BY <1>1
  <2>2. \A i \in b .. n - 1 : s[i] \in Bytes
    BY <1>1
  <2>3. \A i \in b + 1 .. n - 1 : s[i] \in Bytes \ {"\n"}
    BY <1>1
  <2>4. /\ SubSeq(s, b, n - 1) \in Seq(Bytes)
        /\ Len(SubSeq(s, b, n - 1)) = n - b
        /\ \A i \in 1 .. n - b : SubSeq(s, b, n - 1)[i] = s[b + i - 1]
    BY <2>1, <2>2, SubSeqProperties
  <2>5. SubSeq(s, b, n - 1)[n - b] = s[n - 1]
    BY <2>1, <2>4
  <2>6. PICK y \in Seq(Bytes \ {"\n"}) : y = SubSeq(s, b + 1, n - 1)
    <3>1. SubSeq(s, b + 1, n - 1) \in Seq(Bytes \ {"\n"})
      BY <2>1, <2>3, SubSeqProperties
    <3>2. QED
      BY <3>1
  <2>7. SubSeq(s, b, n - 1) = <<s[b]>> \o y
    <3>1. b \in 1 .. Len(s) /\ n - 1 \in b .. Len(s)
      BY <1>1
    <3>2. QED
      BY <2>6, <3>1, SubSeqRecursiveFirst
  <2>8. s[b] \in Bytes \ Blanks
    BY <1>1
  <2>9. Lines(<<s[b]>> \o y) = <<>> /\ Unfinished(<<s[b]>> \o y) = <<s[b]>> \o y
    BY <2>6, <2>8, LinesOfText
  <2>10. SubSeq(s, b, n - 1) # <<>>
    <3>1. n - b # 0 /\ Len(<<>>) = 0
      BY <1>1
    <3>2. QED
      BY <2>4, <3>1
  <2>11. QED
    BY <2>4, <2>5, <2>7, <2>9, <2>10
<1>4. PICK x \in Seq(Bytes) : x = SubSeq(s, b, e - 1) /\ x = Trimmed(w)
  <2>1. CASE s[n - 1] = "\r"
    <3>1. e = n - 1 /\ n - b - 1 = (n - b) - 1
      BY <1>1, <1>2, <2>1
    <3>2. Trimmed(w) = SubSeq(SubSeq(s, b, n - 1), 1, n - b - 1)
      BY <1>3, <2>1, <3>1 DEF Trimmed
    <3>3. /\ n - 1 \in 1 .. Len(s) /\ 1 \in 1 .. (n - 1) - b + 1
          /\ n - b - 1 \in 1 .. (n - 1) - b + 1
      BY <1>1, <1>2, <3>1
    <3>4. SubSeq(SubSeq(s, b, n - 1), 1, n - b - 1) = SubSeq(s, b + 1 - 1, b + (n - b - 1) - 1)
      BY <3>3, SubSeqOfSubSeq
    <3>5. b + 1 - 1 = b /\ b + (n - b - 1) - 1 = e - 1
      BY <1>1, <3>1
    <3>6. Trimmed(w) \in Seq(Bytes)
      BY <1>3, LineIsTrimmed
    <3>7. QED
      BY <3>2, <3>4, <3>5, <3>6
  <2>2. CASE s[n - 1] # "\r"
    <3>1. e = n /\ Trimmed(w) = w
      BY <1>2, <1>3, <2>2 DEF Trimmed
    <3>2. QED
      BY <1>3, <3>1
  <2>3. QED
    BY <2>1, <2>2
<1>5. PICK v \in Seq(Bytes) : v = Suffix(s, n + 1)
  <2>1. n + 1 \in 1 .. Len(s) + 1 /\ n + 1 \in n + 1 .. Len(s) + 1
    BY <1>1
  <2>2. QED
    BY <2>1, SuffixOfBytes
<1>6. Suffix(s, b) = Append(w, "\n") \o v
  <2>1. b \in 1 .. Len(s) + 1 /\ n + 1 \in b .. Len(s) + 1 /\ (n + 1) - 1 = n
    BY <1>1
  <2>2. Suffix(s, b) = SubSeq(s, b, n) \o v
    <3>1. PICK q \in b .. Len(s) + 1 : q = n + 1
      BY <2>1
    <3>2. Suffix(s, b) = SubSeq(s, b, q - 1) \o Suffix(s, q)
      BY <2>1, SuffixOfBytes
    <3>3. q - 1 = n
      BY <2>1, <3>1
    <3>4. QED
      BY <1>5, <3>1, <3>2, <3>3
  <2>3. SubSeq(s, b, n) = w \o <<"\n">>
    <3>1. n \in b .. Len(s)
      BY <1>1
    <3>2. SubSeq(s, b, n) = SubSeq(s, b, n - 1) \o <<s[n]>>
      BY <3>1, SubSeqRecursiveSecond
    <3>3. QED
      BY <1>3, <3>2
  <2>4. "\n" \in Bytes
    BY DEF Bytes
  <2>5. Append(w, "\n") = w \o <<"\n">>
    BY <2>4, AppendIsConcat
  <2>6. QED
    BY <2>2, <2>3, <2>5
<1>7. PICK a \in Seq(Bytes) : a = Append(w, "\n") /\ Lines(a) = <<x>> /\ Unfinished(a) = <<>>
  <2>1. "\n" \in Bytes
    BY DEF Bytes
  <2>2. Append(w, "\n") \in Seq(Bytes)
    BY <2>1, AppendProperties
  <2>3. Lines(Append(w, "\n")) = Append(<<>>, x) /\ Unfinished(Append(w, "\n")) = <<>>
    <3>1. Lines(Append(w, "\n")) = Append(Lines(w), Trimmed(Unfinished(w)))
      BY <1>3, <2>1, LinesAppend
    <3>2. Unfinished(Append(w, "\n")) = <<>>
      BY <2>1, UnfinishedAppend
    <3>3. QED
      BY <1>3, <1>4, <3>1, <3>2, Zenon
  <2>4. Append(<<>>, x) = <<x>>
    OBVIOUS
  <2>5. QED
    BY <2>2, <2>3, <2>4
<1>8. Lines(Suffix(s, b)) = <<x>> \o Lines(v) /\ Unfinished(Suffix(s, b)) = Unfinished(v)
  <2>1. Lines(a \o v) = <<x>> \o Lines(<<>> \o v) /\ Unfinished(a \o v) = Unfinished(<<>> \o v)
    <3>1. /\ Lines(a \o v) = Lines(a) \o Lines(Unfinished(a) \o v)
          /\ Unfinished(a \o v) = Unfinished(Unfinished(a) \o v)
      BY LinesConcat
    <3>2. QED
      BY <1>7, <3>1, Zenon
  <2>2. <<>> \o v = v
    BY ConcatEmptySeq
  <2>3. QED
    BY <1>6, <1>7, <2>1, <2>2
<1>9. Lines(Suffix(s, e)) = Lines(v) /\ Unfinished(Suffix(s, e)) = Unfinished(v)
  <2>1. e \in 1 .. Len(s) + 1 /\ n + 1 \in e .. Len(s) + 1 /\ (n + 1) - 1 = n
    BY <1>1, <1>2
  <2>2. \A i \in e .. n : s[i] \in Blanks
    <3>1. \A i \in e .. n : i = n \/ (i = n - 1 /\ s[n - 1] = "\r")
      BY <1>1, <1>2
    <3>2. QED
      BY <3>1 DEF Blanks
  <2>3. QED
    BY <1>5, <2>1, <2>2, SkipBlanks
<1>10. QED
  BY <1>2, <1>4, <1>8, <1>9

\* Lines put before those of a record.
LEMMA LinesPrefixed ==
  ASSUME NEW x, NEW y, NEW u, NEW r, r = [lines |-> x, rest |-> y]
  PROVE  [r EXCEPT !.lines = u \o @] = [lines |-> u \o x, rest |-> y]
<1>1. r.lines = x /\ r.rest = y /\ DOMAIN r = {"lines", "rest"}
  OBVIOUS
<1>2. PICK z : z = u \o x
  OBVIOUS
<1>3. [r EXCEPT !.lines = z] = [lines |-> z, rest |-> y]
  OBVIOUS
<1>4. QED
  BY <1>1, <1>2, <1>3

\* One step of the recursion that Cut is.
CutStep(f, s, p) ==
    LET b == FirstOf(s, Bytes \ Blanks, p)
        n == FirstOf(s, {"\n"}, b)
    IN IF b = 0 THEN [lines |-> <<>>, rest |-> <<>>]
       ELSE IF n = 0 THEN [lines |-> <<>>, rest |-> SubSeq(s, b, Len(s))]
       ELSE [f[LineEnd(s, n)] EXCEPT !.lines = <<SubSeq(s, b, LineEnd(s, n) - 1)>> \o @]

\* A step looks only at a later position.
LEMMA CutStepLater ==
  ASSUME NEW s \in Seq(Bytes), NEW p \in 1 .. Len(s) + 1, NEW f, NEW g,
         \A q \in p + 1 .. Len(s) : f[q] = g[q]
  PROVE  CutStep(f, s, p) = CutStep(g, s, p)
<1>1. Len(s) \in Nat /\ p \in Nat \ {0}
  BY LenProperties
<1>2. PICK b : b = FirstOf(s, Bytes \ Blanks, p)
  OBVIOUS
<1>3. PICK n : n = FirstOf(s, {"\n"}, b)
  OBVIOUS
<1>4. CASE b = 0 \/ n = 0
  BY <1>2, <1>3, <1>4 DEF CutStep
<1>5. CASE b # 0 /\ n # 0
  <2>1. b \in p .. Len(s) /\ s[b] \notin Blanks
    BY <1>1, <1>2, <1>5, FirstOfIs
  <2>2. n \in b .. Len(s) /\ s[n] = "\n"
    <3>1. b \in Nat \ {0}
      BY <1>1, <2>1
    <3>2. QED
      BY <1>1, <1>3, <1>5, <3>1, FirstOfIs
  <2>3. b # n
    BY <2>1, <2>2 DEF Blanks
  <2>4. PICK e : e = LineEnd(s, n)
    OBVIOUS
  <2>5. e \in p + 1 .. Len(s)
    <3>1. CASE s[n - 1] = "\r"
      <4>1. b # n - 1
        BY <2>1, <3>1 DEF Blanks
      <4>2. QED
        BY <1>1, <2>1, <2>2, <2>3, <2>4, <3>1, <4>1 DEF LineEnd
    <3>2. CASE s[n - 1] # "\r"
      BY <1>1, <2>1, <2>2, <2>3, <2>4, <3>2 DEF LineEnd
    <3>3. QED
      BY <3>1, <3>2
  <2>6. f[e] = g[e]
    BY <2>5
  <2>7. QED
    BY <1>2, <1>3, <1>5, <2>4, <2>6 DEF CutStep
<1>6. QED
  BY <1>4, <1>5

\* The lines of what follows a position and what it leaves unfinished.
CutOf(s, p) == [lines |-> Lines(Suffix(s, p)), rest |-> Unfinished(Suffix(s, p))]

LEMMA CutOfStep ==
  ASSUME NEW s \in Seq(Bytes), NEW p \in 1 .. Len(s) + 1, NEW h,
         \A q \in 1 .. Len(s) + 1 : h[q] = CutOf(s, q)
  PROVE  CutOf(s, p) = CutStep(h, s, p)
<1>1. Len(s) \in Nat /\ p \in Nat \ {0} /\ \A i \in 1 .. Len(s) : s[i] \in Bytes
  BY LenProperties, ElementOfSeq
<1>2. PICK b : b = FirstOf(s, Bytes \ Blanks, p)
  OBVIOUS
<1>3. PICK n : n = FirstOf(s, {"\n"}, b)
  OBVIOUS
<1>4. CASE b = 0
  <2>1. \A i \in p .. Len(s) : s[i] \in Blanks
    <3>1. \A i \in p .. Len(s) : s[i] \notin Bytes \ Blanks
      BY <1>1, <1>2, <1>4, FirstOfIs
    <3>2. QED
      BY <1>1, <3>1
  <2>2. Suffix(s, p) \in Seq(Blanks)
    <3>1. p \in Int /\ Len(s) \in Int
      BY <1>1
    <3>2. QED
      BY <2>1, <3>1, SubSeqProperties DEF Suffix
  <2>3. Lines(Suffix(s, p)) = <<>> /\ Unfinished(Suffix(s, p)) = <<>>
    BY <2>2, LinesOfBlanks
  <2>4. QED
    BY <1>2, <1>4, <2>3 DEF CutOf, CutStep
<1>5. CASE b # 0
  <2>1. b \in p .. Len(s) /\ s[b] \in Bytes \ Blanks /\ \A i \in p .. b - 1 : s[i] \notin Bytes \ Blanks
    BY <1>1, <1>2, <1>5, FirstOfIs
  <2>2. /\ b \in 1 .. Len(s) /\ b \in p .. Len(s) + 1 /\ b \in Nat \ {0}
        /\ \A i \in p .. b - 1 : s[i] \in Blanks
    BY <1>1, <2>1
  <2>3. Lines(Suffix(s, p)) = Lines(Suffix(s, b)) /\ Unfinished(Suffix(s, p)) = Unfinished(Suffix(s, b))
    BY <2>2, SkipBlanks
  <2>4. CASE n = 0
    <3>1. \A i \in b .. Len(s) : s[i] \notin {"\n"}
      BY <1>1, <1>3, <2>2, <2>4, FirstOfIs
    <3>2. PICK y \in Seq(Bytes \ {"\n"}) : y = SubSeq(s, b + 1, Len(s))
      <4>1. b + 1 \in Int /\ Len(s) \in Int /\ \A i \in b + 1 .. Len(s) : s[i] \in Bytes \ {"\n"}
        BY <1>1, <2>2, <3>1
      <4>2. SubSeq(s, b + 1, Len(s)) \in Seq(Bytes \ {"\n"})
        BY <4>1, SubSeqProperties
      <4>3. QED
        BY <4>2
    <3>3. Suffix(s, b) = <<s[b]>> \o y
      <4>1. Len(s) \in b .. Len(s)
        BY <1>1, <2>2
      <4>2. QED
        BY <2>2, <3>2, <4>1, SubSeqRecursiveFirst DEF Suffix
    <3>4. Lines(Suffix(s, b)) = <<>> /\ Unfinished(Suffix(s, b)) = Suffix(s, b)
      BY <2>1, <3>2, <3>3, LinesOfText
    <3>5. QED
      BY <1>2, <1>3, <1>5, <2>3, <2>4, <3>4 DEF CutOf, CutStep, Suffix
  <2>5. CASE n # 0
    <3>1. n \in b .. Len(s) /\ s[n] = "\n" /\ \A i \in b .. n - 1 : s[i] # "\n"
      BY <1>1, <1>3, <2>2, <2>5, FirstOfIs
    <3>2. n \in b + 1 .. Len(s) /\ s[b] \notin Blanks
      <4>1. n # b
        BY <2>1, <3>1 DEF Blanks
      <4>2. QED
        BY <1>1, <2>1, <2>2, <3>1, <4>1
    <3>3. PICK e : e = LineEnd(s, n)
      OBVIOUS
    <3>4. PICK w : w = SubSeq(s, b, e - 1)
      OBVIOUS
    <3>5. /\ e \in b + 1 .. n
          /\ Lines(Suffix(s, b)) = <<w>> \o Lines(Suffix(s, e))
          /\ Unfinished(Suffix(s, b)) = Unfinished(Suffix(s, e))
      <4>1. /\ e \in b + 1 .. n
            /\ Lines(Suffix(s, b)) = <<SubSeq(s, b, e - 1)>> \o Lines(Suffix(s, e))
            /\ Unfinished(Suffix(s, b)) = Unfinished(Suffix(s, e))
        <5>1. ASSUME NEW a \in 1 .. Len(s), NEW k \in a + 1 .. Len(s),
                     s[a] \notin Blanks, s[k] = "\n", \A i \in a .. k - 1 : s[i] # "\n"
              PROVE  /\ LineEnd(s, k) \in a + 1 .. k
                     /\ Lines(Suffix(s, a)) = <<SubSeq(s, a, LineEnd(s, k) - 1)>> \o Lines(Suffix(s, LineEnd(s, k)))
                     /\ Unfinished(Suffix(s, a)) = Unfinished(Suffix(s, LineEnd(s, k)))
          BY <5>1, CutLine
        <5>2. QED
          BY <2>2, <3>1, <3>2, <3>3, <5>1
      <4>2. QED
        BY <3>4, <4>1
    <3>6. h[e] = CutOf(s, e)
      <4>1. e \in 1 .. Len(s) + 1
        BY <1>1, <2>2, <3>1, <3>5
      <4>2. QED
        BY <4>1
    <3>7. PICK u, r : u = <<w>> /\ r = h[e]
      OBVIOUS
    <3>8. CutStep(h, s, p) = [r EXCEPT !.lines = u \o @]
      BY <1>2, <1>3, <1>5, <2>5, <3>3, <3>4, <3>7 DEF CutStep
    <3>9. PICK x, y : x = Lines(Suffix(s, e)) /\ y = Unfinished(Suffix(s, e))
      OBVIOUS
    <3>10. r = [lines |-> x, rest |-> y]
      BY <3>6, <3>7, <3>9 DEF CutOf
    <3>11. [r EXCEPT !.lines = u \o @] = [lines |-> u \o x, rest |-> y]
      BY <3>10, LinesPrefixed
    <3>12. CutOf(s, p) = [lines |-> u \o x, rest |-> y]
      BY <2>3, <3>5, <3>7, <3>9 DEF CutOf
    <3>13. QED
      BY <3>8, <3>11, <3>12
  <2>6. QED
    BY <2>4, <2>5
<1>6. QED
  BY <1>4, <1>5

\* The loop of recv() emits the lines of the buffer, and leaves what they leave
\* unfinished.
LEMMA CutIs ==
  ASSUME NEW s \in Seq(Bytes)
  PROVE  Cut(s) = [lines |-> Lines(s), rest |-> Unfinished(s)]
<1> DEFINE N == Len(s)
           IsCut(f) == f = [p \in 1 .. N + 1 |-> CutStep(f, s, p)]
           c == CHOOSE f : IsCut(f)
           h == [p \in 1 .. N + 1 |-> CutOf(s, p)]
<1>1. N \in Nat /\ 1 \in 1 .. N + 1 /\ N + 1 \in Nat
  BY LenProperties
<1>2. Cut(s) = c[1]
  BY DEF Cut, CutStep, LineEnd
<1>3. \A p \in 1 .. N + 1 : h[p] = CutOf(s, p)
  OBVIOUS
<1>4. \A p \in 1 .. N + 1 : h[p] = CutStep(h, s, p)
  <2> HIDE DEF h
  <2>1. QED
    BY <1>3, CutOfStep
<1>5. IsCut(h)
  <2>1. h = [p \in 1 .. N + 1 |-> h[p]]
    OBVIOUS
  <2> HIDE DEF h, N
  <2>2. QED
    BY <1>4, <2>1
<1>6. IsCut(c)
  <2> HIDE DEF h, IsCut
  <2>1. QED
    BY <1>5
<1>7. \A p \in 1 .. N + 1 : c[p] = CutStep(c, s, p)
  <2> HIDE DEF c
  <2>1. QED
    BY <1>6
<1> DEFINE T == {p \in 1 .. N + 1 : c[p] # h[p]}
<1>8. ASSUME T # {} PROVE FALSE
  <2>1. PICK p \in T : \A q \in T : p >= q
    <3>1. T \subseteq 1 .. N + 1
      OBVIOUS
    <3> HIDE DEF T, N
    <3>2. QED
      BY <1>1, <1>8, <3>1, GreatestElement
  <2>2. p \in 1 .. N + 1 /\ c[p] # h[p]
    OBVIOUS
  <2>3. \A q \in p + 1 .. N : c[q] = h[q]
    <3>1. \A q \in p + 1 .. N : q \in 1 .. N + 1 /\ ~(p >= q)
      BY <1>1, <2>2
    <3> HIDE DEF c, h
    <3>2. QED
      BY <2>1, <3>1
  <2> HIDE DEF c, h, T
  <2>4. CutStep(c, s, p) = CutStep(h, s, p)
    BY <2>2, <2>3, CutStepLater
  <2>5. QED
    BY <1>4, <1>7, <2>2, <2>4
<1>9. c[1] = CutOf(s, 1)
  <2> HIDE DEF c, h
  <2>1. QED
    BY <1>1, <1>3, <1>8
<1>10. Suffix(s, 1) = s
  BY SubSeqFull DEF Suffix
<1>11. QED
  BY <1>2, <1>9, <1>10 DEF CutOf

----------------------------------------------------------------------------
(* The lines of a session                                                  *)

\* The handler of a read that has brought bytes of this session.
HasBytes(c) == c.kind = "read" /\ c.ok /\ c.attempt = attempt

\* The bytes of the last read are still to be taken.
Unread == (\E i \in 1..Len(ready) : HasBytes(ready[i])) \/ HasBytes(running)

\* The bytes taken so far are consumed: their lines are out, and the buffer has
\* what they leave unfinished.
Stream ==
    /\ sent \in Seq(Bytes) /\ raw_recv_buffer \in Seq(Bytes)
    /\ curstate = "connected" =>
          \E consumed \in Seq(Bytes) :
             /\ sent = consumed \o (IF Unread THEN raw_recv_buffer ELSE <<>>)
             /\ lines = Lines(consumed) /\ recv_buffer = Unfinished(consumed)

\* Where nothing has been read into the buffers and no session begins.
LEMMA StreamKept ==
  ASSUME Stream, UNCHANGED bufferVars,
         curstate' = "connected" => curstate = "connected" /\ (Unread' <=> Unread)
  PROVE  Stream'
<1>1. UNCHANGED <<recv_buffer, raw_recv_buffer, sent, lines>>
  BY DEF bufferVars
<1>2. CASE curstate' # "connected"
  BY <1>1, <1>2 DEF Stream
<1>3. CASE curstate' = "connected"
  <2>1. PICK consumed \in Seq(Bytes) :
             /\ sent = consumed \o (IF Unread THEN raw_recv_buffer ELSE <<>>)
             /\ lines = Lines(consumed) /\ recv_buffer = Unfinished(consumed)
    BY <1>3 DEF Stream
  <2>2. /\ sent' = consumed \o (IF Unread' THEN raw_recv_buffer' ELSE <<>>)
        /\ lines' = Lines(consumed) /\ recv_buffer' = Unfinished(consumed)
    BY <1>1, <1>3, <2>1
  <2>3. QED
    BY <1>1, <2>2 DEF Stream
<1>4. QED
  BY <1>2, <1>3

\* A session begins or ends with empty buffers.
LEMMA StreamCleared ==
  ASSUME Stream, BuffersClear, curstate' = "connected" => ~Unread'
  PROVE  Stream'
<1>1. <<>> \in Seq(Bytes) /\ <<>> \o <<>> = <<>>
  BY EmptySeq
<1>2. sent' = <<>> /\ lines' = <<>> /\ recv_buffer' = <<>> /\ raw_recv_buffer' = raw_recv_buffer
  BY DEF BuffersClear
<1>3. lines' = Lines(<<>>) /\ recv_buffer' = Unfinished(<<>>)
  BY <1>2, LinesEmpty, UnfinishedEmpty
<1>4. QED
  BY <1>1, <1>2, <1>3 DEF Stream

\* A handler that is not one of a read with bytes, or a call that closes the
\* socket, takes nothing.
LEMMA GrownUnread ==
  ASSUME Typed, Grown, running' = running \/ (running' = Nothing /\ ~HasBytes(running))
  PROVE  Unread' <=> Unread
<1>1. Len(ready) \in Nat /\ Len(ready') \in Nat /\ Len(ready) <= Len(ready')
  BY ReadyTyped, LenProperties DEF Grown
<1>2. /\ \A i \in 1..Len(ready) : i \in 1..Len(ready') /\ ready'[i] = ready[i]
      /\ \A i \in 1..Len(ready') : i \notin 1..Len(ready) => ~ready'[i].ok
      /\ attempt' = attempt
  BY <1>1 DEF Grown
<1>3. (\E i \in 1..Len(ready) : HasBytes(ready[i]))' <=> (\E i \in 1..Len(ready) : HasBytes(ready[i]))
  BY <1>2 DEF HasBytes
<1>4. HasBytes(running)' <=> HasBytes(running)
  BY <1>2 DEF HasBytes, Nothing
<1>5. QED
  BY <1>3, <1>4 DEF Unread


\* A chunk is added to what is sent, and waits for its handler.
LEMMA CompleteStream ==
  ASSUME Typed, Order, Stream, NEW op \in inflight, CompleteWithBytes(op)
  PROVE  Stream'
<1>1. UNCHANGED <<curstate, attempt, running>> /\ op.attempt = attempt
  BY DEF CompleteWithBytes, Complete, Order, InOrder
<1>2. PICK ok \in BOOLEAN : ready' = Append(ready, Completed(op, ok))
  BY DEF CompleteWithBytes, Complete
<1>3. PICK c \in Completions : /\ c = Completed(op, ok)
                               /\ c.kind = op.kind /\ c.attempt = attempt /\ c.ok = ok
  BY <1>1, CompletedTyped
<1>4. /\ Len(ready) \in Nat /\ Len(ready') = Len(ready) + 1
      /\ \A i \in 1..Len(ready) : ready'[i] = ready[i]
      /\ ready'[Len(ready) + 1] = c
      /\ \A i \in 1..Len(ready') : i \in 1..Len(ready) \/ i = Len(ready) + 1
  BY <1>2, <1>3, AppendReady
<1>5. Last(ready') = c
  BY <1>4 DEF Last
<1>6. HasBytes(c) <=> op.kind = "read" /\ ok
  BY <1>3 DEF HasBytes
<1>7. Unread' <=> Unread \/ HasBytes(c)
  <2>1. \A i \in 1..Len(ready) : i \in 1..Len(ready')
    BY <1>4
  <2>2. Len(ready) + 1 \in 1..Len(ready')
    BY <1>4
  <2>3. QED
    BY <1>1, <1>4, <2>1, <2>2 DEF Unread, HasBytes
<1>8. CASE op.kind = "read" /\ ok
  <2>1. ~Unread
    <3>1. \A i \in 1..Len(ready) : ready[i].kind = "read" => ready[i].attempt # attempt
      BY <1>1, <1>8 DEF Order, OneRead, AtMostOne, Counts
    <3>2. running.kind = "read" => running.attempt # attempt
      BY <1>1, <1>8 DEF Order, OneRead, AtMostOne, Counts, NoneQueued
    <3>3. QED
      BY <3>1, <3>2 DEF Unread, HasBytes
  <2>2. PICK n \in 1..MaxChunk : \E chunk \in [1..n -> Bytes] :
          raw_recv_buffer' = chunk /\ sent' = sent \o chunk /\ UNCHANGED <<recv_buffer, lines>>
    BY <1>3, <1>5, <1>8 DEF CompleteWithBytes
  <2>3. PICK chunk \in Seq(Bytes) :
          raw_recv_buffer' = chunk /\ sent' = sent \o chunk /\ UNCHANGED <<recv_buffer, lines>>
    <3>1. n \in Nat
      BY SessionAssumption DEF SessionAssumption
    <3>2. \A chunk \in [1..n -> Bytes] : chunk \in Seq(Bytes)
      BY <3>1, SeqDef
    <3>3. QED
      BY <2>2, <3>2
  <2>4. sent' \in Seq(Bytes) /\ raw_recv_buffer' \in Seq(Bytes)
    BY <2>3, ConcatProperties DEF Stream
  <2>5. ASSUME curstate = "connected"
        PROVE  \E consumed \in Seq(Bytes) :
                  /\ sent' = consumed \o raw_recv_buffer'
                  /\ lines' = Lines(consumed) /\ recv_buffer' = Unfinished(consumed)
    <3>1. PICK consumed \in Seq(Bytes) :
                  /\ sent = consumed \o <<>>
                  /\ lines = Lines(consumed) /\ recv_buffer = Unfinished(consumed)
      BY <2>1, <2>5 DEF Stream
    <3>2. sent = consumed
      BY <3>1, ConcatEmptySeq
    <3>3. QED
      BY <2>3, <3>1, <3>2
  <2>6. Unread'
    BY <1>6, <1>7, <1>8
  <2>7. QED
    BY <1>1, <2>4, <2>5, <2>6 DEF Stream
<1>9. CASE ~(op.kind = "read" /\ ok)
  <2>1. UNCHANGED bufferVars
    BY <1>3, <1>5, <1>9 DEF CompleteWithBytes
  <2>2. Unread' <=> Unread
    BY <1>6, <1>7, <1>9
  <2>3. QED
    BY <1>1, <2>1, <2>2, StreamKept
<1>10. QED
  BY <1>8, <1>9

LEMMA NextHandlerStream ==
  ASSUME Typed, IInv, ~terminated, Stream, NextHandler
  PROVE  Stream'
<1>1. /\ UNCHANGED bufferVars /\ UNCHANGED <<curstate, attempt>>
      /\ running = Nothing /\ running' = IF destroyed THEN Nothing ELSE ready[1]
      /\ RunNextHandler
  BY NextReady DEF NextHandler, RunNextHandler
<1>2. ASSUME curstate = "connected" PROVE Unread' <=> Unread
  <2>1. running' = ready[1] /\ 1 \in 1..Len(ready) /\ ~HasBytes(running)
    BY <1>1, <1>2, NextReady DEF IInv, DestroyedIsInert, HasBytes, Nothing
  <2>2. Unread' => Unread
    BY <1>1, <2>1, NextReady DEF Unread, HasBytes
  <2>3. Unread => Unread'
    <3>1. PICK i \in 1..Len(ready) : Unread => HasBytes(ready[i])
      BY <2>1 DEF Unread
    <3>2. i = 1 \/ (i - 1 \in 1..Len(ready') /\ ready'[i - 1] = ready[i])
      BY <1>1, NextReady
    <3>3. QED
      BY <1>1, <2>1, <3>1, <3>2 DEF Unread, HasBytes
  <2>4. QED
    BY <2>2, <2>3
<1>3. QED
  BY <1>1, <1>2, StreamKept


\* Only the handler of a read of this session takes bytes.
LEMMA HandlerRunsStream ==
  ASSUME Typed, Order, Stream, HandlerRuns
  PROVE  Stream'
<1>1. /\ RunHandler /\ running' = Nothing /\ attempt' = attempt /\ Grown
  BY RunHandlerGrown DEF HandlerRuns, RunHandler
<1>2. curstate' = "connected" => curstate \in {"connecting", "connected"}
  BY <1>1 DEF RunHandler, ResolveHandler, ConnectHandler, HandshakeHandler, ReadHandler,
              WriteHandler, Ignored
<1>3. ~HasBytes(running) => (Unread' <=> Unread)
  BY <1>1, GrownUnread
<1>4. CASE running.kind = "read" /\ running.ok /\ curstate = "connected"
  <2>1. Receive /\ curstate' = "connected"
    <3>1. ReadHandler
      BY <1>1, <1>4 DEF RunHandler, ResolveHandler, ConnectHandler, HandshakeHandler, WriteHandler
    <3>2. QED
      BY <1>4, <3>1 DEF HandlerRuns, ReadHandler, Ignored
  <2>2. running.attempt = attempt /\ Unread
    BY <1>4 DEF Order, Reads, Counts, Unread, HasBytes
  <2>3. \A i \in 1..Len(ready) : ~HasBytes(ready[i])
    BY <1>4, <2>2 DEF Order, OneRead, AtMostOne, NoneQueued, Counts, HasBytes
  <2>4. ~Unread'
    <3>1. \A i \in 1..Len(ready') : (i \in 1..Len(ready) /\ ready'[i] = ready[i]) \/ ~ready'[i].ok
      BY <1>1 DEF Grown
    <3>2. QED
      BY <1>1, <2>3, <3>1 DEF Unread, HasBytes, Nothing
  <2>5. PICK consumed \in Seq(Bytes) : /\ sent = consumed \o raw_recv_buffer
                                       /\ lines = Lines(consumed) /\ recv_buffer = Unfinished(consumed)
    BY <1>4, <2>2 DEF Stream
  <2>6. sent \in Seq(Bytes) /\ raw_recv_buffer \in Seq(Bytes)
    BY DEF Stream
  <2>7. PICK u \in Seq(Bytes) : u = recv_buffer \o raw_recv_buffer
    BY <2>5, <2>6, UnfinishedIs, ConcatProperties
  <2>8. Cut(u) = [lines |-> Lines(u), rest |-> Unfinished(u)]
    BY CutIs
  <2>9. /\ recv_buffer' = Unfinished(u) /\ lines' = lines \o Lines(u)
        /\ raw_recv_buffer' = <<>> /\ sent' = sent
    BY <2>1, <2>7, <2>8 DEF Receive, EmitLines
  <2>10. Lines(sent) = Lines(consumed) \o Lines(u) /\ Unfinished(sent) = Unfinished(u)
    BY <2>5, <2>6, <2>7, LinesConcat
  <2>11. sent' = sent \o <<>> /\ lines' = Lines(sent) /\ recv_buffer' = Unfinished(sent)
    BY <2>5, <2>6, <2>9, <2>10, ConcatEmptySeq
  <2>12. raw_recv_buffer' \in Seq(Bytes) /\ sent' \in Seq(Bytes)
    BY <2>6, <2>9, EmptySeq
  <2>13. QED
    BY <2>4, <2>6, <2>11, <2>12 DEF Stream
<1>5. CASE ~(running.kind = "read" /\ running.ok /\ curstate = "connected")
  <2>1. BuffersFollow
    BY <1>5 DEF HandlerRuns
  <2>2. CASE curstate' # curstate /\ curstate' \in {"connected", "disconnected"}
    <3>1. BuffersClear
      BY <2>1, <2>2 DEF BuffersFollow
    <3>2. curstate' = "connected" => ~Unread'
      <4>1. curstate' = "connected" => curstate = "connecting"
        BY <1>2, <2>2
      <4>2. curstate = "connecting" => ~Unread /\ ~HasBytes(running)
        BY DEF Order, Reads, NoneQueued, Counts, Unread, HasBytes
      <4>3. QED
        BY <1>3, <4>1, <4>2
    <3>3. QED
      BY <3>1, <3>2, StreamCleared
  <2>3. CASE ~(curstate' # curstate /\ curstate' \in {"connected", "disconnected"})
    <3>1. UNCHANGED bufferVars
      BY <2>1, <2>3 DEF BuffersFollow
    <3>2. curstate' = "connected" => curstate = "connected" /\ (Unread' <=> Unread)
      BY <1>3, <1>5, <2>3 DEF HasBytes
    <3>3. QED
      BY <3>1, <3>2, StreamKept
  <2>4. QED
    BY <2>2, <2>3
<1>6. QED
  BY <1>4, <1>5

LEMMA LeaveStream ==
  ASSUME Stream, Leave
  PROVE  Stream'
<1>1. BuffersFollow
  BY DEF Leave
<1>2. curstate' = "connected" => UNCHANGED <<curstate, ready, running, attempt>>
  BY DEF Leave, Disconnect, Destroy, DoDisconnect, DisconnectInHandler, DoUnscheduledDisconnect
<1>3. CASE curstate' # curstate /\ curstate' \in {"connected", "disconnected"}
  BY <1>1, <1>2, <1>3, StreamCleared DEF BuffersFollow
<1>4. CASE ~(curstate' # curstate /\ curstate' \in {"connected", "disconnected"})
  <2>1. UNCHANGED bufferVars
    BY <1>1, <1>4 DEF BuffersFollow
  <2>2. curstate' = "connected" => curstate = "connected" /\ (Unread' <=> Unread)
    BY <1>2 DEF Unread, HasBytes
  <2>3. QED
    BY <2>1, <2>2, StreamKept
<1>5. QED
  BY <1>3, <1>4

LEMMA StreamStep ==
  ASSUME Unrefused, Stream, [SessionNext]_sessionVars
  PROVE  Stream'
<1>1. ASSUME UNCHANGED vars, UNCHANGED bufferVars PROVE Stream'
  <2>1. curstate' = "connected" => curstate = "connected" /\ (Unread' <=> Unread)
    BY <1>1 DEF vars, Unread, HasBytes
  <2>2. QED
    BY <1>1, <2>1, StreamKept
<1>2. CASE ProgramStep
  <2>1. CASE \E e \in WrittenEndpoints, p \in Ports : SetEndpointTo(e, p)
    <3>1. UNCHANGED bufferVars /\ curstate' = "disconnected"
      BY <2>1, SetEndpointToSets DEF SetEndpointTo, SetEndpoint, SetInvalid, vars
    <3>2. QED
      BY <3>1, StreamKept
  <2>2. CASE ConnectTo \/ ConnectRefused
    <3>1. UNCHANGED bufferVars /\ curstate' = "connecting"
      BY <2>2 DEF ConnectTo, Connect, ConnectRefused
    <3>2. QED
      BY <3>1, StreamKept
  <2>3. CASE Leave
    BY <2>3, LeaveStream
  <2>4. CASE RequestService \/ UseExternal
    BY <1>1, <2>4 DEF RequestService, UseExternal
  <2>5. QED
    BY <1>2, <2>1, <2>2, <2>3, <2>4 DEF ProgramStep
<1>3. CASE Exit
  BY <1>1, <1>3 DEF Exit
<1>4. CASE ~terminated /\ ((\E op \in inflight : CompleteWithBytes(op)) \/ NextHandler \/ HandlerRuns)
  <2>1. Typed /\ IInv /\ Order
    BY <1>4 DEF Unrefused, Inv
  <2>2. QED
    BY <1>4, <2>1, CompleteStream, NextHandlerStream, HandlerRunsStream
<1>5. CASE UNCHANGED sessionVars
  BY <1>1, <1>5 DEF sessionVars
<1>6. QED
  BY <1>2, <1>3, <1>4, <1>5 DEF SessionNext

\* A handler of the chain that establishes a connection, or of a read with bytes.
OnChain(c) == Counts(c, ChainKinds, ChainEnd)

\* A connection whose service was refused starts nothing.  Handlers of an
\* earlier attempt find it connecting; one of them can take it to connected, but
\* no other is left then that has bytes.
StrandedIdle ==
    /\ inflight = {} /\ ~sock_open /\ resolve_iterator = 0 /\ curstate # "disconnected"
    /\ ready \in Seq([kind : Kinds \ {"resolve"}, attempt : Nat, ok : BOOLEAN])
    /\ running.kind # "resolve"
    /\ curstate = "connecting" =>
          /\ \A i, j \in 1..Len(ready) : OnChain(ready[i]) /\ OnChain(ready[j]) => i = j
          /\ OnChain(running) => \A i \in 1..Len(ready) : ~OnChain(ready[i])
    /\ curstate = "connected" =>
          /\ ~OnChain(running) /\ \A i \in 1..Len(ready) : ~OnChain(ready[i])
          /\ sent = <<>> /\ lines = <<>>

\* Where nothing happens to the connection but that a handler ends.
LEMMA StrandedIdleKept ==
  ASSUME StrandedIdle,
         UNCHANGED <<sock_open, resolve_iterator, inflight, ready, bufferVars>>,
         curstate' = curstate \/ curstate' = "disconnecting",
         running' = running \/ running' = Nothing
  PROVE  StrandedIdle'
<1>1. Nothing.kind # "resolve" /\ ~OnChain(Nothing)
  BY DEF Nothing, OnChain, Counts, ChainKinds, ChainEnd
<1>2. QED
  BY <1>1 DEF StrandedIdle, bufferVars, OnChain

\* An operation that fails at once is none of the chain.
LEMMA StrandedStarts ==
  ASSUME Stranded, StrandedIdle, NEW k \in {"read", "write"}, StartOnSocket(k)
  PROVE  /\ inflight' = {}
         /\ ready' \in Seq([kind : Kinds \ {"resolve"}, attempt : Nat, ok : BOOLEAN])
         /\ (\A i \in 1..Len(ready) : ~OnChain(ready[i]))
               => \A i \in 1..Len(ready') : ~OnChain(ready'[i])
<1>1. PICK c \in [kind : Kinds \ {"resolve"}, attempt : Nat, ok : BOOLEAN] :
         c = Completed(Op(k), FALSE) /\ ~OnChain(c)
  <2>1. Completed(Op(k), FALSE) = [kind |-> k, attempt |-> attempt, ok |-> FALSE]
    BY DEF Completed, Op
  <2>2. k \in Kinds \ {"resolve"} /\ attempt \in Nat
    BY DEF Kinds, Stranded
  <2>3. ~OnChain([kind |-> k, attempt |-> attempt, ok |-> FALSE])
    BY DEF OnChain, Counts, ChainKinds
  <2>4. [kind |-> k, attempt |-> attempt, ok |-> FALSE]
           \in [kind : Kinds \ {"resolve"}, attempt : Nat, ok : BOOLEAN]
    BY <2>2
  <2>5. Completed(Op(k), FALSE) \in [kind : Kinds \ {"resolve"}, attempt : Nat, ok : BOOLEAN]
    BY <2>1, <2>4, Zenon
  <2>6. ~OnChain(Completed(Op(k), FALSE))
    BY <2>1, <2>3, Zenon
  <2>7. QED
    BY <2>5, <2>6, Zenon
<1>2. /\ ready \in Seq([kind : Kinds \ {"resolve"}, attempt : Nat, ok : BOOLEAN])
      /\ ready' = Append(ready, c) /\ inflight' = {}
  BY <1>1 DEF StartOnSocket, StrandedIdle
<1>3. /\ ready' \in Seq([kind : Kinds \ {"resolve"}, attempt : Nat, ok : BOOLEAN])
      /\ Len(ready') = Len(ready) + 1 /\ Len(ready) \in Nat
      /\ \A i \in 1..Len(ready) : ready'[i] = ready[i]
      /\ ready'[Len(ready) + 1] = c
  BY <1>2, AppendProperties, LenProperties
<1>4. \A i \in 1..Len(ready') : i \in 1..Len(ready) \/ i = Len(ready) + 1
  BY <1>3
<1>5. QED
  BY <1>1, <1>2, <1>3, <1>4

\* A sequence whose elements are all in a set is a sequence over it.
LEMMA SeqWithin ==
  ASSUME NEW S, NEW T, NEW s \in Seq(S), \A i \in 1..Len(s) : s[i] \in T
  PROVE  s \in Seq(T)
<1>1. Len(s) \in Nat /\ s \in [1..Len(s) -> S]
  BY LenProperties
<1>2. s = [i \in 1..Len(s) |-> s[i]]
  BY <1>1
<1>3. s \in [1..Len(s) -> T]
  BY <1>2
<1>4. QED
  BY <1>1, <1>3

\* The service is refused: nothing is under way, and the handlers that are left
\* are all of the attempt before.
LEMMA RefusedStrands ==
  ASSUME Unrefused, ~terminated, ConnectRefused
  PROVE  StrandedIdle'
<1>1. /\ UNCHANGED <<sock_open, resolve_iterator, inflight, ready, running>>
      /\ curstate = "disconnected" /\ curstate' = "connecting"
  BY DEF ConnectRefused
<1>2. Typed /\ IInv /\ Order
  BY DEF Unrefused, Inv
<1>3. ~sock_open /\ ~LookupWaits /\ running.kind # "resolve" /\ resolve_iterator = 0
  BY <1>1, <1>2 DEF IInv, DisconnectedNotOpen, Order, LookupFirst, ResolverEngaged, Typed, TypeOK
<1>4. inflight = {}
  BY <1>2, <1>3 DEF IInv, ClosedIsIdle, SocketOps, LookupWaits
<1>5. ready \in Seq([kind : Kinds \ {"resolve"}, attempt : Nat, ok : BOOLEAN])
  <2>1. ready \in Seq(Completions) /\ Len(ready) \in Nat /\ \A i \in 1..Len(ready) : ready[i] \in Completions
    BY <1>2, ReadyTyped
  <2>2. \A i \in 1..Len(ready) : ready[i] \in [kind : Kinds \ {"resolve"}, attempt : Nat, ok : BOOLEAN]
    BY <1>3, <2>1, ConnectionAssumption DEF LookupWaits, Completions
  <2>3. QED
    BY <2>1, <2>2, SeqWithin
<1>6. /\ \A i \in 1..Len(ready) : ready[i].attempt = attempt
      /\ running # Nothing => running.attempt = attempt
  BY <1>2, <1>3 DEF Order, StaleFirst
<1>7. \A i, j \in 1..Len(ready) : OnChain(ready[i]) /\ OnChain(ready[j]) => i = j
  BY <1>2, <1>6 DEF Order, OneChain, AtMostOne, OnChain
<1>8. OnChain(running) => \A i \in 1..Len(ready) : ~OnChain(ready[i])
  <2>1. OnChain(running) => running # Nothing
    BY DEF OnChain, Counts, ChainKinds, ChainEnd, Nothing
  <2>2. QED
    BY <1>2, <1>6, <2>1 DEF Order, OneChain, AtMostOne, NoneQueued, OnChain
<1>9. QED
  BY <1>1, <1>3, <1>4, <1>5, <1>7, <1>8 DEF StrandedIdle, OnChain

LEMMA StrandedNext ==
  ASSUME StrandedIdle, NextHandler
  PROVE  StrandedIdle'
<1> DEFINE T == [kind : Kinds \ {"resolve"}, attempt : Nat, ok : BOOLEAN]
<1>1. /\ UNCHANGED <<curstate, sock_open, resolve_iterator, inflight, bufferVars>>
      /\ ready # <<>> /\ ready' = Tail(ready)
      /\ running' = IF destroyed THEN Nothing ELSE Head(ready)
  BY DEF NextHandler, RunNextHandler
<1>2. ready \in Seq(T)
  BY DEF StrandedIdle
<1>3. Head(ready) = ready[1] /\ ready[1] \in T /\ 1 \in 1..Len(ready) /\ Len(ready) \in Nat
  <2> HIDE DEF T
  <2>1. Len(ready) \in Nat /\ Len(ready) # 0
    BY <1>1, <1>2, EmptySeq, LenProperties
  <2>2. 1 \in 1..Len(ready)
    BY <2>1
  <2>3. ready[1] \in T
    BY <1>2, <2>2, ElementOfSeq
  <2>4. Head(ready) = ready[1]
    BY <1>2, <2>1
  <2>5. QED
    BY <2>1, <2>2, <2>3, <2>4
<1>4. /\ ready' \in Seq(T)
      /\ \A i \in 1..Len(ready') :
            i + 1 \in 1..Len(ready) /\ i + 1 # 1 /\ i \in Nat /\ ready'[i] = ready[i + 1]
  BY <1>1, <1>2, <1>3, HeadTailProperties
<1>5. running' = Nothing \/ running' = ready[1]
  BY <1>1, <1>3
<1>6. Nothing.kind # "resolve" /\ ~OnChain(Nothing)
  BY DEF Nothing, OnChain, Counts, ChainKinds, ChainEnd
<1>7. running'.kind # "resolve"
  BY <1>3, <1>5, <1>6
<1>8. ASSUME curstate = "connecting"
      PROVE  /\ \A i, j \in 1..Len(ready') : OnChain(ready'[i]) /\ OnChain(ready'[j]) => i = j
             /\ OnChain(running') => \A i \in 1..Len(ready') : ~OnChain(ready'[i])
  <2>1. \A i, j \in 1..Len(ready) : OnChain(ready[i]) /\ OnChain(ready[j]) => i = j
    BY <1>8 DEF StrandedIdle
  <2>2. ASSUME NEW i \in 1..Len(ready'), NEW j \in 1..Len(ready'), OnChain(ready'[i]), OnChain(ready'[j])
        PROVE  i = j
    <3>1. i + 1 = j + 1
      BY <1>4, <2>1, <2>2
    <3>2. QED
      BY <1>4, <3>1
  <2>3. OnChain(running') => \A i \in 1..Len(ready') : ~OnChain(ready'[i])
    BY <1>3, <1>4, <1>5, <1>6, <2>1
  <2>4. QED
    BY <2>2, <2>3
<1>9. ASSUME curstate = "connected"
      PROVE  /\ ~OnChain(running') /\ \A i \in 1..Len(ready') : ~OnChain(ready'[i])
             /\ sent' = <<>> /\ lines' = <<>>
  BY <1>1, <1>3, <1>4, <1>5, <1>6, <1>9 DEF StrandedIdle, bufferVars
<1>10. QED
  BY <1>1, <1>4, <1>7, <1>8, <1>9 DEF StrandedIdle, OnChain

LEMMA StrandedHandler ==
  ASSUME Stranded, StrandedIdle, HandlerRuns
  PROVE  StrandedIdle'
<1>1. RunHandler /\ running' = Nothing /\ BuffersFollow
  BY DEF HandlerRuns, RunHandler, StrandedIdle, OnChain, Counts, ChainEnd
<1>2. transport = "tcp" /\ resolve_iterator = 0 /\ ~sock_open
  BY DEF Stranded, StrandedIdle
\* Nothing can be closed: the exception ends the program, or nothing happens.
<1>3. CASE UNCHANGED <<curstate, sock_open, resolve_iterator, inflight, ready>>
  <2>1. UNCHANGED bufferVars
    BY <1>1, <1>3 DEF BuffersFollow
  <2>2. QED
    BY <1>1, <1>3, <2>1, StrandedIdleKept
\* A handler of an earlier attempt connects it.
<1>4. CASE curstate = "connecting" /\ OnChain(running) /\ ConnectSuccess
  <2>1. /\ curstate' = "connected" /\ sock_open' = sock_open /\ resolve_iterator' = 0
        /\ StartOnSocket("read")
    BY <1>2, <1>4 DEF ConnectSuccess, ClearResolver, Recv
  <2>2. \A i \in 1..Len(ready) : ~OnChain(ready[i])
    BY <1>4 DEF StrandedIdle
  <2>3. /\ inflight' = {}
        /\ ready' \in Seq([kind : Kinds \ {"resolve"}, attempt : Nat, ok : BOOLEAN])
        /\ \A i \in 1..Len(ready') : ~OnChain(ready'[i])
    BY <2>1, <2>2, StrandedStarts
  <2>4. sent' = <<>> /\ lines' = <<>>
    BY <1>1, <1>4, <2>1 DEF BuffersFollow, BuffersClear
  <2>5. Nothing.kind # "resolve" /\ ~OnChain(Nothing)
    BY DEF Nothing, OnChain, Counts, ChainKinds, ChainEnd
  <2>6. QED
    BY <1>1, <1>2, <2>1, <2>3, <2>4, <2>5 DEF StrandedIdle, OnChain
\* The send callback goes on.
<1>5. CASE /\ curstate = "connected" /\ StartOnSocket("write")
           /\ UNCHANGED <<curstate, sock_open, resolve_iterator>>
  <2>1. /\ \A i \in 1..Len(ready) : ~OnChain(ready[i])
        /\ sent = <<>> /\ lines = <<>>
    BY <1>5 DEF StrandedIdle
  <2>2. /\ inflight' = {}
        /\ ready' \in Seq([kind : Kinds \ {"resolve"}, attempt : Nat, ok : BOOLEAN])
        /\ \A i \in 1..Len(ready') : ~OnChain(ready'[i])
    BY <1>5, <2>1, StrandedStarts
  <2>3. UNCHANGED bufferVars
    BY <1>1, <1>5 DEF BuffersFollow
  <2>4. Nothing.kind # "resolve" /\ ~OnChain(Nothing)
    BY DEF Nothing, OnChain, Counts, ChainKinds, ChainEnd
  <2>5. QED
    BY <1>1, <1>2, <1>5, <2>1, <2>2, <2>3, <2>4 DEF StrandedIdle, OnChain, bufferVars
<1>6. DisconnectInHandler => UNCHANGED <<curstate, sock_open, resolve_iterator, inflight, ready>>
  BY <1>2 DEF DisconnectInHandler, DoUnscheduledDisconnect, CanDisconnect
<1>7. ~ResolveHandler
  BY DEF ResolveHandler, StrandedIdle
<1>8. CASE ConnectHandler
  <2>1. ConnectTryNext(resolve_iterator) => DisconnectInHandler
    BY <1>2 DEF ConnectTryNext
  <2>2. ConnectOptSslHandshake => ConnectSuccess
    BY <1>2 DEF ConnectOptSslHandshake
  <2>3. OnChain(running)
    BY <1>8 DEF ConnectHandler, OnChain, Counts, ChainKinds
  <2>4. QED
    BY <1>3, <1>4, <1>6, <1>8, <2>1, <2>2, <2>3 DEF ConnectHandler, Ignored
<1>9. CASE HandshakeHandler
  <2>1. running.ok => OnChain(running)
    BY <1>9 DEF HandshakeHandler, OnChain, Counts, ChainEnd
  <2>2. QED
    BY <1>3, <1>4, <1>9, <2>1 DEF HandshakeHandler, Ignored, OnlyReport
<1>10. CASE ReadHandler
  <2>1. curstate = "connected" => ~running.ok
    BY <1>10 DEF ReadHandler, StrandedIdle, OnChain, Counts, ChainEnd
  <2>2. QED
    BY <1>3, <1>6, <1>10, <2>1 DEF ReadHandler, Ignored
<1>11. CASE WriteHandler
  BY <1>3, <1>5, <1>6, <1>11 DEF WriteHandler, Ignored
<1>12. QED
  BY <1>1, <1>7, <1>8, <1>9, <1>10, <1>11 DEF RunHandler

LEMMA StrandedIdleStep ==
  ASSUME Stranded, StrandedIdle, [SessionNext]_sessionVars
  PROVE  StrandedIdle'
<1>1. ASSUME UNCHANGED vars, UNCHANGED bufferVars PROVE StrandedIdle'
  BY <1>1, StrandedIdleKept DEF vars
<1>2. CASE ProgramStep
  <2>1. CASE Leave
    <3>1. ~CanDisconnect
      BY DEF CanDisconnect, StrandedIdle
    <3>2. /\ UNCHANGED <<sock_open, resolve_iterator, inflight, ready, running>>
          /\ curstate' = curstate \/ curstate' = "disconnecting"
      BY <2>1, <3>1 DEF Leave, Disconnect, Destroy, DoDisconnect, DisconnectInHandler,
                        DoUnscheduledDisconnect
    <3>3. UNCHANGED bufferVars
      BY <2>1, <3>2 DEF Leave, BuffersFollow
    <3>4. QED
      BY <3>2, <3>3, StrandedIdleKept
  <2>2. CASE RequestService \/ UseExternal
    BY <1>1, <2>2 DEF RequestService, UseExternal
  <2>3. ~(\E e \in WrittenEndpoints, p \in Ports : SetEndpointTo(e, p)) /\ ~ConnectTo /\ ~ConnectRefused
    BY DEF SetEndpointTo, ConnectTo, Connect, ConnectRefused, Stranded, StrandedIdle
  <2>4. QED
    BY <1>2, <2>1, <2>2, <2>3 DEF ProgramStep
<1>3. CASE Exit
  BY <1>1, <1>3 DEF Exit
<1>4. CASE (\E op \in inflight : CompleteWithBytes(op)) \/ NextHandler \/ HandlerRuns
  BY <1>4, StrandedNext, StrandedHandler DEF StrandedIdle
<1>5. CASE UNCHANGED sessionVars
  BY <1>1, <1>5 DEF sessionVars
<1>6. QED
  BY <1>2, <1>3, <1>4, <1>5 DEF SessionNext

\* The invariant: the emitted lines are those of the bytes taken so far, or the
\* service was refused and no byte comes any more.
LinesInv == (Unrefused /\ Stream) \/ (Stranded /\ StrandedIdle)

LEMMA WaitingIs ==
  ASSUME NEW T, ready \in Seq(T)
  PROVE  Waiting = IF Unread THEN Len(raw_recv_buffer) ELSE 0
<1>1. DOMAIN ready = 1..Len(ready)
  BY LenProperties
<1> DEFINE OfRead(x) == (x[1] = "ready" /\ ready[x[2]].ok) \/ (x[1] = "running" /\ running.ok)
<1>2. ASSUME NEW x \in Current("read"), OfRead(x)
      PROVE  Unread
  <2>1. CASE \E op \in inflight : x = <<"inflight", op>>
    BY <1>2, <2>1
  <2>2. CASE \E i \in DOMAIN ready : x = <<"ready", i>> /\ ready[i].kind = "read" /\ ready[i].attempt = attempt
    BY <1>1, <1>2, <2>2 DEF Unread, HasBytes
  <2>3. CASE x = <<"running", running>> /\ running.kind = "read" /\ running.attempt = attempt
    BY <1>2, <2>3 DEF Unread, HasBytes
  <2>4. QED
    BY <2>1, <2>2, <2>3, CurrentPlaces
<1>3. ASSUME Unread
      PROVE  \E x \in Current("read") : OfRead(x)
  <2>1. CASE \E i \in 1..Len(ready) : HasBytes(ready[i])
    <3>1. PICK i \in DOMAIN ready : HasBytes(ready[i])
      BY <1>1, <2>1
    <3>2. <<"ready", i>> \in Current("read")
      BY <3>1 DEF Current, HasBytes
    <3>3. OfRead(<<"ready", i>>)
      BY <3>1 DEF HasBytes
    <3>4. QED
      BY <3>2, <3>3
  <2>2. CASE HasBytes(running)
    <3>1. <<"running", running>> \in Current("read")
      BY <2>2 DEF Current, HasBytes
    <3>2. OfRead(<<"running", running>>)
      BY <2>2 DEF HasBytes
    <3>3. QED
      BY <3>1, <3>2
  <2>3. QED
    BY <1>3, <2>1, <2>2 DEF Unread
<1>4. QED
  BY <1>2, <1>3 DEF Waiting

LEMMA LinesInvLines == LinesInv => LinesOfStream
<1> SUFFICES ASSUME LinesInv, curstate = "connected"
             PROVE  lines = Lines(SubSeq(sent, 1, Len(sent) - Waiting))
  BY DEF LinesOfStream
<1>1. CASE Unrefused /\ Stream
  <2>1. Waiting = IF Unread THEN Len(raw_recv_buffer) ELSE 0
    BY <1>1, ReadyTyped, WaitingIs DEF Unrefused, Inv
  <2>2. PICK consumed \in Seq(Bytes), r \in Seq(Bytes) :
             /\ r = IF Unread THEN raw_recv_buffer ELSE <<>>
             /\ sent = consumed \o r /\ lines = Lines(consumed)
    BY <1>1, EmptySeq DEF Stream
  <2>3. /\ Len(sent) = Len(consumed) + Len(r) /\ Waiting = Len(r)
        /\ Len(consumed) \in Nat /\ Len(r) \in Nat
    BY <2>1, <2>2, ConcatProperties, LenProperties, EmptySeq
  <2>4. Len(sent) - Waiting = Len(consumed)
    BY <2>3
  <2>5. SubSeq(sent, 1, Len(consumed)) = consumed
    <3>1. CASE Len(consumed) = 0
      <4>1. consumed = <<>> /\ SubSeq(sent, 1, 0) = <<>>
        BY <3>1, EmptySeq, SubSeqEmpty
      <4>2. QED
        BY <3>1, <4>1
    <3>2. CASE Len(consumed) # 0
      <4>1. 1 \in 1..Len(consumed) /\ Len(consumed) \in 1..Len(consumed)
        BY <2>3, <3>2
      <4>2. SubSeq(sent, 1, Len(consumed)) = SubSeq(consumed, 1, Len(consumed))
        BY <2>2, <4>1, SubSeqOfConcat1
      <4>3. QED
        BY <4>2, SubSeqFull
    <3>3. QED
      BY <3>1, <3>2
  <2>6. QED
    BY <2>2, <2>4, <2>5
<1>2. CASE Stranded /\ StrandedIdle
  <2>1. ~Unread /\ sent = <<>> /\ lines = <<>>
    BY <1>2 DEF StrandedIdle, Unread, HasBytes, OnChain, Counts, ChainEnd
  <2>2. Waiting = 0
    BY <1>2, <2>1, WaitingIs DEF StrandedIdle
  <2>3. Len(<<>>) - 0 = 0 /\ SubSeq(<<>>, 1, 0) = <<>>
    BY EmptySeq, SubSeqEmpty
  <2>4. QED
    BY <2>1, <2>2, <2>3, LinesEmpty
<1>3. QED
  BY <1>1, <1>2 DEF LinesInv

LEMMA InitLinesInv == SessionInit => LinesInv
<1> SUFFICES ASSUME SessionInit PROVE Unrefused /\ Stream
  BY DEF LinesInv
<1>1. Unrefused
  BY InitInv, InitTcpWork DEF SessionInit, Init, Unrefused
<1>2. Stream
  BY EmptySeq DEF SessionInit, Init, Stream
<1>3. QED
  BY <1>1, <1>2

LEMMA LinesInvStep == LinesInv /\ [SessionNext]_sessionVars => LinesInv'
<1> SUFFICES ASSUME LinesInv, [SessionNext]_sessionVars PROVE LinesInv'
  OBVIOUS
<1>1. CASE Unrefused /\ Stream
  BY <1>1, UnrefusedStep, StreamStep, RefusedStrands DEF LinesInv
<1>2. CASE Stranded /\ StrandedIdle
  BY <1>2, StrandedStep, StrandedIdleStep DEF LinesInv
<1>3. QED
  BY <1>1, <1>2 DEF LinesInv

\* The lines emitted in a session are those of what the server has sent in it,
\* wherever the reads cut it (in a "\r\n", a blank line, a character of text),
\* for any bytes, any chunks and any number of sessions, and whatever is left
\* in the buffers and among the handlers when a session ends
\* (connection.cpp:542-564, 584, 149).
THEOREM LinesAreOfStream == SessionSpec => []LinesOfStream
<1>1. SessionInit => LinesInv
  BY InitLinesInv
<1>2. LinesInv /\ [SessionNext]_sessionVars => LinesInv'
  BY LinesInvStep
<1>3. LinesInv => LinesOfStream
  BY LinesInvLines
<1>4. QED
  BY <1>1, <1>2, <1>3, PTL DEF SessionSpec
===============================================================================
