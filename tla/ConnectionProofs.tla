-------------------------- MODULE ConnectionProofs --------------------------
(***************************************************************************)
(* Proofs about Connection, for every kind of endpoint, any number of      *)
(* attempts and addresses, and every client.                               *)
(***************************************************************************)
EXTENDS Connection, FiniteSetTheorems, SequenceTheorems, TLAPS

----------------------------------------------------------------------------
(* The inductive invariant                                                 *)

\* Nothing is under way on a closed socket.
ClosedIsIdle == ~sock_open => SocketOps = {}

\* The socket is closed before the state becomes disconnected.
DisconnectedNotOpen == curstate = "disconnected" => ~sock_open

\* The destructor leaves a connection that no handler acts for.
DestroyedIsInert ==
    destroyed => curstate \notin {"connecting", "connected"} \/ terminated

IInv == ClosedIsIdle /\ DisconnectedNotOpen /\ DestroyedIsInert

LEMMA InitIInv == Init => IInv
  BY DEF Init, IInv, ClosedIsIdle, DisconnectedNotOpen, DestroyedIsInert, SocketOps

----------------------------------------------------------------------------
(* The helpers of the handlers                                             *)

LEMMA StartOnSocketClosed ==
  ASSUME ClosedIsIdle, NEW k \in Kinds, StartOnSocket(k), sock_open' = sock_open
  PROVE  ClosedIsIdle'
  BY DEF ClosedIsIdle, StartOnSocket, SocketOps

LEMMA StartConnectClosed ==
  ASSUME ClosedIsIdle, StartConnect
  PROVE  ClosedIsIdle'
  BY DEF ClosedIsIdle, StartConnect, SocketOps

LEMMA CloseSocketClosed ==
  ASSUME CloseSocket
  PROVE  ~sock_open' /\ SocketOps' = {} /\ inflight' \subseteq inflight
  BY DEF CloseSocket, SocketOps

LEMMA DisconnectInHandlerStep ==
  ASSUME ClosedIsIdle, DisconnectedNotOpen, DisconnectInHandler
  PROVE  /\ ClosedIsIdle'
         /\ DisconnectedNotOpen'
         /\ curstate' = "disconnected" \/ terminated'
<1>1. CASE DoUnscheduledDisconnect
  BY <1>1, CloseSocketClosed
     DEF DoUnscheduledDisconnect, ClosedIsIdle, DisconnectedNotOpen
<1>2. CASE terminated' = TRUE /\ UNCHANGED <<curstate, sock_open, inflight>>
  BY <1>2 DEF ClosedIsIdle, DisconnectedNotOpen, SocketOps
<1>3. QED
  BY <1>1, <1>2 DEF DisconnectInHandler

LEMMA ConnectSuccessStep ==
  ASSUME ClosedIsIdle, ConnectSuccess
  PROVE  ClosedIsIdle' /\ DisconnectedNotOpen'
<1>1. "read" \in Kinds /\ StartOnSocket("read") /\ sock_open' = sock_open
  BY DEF Kinds, ConnectSuccess, Recv
<1>2. QED
  BY <1>1, StartOnSocketClosed DEF ConnectSuccess, DisconnectedNotOpen

LEMMA ConnectTryNextStep ==
  ASSUME ClosedIsIdle, DisconnectedNotOpen, curstate = "connecting",
         NEW n, ConnectTryNext(n)
  PROVE  ClosedIsIdle' /\ DisconnectedNotOpen'
<1>1. CASE DisconnectInHandler
  BY <1>1, DisconnectInHandlerStep
<1>2. CASE UNCHANGED <<curstate, sock_open, inflight>>
  BY <1>2 DEF ClosedIsIdle, DisconnectedNotOpen, SocketOps
<1>3. CASE StartConnect /\ UNCHANGED curstate
  BY <1>3, StartConnectClosed DEF DisconnectedNotOpen
<1>4. QED
  BY <1>1, <1>2, <1>3 DEF ConnectTryNext

LEMMA ConnectOptSslHandshakeStep ==
  ASSUME ClosedIsIdle, DisconnectedNotOpen, ConnectOptSslHandshake
  PROVE  ClosedIsIdle' /\ DisconnectedNotOpen'
<1>1. CASE StartOnSocket("handshake") /\ UNCHANGED <<curstate, sock_open>>
  <2>1. "handshake" \in Kinds
    BY DEF Kinds
  <2>2. QED
    BY <1>1, <2>1, StartOnSocketClosed DEF DisconnectedNotOpen
<1>2. CASE ConnectSuccess
  BY <1>2, ConnectSuccessStep
<1>3. QED
  BY <1>1, <1>2 DEF ConnectOptSslHandshake

----------------------------------------------------------------------------
(* The steps preserve the invariant                                        *)

\* Once the state is neither connecting nor connected, handlers do nothing.
LEMMA HandlersIgnored ==
  ASSUME RunHandler, curstate \notin {"connecting", "connected"}
  PROVE  UNCHANGED <<curstate, sock_open, inflight, terminated>>
  BY DEF RunHandler, ResolveHandler, ConnectHandler, HandshakeHandler,
         ReadHandler, WriteHandler, Ignored

LEMMA RunHandlerStep ==
  ASSUME IInv, ~terminated, RunHandler
  PROVE  IInv'
<1>1. destroyed' = destroyed
  BY DEF RunHandler
<1>2. ASSUME UNCHANGED <<curstate, sock_open, inflight>>
      PROVE  ClosedIsIdle' /\ DisconnectedNotOpen'
  BY <1>2 DEF IInv, ClosedIsIdle, DisconnectedNotOpen, SocketOps
<1>3. ClosedIsIdle' /\ DisconnectedNotOpen'
  <2>1. CASE ResolveHandler
    BY <1>2, <2>1, DisconnectInHandlerStep, ConnectTryNextStep
       DEF ResolveHandler, Ignored, IInv
  <2>2. CASE ConnectHandler
    BY <1>2, <2>2, ConnectTryNextStep, ConnectOptSslHandshakeStep
       DEF ConnectHandler, Ignored, IInv
  <2>3. CASE HandshakeHandler
    BY <1>2, <2>3, ConnectSuccessStep DEF HandshakeHandler, Ignored, OnlyReport, IInv
  <2>4. CASE ReadHandler
    <3>1. CASE Recv /\ curstate' = "connected"
      <4>1. "read" \in Kinds
        BY DEF Kinds
      <4>2. QED
        BY <3>1, <4>1, StartOnSocketClosed DEF Recv, IInv, DisconnectedNotOpen
    <3>2. QED
      BY <1>2, <2>4, <3>1, DisconnectInHandlerStep DEF ReadHandler, Ignored, IInv
  <2>5. CASE WriteHandler
    <3>1. CASE StartOnSocket("write") /\ UNCHANGED <<curstate, sock_open>>
      <4>1. "write" \in Kinds
        BY DEF Kinds
      <4>2. QED
        BY <3>1, <4>1, StartOnSocketClosed DEF IInv, DisconnectedNotOpen
    <3>2. QED
      BY <1>2, <2>5, <3>1, DisconnectInHandlerStep DEF WriteHandler, Ignored, IInv
  <2>6. QED
    BY <2>1, <2>2, <2>3, <2>4, <2>5 DEF RunHandler
<1>4. DestroyedIsInert'
  BY <1>1, HandlersIgnored DEF IInv, DestroyedIsInert
<1>5. QED
  BY <1>3, <1>4 DEF IInv

LEMMA ClientStepStep ==
  ASSUME IInv, ClientStep
  PROVE  IInv'
<1>1. CASE (\E t \in Endpoints : SetEndpoint(t)) \/ SetInvalid
  <2>1. CloseSocket /\ destroyed' = destroyed
    BY <1>1 DEF SetEndpoint, SetInvalid
  <2>2. QED
    BY <2>1, CloseSocketClosed
       DEF ClientStep, IInv, ClosedIsIdle, DisconnectedNotOpen, DestroyedIsInert
<1>2. CASE Connect
  <2>1. SocketOps' = SocketOps
    BY <1>2 DEF Connect, SocketOps
  <2>2. QED
    BY <1>2, <2>1 DEF Connect, ClientStep, IInv, ClosedIsIdle, DisconnectedNotOpen,
                      DestroyedIsInert
<1>3. CASE Disconnect
  <2>1. CASE DoUnscheduledDisconnect
    BY <1>3, <2>1, CloseSocketClosed
       DEF Disconnect, DoUnscheduledDisconnect, ClientStep, IInv, ClosedIsIdle,
           DisconnectedNotOpen, DestroyedIsInert
  <2>2. CASE curstate' = "disconnecting" /\ UNCHANGED <<sock_open, inflight>>
    BY <1>3, <2>2 DEF Disconnect, ClientStep, IInv, ClosedIsIdle, SocketOps,
                      DisconnectedNotOpen, DestroyedIsInert
  <2>3. QED
    BY <1>3, <2>1, <2>2 DEF Disconnect, DoDisconnect
<1>4. CASE SendRaw
  <2>1. "write" \in Kinds
    BY DEF Kinds
  <2>2. ClosedIsIdle'
    BY <1>4, <2>1, StartOnSocketClosed DEF SendRaw, IInv
  <2>3. QED
    BY <1>4, <2>2 DEF SendRaw, ClientStep, IInv, DisconnectedNotOpen, DestroyedIsInert
<1>5. CASE Destroy
  <2>1. CASE DisconnectInHandler
    BY <2>1, DisconnectInHandlerStep DEF IInv, DestroyedIsInert
  <2>2. CASE /\ curstate \notin {"connecting", "connected"}
             /\ UNCHANGED <<curstate, sock_open, inflight>>
    BY <2>2 DEF IInv, ClosedIsIdle, SocketOps, DisconnectedNotOpen, DestroyedIsInert
  <2>3. QED
    BY <1>5, <2>1, <2>2 DEF Destroy
<1>6. QED
  BY <1>1, <1>2, <1>3, <1>4, <1>5 DEF ClientStep

LEMMA NextIInv == IInv /\ [Next]_vars => IInv'
<1>1. SUFFICES ASSUME IInv, [Next]_vars PROVE IInv'
  OBVIOUS
<1>2. ASSUME UNCHANGED <<curstate, sock_open, destroyed, terminated>>,
             inflight' \subseteq inflight
      PROVE  IInv'
  BY <1>1, <1>2 DEF IInv, ClosedIsIdle, SocketOps, DisconnectedNotOpen, DestroyedIsInert
<1>3. ASSUME NEW op \in inflight, Complete(op) PROVE IInv'
  BY <1>2, <1>3 DEF Complete
<1>4. CASE RunNextHandler
  BY <1>2, <1>4 DEF RunNextHandler
<1>5. CASE UNCHANGED vars
  BY <1>2, <1>5 DEF vars
<1>6. QED
  BY <1>1, <1>3, <1>4, <1>5, ClientStepStep, RunHandlerStep DEF Next

LEMMA SpecIInv == Spec => []IInv
  BY InitIInv, NextIInv, PTL DEF Spec

----------------------------------------------------------------------------
(* The properties                                                          *)

\* Whatever fails, and whichever handlers of earlier attempts still run, a
\* disconnected connection has a closed socket with nothing under way on it.
THEOREM Closed == Spec => []DisconnectedIsClosed
<1>1. IInv => DisconnectedIsClosed
  BY DEF IInv, ClosedIsIdle, DisconnectedNotOpen, DisconnectedIsClosed
<1>2. QED
  BY <1>1, SpecIInv, PTL

\* After the destructor no handler changes the connection or starts an
\* operation, also not one that had locked the implementation before.
THEOREM Quiet == Spec => QuietAfterDestroy
<1>1. ASSUME IInv, [Next]_vars
      PROVE  [destroyed => /\ UNCHANGED <<curstate, sock_open>>
                           /\ inflight' \subseteq inflight]_vars
  <2>1. SUFFICES ASSUME destroyed, Next
                 PROVE  UNCHANGED <<curstate, sock_open>> /\ inflight' \subseteq inflight
    BY <1>1
  <2>2. CASE RunHandler
    BY <1>1, <2>1, <2>2, HandlersIgnored DEF IInv, DestroyedIsInert, Next, ClientStep
  <2>3. ASSUME NEW op \in inflight, Complete(op)
        PROVE  UNCHANGED <<curstate, sock_open>> /\ inflight' \subseteq inflight
    BY <2>3 DEF Complete
  <2>4. CASE RunNextHandler
    BY <2>4 DEF RunNextHandler
  <2>5. QED
    BY <2>1, <2>2, <2>3, <2>4 DEF Next, ClientStep
<1>2. QED
  BY <1>1, SpecIInv, PTL DEF Spec, QuietAfterDestroy

----------------------------------------------------------------------------
(* The order of the handlers: an inductive invariant                       *)

Completions == [kind : Kinds, attempt : 1..MaxConnects, ok : BOOLEAN]

Typed == TypeOK /\ IsFiniteSet(inflight)

\* Whether a handler counts as one of the kinds K, or as a successful one of
\* the kinds F.
Counts(c, K, F) == c.kind \in K \/ (c.kind \in F /\ c.ok)

\* No operation of attempt a is under way or completed that counts.
NoneQueued(a, K, F) ==
    /\ \A op \in inflight : op.kind \in (K \cup F) => op.attempt # a
    /\ \A i \in 1..Len(ready) : Counts(ready[i], K, F) => ready[i].attempt # a

\* At most one operation of each attempt counts, from its start to the end of
\* its handler.
AtMostOne(K, F) ==
    /\ \A o, p \in inflight :
          o.kind \in (K \cup F) /\ p.kind \in (K \cup F) /\ o.attempt = p.attempt => o = p
    /\ \A o \in inflight : \A i \in 1..Len(ready) :
          o.kind \in (K \cup F) /\ Counts(ready[i], K, F) => o.attempt # ready[i].attempt
    /\ \A i, j \in 1..Len(ready) :
          Counts(ready[i], K, F) /\ Counts(ready[j], K, F)
              /\ ready[i].attempt = ready[j].attempt => i = j
    /\ Counts(running, K, F) => NoneQueued(running.attempt, K, F)

ChainKinds == {"resolve", "connect"}
ChainEnd   == {"handshake", "read"}

\* The handlers that establish a connection follow one another.
OneChain == AtMostOne(ChainKinds, ChainEnd)
OneRead  == AtMostOne({"read"}, {})

\* Handlers of an earlier attempt run before those of the current one, which
\* all that is under way belongs to.
InOrder ==
    /\ \A op \in inflight : op.attempt = attempt
    /\ \A i \in 1..Len(ready) : ready[i].attempt \in {attempt - 1, attempt}
    /\ \A i, j \in 1..Len(ready) : i < j => ready[i].attempt <= ready[j].attempt
    /\ running # Nothing =>
          /\ running.attempt \in {attempt - 1, attempt}
          /\ \A i \in 1..Len(ready) : running.attempt <= ready[i].attempt

LookupWaits ==
    \/ \E op \in inflight : op.kind = "resolve"
    \/ \E i \in 1..Len(ready) : ready[i].kind = "resolve"

\* While the name lookup is not through, the socket is closed, and a handler
\* of an earlier attempt finds no address to try.
LookupFirst ==
    /\ LookupWaits \/ running.kind = "resolve" =>
          /\ ~sock_open
          /\ curstate # "disconnected"
          /\ curstate = "connecting" => resolve_iterator = 0
    /\ \A i \in 1..Len(ready) : ready[i].kind = "resolve" => ready[i].attempt = attempt
    /\ running.kind = "resolve" => running.attempt = attempt

\* Handlers of an earlier attempt are left only until the lookup is through.
StaleFirst ==
    \/ LookupWaits
    \/ /\ \A i \in 1..Len(ready) : ready[i].attempt = attempt
       /\ running # Nothing => running.attempt = attempt

ResolverEngaged ==
    /\ resolver \/ resolve_iterator = 0
    /\ curstate = "connecting" => resolver
    /\ curstate = "disconnected" => ~resolver

\* A connected connection reads; one that is connecting does not.
Reads ==
    /\ curstate = "connecting" => NoneQueued(attempt, {"read"}, {})
    /\ curstate = "connecting" /\ running.kind = "read" => running.attempt # attempt
    /\ curstate = "connected" =>
          \/ ~NoneQueued(attempt, {"read"}, {})
          \/ running.kind = "read" /\ running.attempt = attempt
    /\ curstate = "connected" =>
          /\ \A i \in 1..Len(ready) :
                Counts(ready[i], {}, {"connect", "handshake", "read"}) => ready[i].attempt = attempt
          /\ Counts(running, {}, {"connect", "handshake", "read"}) => running.attempt = attempt

Begun == curstate # "disconnected" => attempt >= 1

Order == InOrder /\ OneChain /\ OneRead /\ LookupFirst /\ StaleFirst
            /\ ResolverEngaged /\ Reads /\ Begun

Inv == Typed /\ IInv /\ (terminated \/ Order)

----------------------------------------------------------------------------
(* What the primitives do to the operations                                *)

\* Operations of the current attempt are started on the socket or aborted.
Grown ==
    /\ attempt' = attempt
    /\ inflight' \subseteq [kind : Kinds, attempt : 1..MaxConnects]
    /\ IsFiniteSet(inflight')
    /\ \A op \in inflight' : op.attempt = attempt
    /\ \A op : op.kind = "resolve" => (op \in inflight' <=> op \in inflight)
    /\ ready' \in Seq(Completions)
    /\ Len(ready') >= Len(ready)
    /\ \A i \in 1..Len(ready) : ready'[i] = ready[i]
    /\ \A i \in 1..Len(ready') :
          \/ i \in 1..Len(ready)
          \/ ready'[i].kind # "resolve" /\ ready'[i].attempt = attempt /\ ~ready'[i].ok

LEMMA AppendReady ==
  ASSUME Typed, NEW c \in Completions, ready' = Append(ready, c)
  PROVE  /\ ready' \in Seq(Completions)
         /\ Len(ready) \in Nat /\ Len(ready') = Len(ready) + 1
         /\ \A i \in 1..Len(ready) : ready'[i] = ready[i]
         /\ ready'[Len(ready) + 1] = c
         /\ \A i \in 1..Len(ready') : i \in 1..Len(ready) \/ i = Len(ready) + 1
<1>1. ready \in Seq(Completions)
  BY DEF Typed, TypeOK, Completions
<1>2. QED
  BY <1>1

LEMMA OpTyped ==
  ASSUME Typed, attempt >= 1, NEW k \in Kinds
  PROVE  /\ Op(k) \in [kind : Kinds, attempt : 1..MaxConnects]
         /\ Op(k).kind = k /\ Op(k).attempt = attempt
         /\ \A ok \in BOOLEAN : /\ Completed(Op(k), ok) \in Completions
                                /\ Completed(Op(k), ok).kind = k
                                /\ Completed(Op(k), ok).attempt = attempt
                                /\ Completed(Op(k), ok).ok = ok
<1>1. attempt \in 1..MaxConnects
  BY ConnectionAssumption DEF Typed, TypeOK
<1>2. QED
  BY <1>1 DEF Op, Completed, Completions

LEMMA CompletedTyped ==
  ASSUME Typed, NEW op \in inflight, NEW ok \in BOOLEAN
  PROVE  /\ Completed(op, ok) \in Completions
         /\ Completed(op, ok).kind = op.kind
         /\ Completed(op, ok).attempt = op.attempt
         /\ Completed(op, ok).ok = ok
<1>1. op \in [kind : Kinds, attempt : 1..MaxConnects]
  BY DEF Typed, TypeOK
<1>2. QED
  BY <1>1 DEF Completed, Completions

\* The aborted operations are appended in some order, each of them once.
LEMMA CloseReady ==
  ASSUME Typed, CloseSocket
  PROVE  /\ ready' \in Seq(Completions)
         /\ Len(ready) \in Nat /\ Len(ready') >= Len(ready)
         /\ \A i \in 1..Len(ready) : ready'[i] = ready[i]
         /\ \A i \in 1..Len(ready') :
               i \in 1..Len(ready)
                   \/ \E op \in SocketOps : ready'[i] = Completed(op, FALSE)
         /\ \A i, j \in 1..Len(ready') :
               ready'[i] = ready'[j] /\ i \notin 1..Len(ready) /\ j \notin 1..Len(ready) => i = j
<1>1. SocketOps \subseteq inflight /\ IsFiniteSet(SocketOps)
  BY FS_Subset DEF SocketOps, Typed
<1> DEFINE n == Cardinality(SocketOps)
<1>2. n \in Nat
  BY <1>1, FS_CardinalityType
<1>3. PICK f \in SetToSeqs(SocketOps) :
         ready' = ready \o [i \in DOMAIN f |-> Completed(f[i], FALSE)]
  BY DEF CloseSocket
<1>4. f \in [1..n -> SocketOps] /\ \A i, j \in 1..n : i # j => f[i] # f[j]
  BY <1>3 DEF SetToSeqs
<1> DEFINE aborted == [i \in 1..n |-> Completed(f[i], FALSE)]
<1>5. ready \in Seq(Completions)
  BY DEF Typed, TypeOK, Completions
<1>6. ready' = ready \o aborted
  BY <1>3, <1>4
<1>7. \A i \in 1..n : aborted[i] = Completed(f[i], FALSE) /\ f[i] \in SocketOps
  BY <1>4
<1>8. \A i \in 1..n : aborted[i] \in Completions
  BY <1>1, <1>7, CompletedTyped
<1>9. aborted \in Seq(Completions) /\ Len(aborted) = n
  <2>1. aborted \in [1..n -> Completions]
    BY <1>8
  <2> HIDE DEF aborted
  <2>2. aborted \in Seq(Completions)
    BY <1>2, <2>1, SeqDef
  <2>3. QED
    <3>1. DOMAIN aborted = 1..n /\ DOMAIN aborted = 1..Len(aborted) /\ Len(aborted) \in Nat
      BY <2>1, <2>2, LenProperties
    <3>2. QED
      BY <1>2, <2>2, <3>1
<1>10. \A i, j \in 1..n : aborted[i] = aborted[j] => i = j
  <2> SUFFICES ASSUME NEW i \in 1..n, NEW j \in 1..n, aborted[i] = aborted[j]
               PROVE  i = j
    OBVIOUS
  <2>1. f[i].kind = f[j].kind /\ f[i].attempt = f[j].attempt
    <3>1. f[i] \in inflight /\ f[j] \in inflight
      BY <1>1, <1>4
    <3>2. Completed(f[i], FALSE) = Completed(f[j], FALSE)
      OBVIOUS
    <3>3. /\ Completed(f[i], FALSE).kind = f[i].kind
          /\ Completed(f[i], FALSE).attempt = f[i].attempt
          /\ Completed(f[j], FALSE).kind = f[j].kind
          /\ Completed(f[j], FALSE).attempt = f[j].attempt
      BY <3>1, CompletedTyped
    <3>4. QED
      BY <3>2, <3>3
  <2>2. f[i] \in [kind : Kinds, attempt : 1..MaxConnects]
        /\ f[j] \in [kind : Kinds, attempt : 1..MaxConnects]
    BY <1>1, <1>4 DEF Typed, TypeOK
  <2>3. f[i] = f[j]
    BY <2>1, <2>2
  <2>4. QED
    BY <2>3, <1>4
<1> HIDE DEF aborted, n
<1>11. /\ ready' \in Seq(Completions) /\ Len(ready') = Len(ready) + n /\ Len(ready) \in Nat
       /\ \A i \in 1..Len(ready) : ready'[i] = ready[i]
       /\ \A i \in 1..Len(ready') : i \notin 1..Len(ready) =>
              i - Len(ready) \in 1..n /\ ready'[i] = aborted[i - Len(ready)]
  <2>1. /\ Len(ready) \in Nat /\ Len(ready') = Len(ready) + n
        /\ ready' \in Seq(Completions)
    BY <1>2, <1>5, <1>6, <1>9, ConcatProperties, LenProperties
  <2>2. \A i \in 1..Len(ready) : ready'[i] = ready[i]
    BY <1>5, <1>6, <1>9
  <2>3. \A i \in 1..Len(ready') : i \notin 1..Len(ready) =>
           i - Len(ready) \in 1..n /\ ready'[i] = aborted[i - Len(ready)]
    BY <1>2, <1>5, <1>6, <1>9, <2>1
  <2>4. QED
    BY <2>1, <2>2, <2>3
<1>12. \A i \in 1..Len(ready') : i \notin 1..Len(ready) =>
              \E op \in SocketOps : ready'[i] = Completed(op, FALSE)
  BY <1>7, <1>11
<1>13. \A i, j \in 1..Len(ready') :
          ready'[i] = ready'[j] /\ i \notin 1..Len(ready) /\ j \notin 1..Len(ready) => i = j
  BY <1>10, <1>11
<1>14. Len(ready') >= Len(ready)
  BY <1>2, <1>11
<1>15. QED
  BY <1>11, <1>12, <1>13, <1>14

LEMMA NothingGrown ==
  ASSUME Typed, InOrder, UNCHANGED <<inflight, ready, attempt>>
  PROVE  Grown
<1>1. ready \in Seq(Completions) /\ inflight \subseteq [kind : Kinds, attempt : 1..MaxConnects]
  BY DEF Typed, TypeOK, Completions
<1>2. QED
  BY <1>1 DEF Typed, InOrder, Grown

\* An operation of the current attempt under way, or failed at once.
LEMMA StartGrown ==
  ASSUME Typed, InOrder, attempt >= 1, attempt' = attempt,
         NEW k \in Kinds \ {"resolve"},
         \/ inflight' = inflight \cup {Op(k)} /\ ready' = ready
         \/ inflight' = inflight /\ ready' = Append(ready, Completed(Op(k), FALSE))
  PROVE  Grown
<1>1. ready \in Seq(Completions) /\ inflight \subseteq [kind : Kinds, attempt : 1..MaxConnects]
  BY DEF Typed, TypeOK, Completions
<1>2. CASE inflight' = inflight \cup {Op(k)} /\ ready' = ready
  <2>1. IsFiniteSet(inflight')
    BY <1>2, FS_AddElement DEF Typed
  <2>2. QED
    BY <1>1, <1>2, <2>1, OpTyped DEF InOrder, Grown
<1>3. CASE inflight' = inflight /\ ready' = Append(ready, Completed(Op(k), FALSE))
  <2> DEFINE c == Completed(Op(k), FALSE)
  <2>1. c \in Completions /\ c.kind # "resolve" /\ c.attempt = attempt /\ ~c.ok
    BY OpTyped
  <2> HIDE DEF c
  <2>2. /\ ready' \in Seq(Completions)
        /\ Len(ready) \in Nat /\ Len(ready') = Len(ready) + 1
        /\ \A i \in 1..Len(ready) : ready'[i] = ready[i]
        /\ ready'[Len(ready) + 1] = c
        /\ \A i \in 1..Len(ready') : i \in 1..Len(ready) \/ i = Len(ready) + 1
    BY <1>3, <2>1, AppendReady DEF c
  <2>3. \A i \in 1..Len(ready') : i \notin 1..Len(ready) => ready'[i] = c
    BY <2>2
  <2>4. Len(ready') >= Len(ready)
    BY <2>2
  <2>5. QED
    BY <1>1, <1>3, <2>1, <2>2, <2>3, <2>4 DEF Typed, InOrder, Grown
<1>4. QED
  BY <1>2, <1>3

LEMMA CloseGrown ==
  ASSUME Typed, InOrder, CloseSocket, attempt' = attempt
  PROVE  Grown
<1>1. inflight \subseteq [kind : Kinds, attempt : 1..MaxConnects]
  BY DEF Typed, TypeOK
<1>2. inflight' = inflight \ SocketOps /\ IsFiniteSet(inflight')
  BY FS_Subset DEF CloseSocket, Typed
<1>3. \A op \in SocketOps : op \in inflight /\ op.kind # "resolve"
  BY DEF SocketOps
<1>4. \A i \in 1..Len(ready') : i \notin 1..Len(ready) =>
         ready'[i].kind # "resolve" /\ ready'[i].attempt = attempt /\ ~ready'[i].ok
  <2> SUFFICES ASSUME NEW i \in 1..Len(ready'), i \notin 1..Len(ready)
               PROVE  ready'[i].kind # "resolve" /\ ready'[i].attempt = attempt /\ ~ready'[i].ok
    OBVIOUS
  <2>1. PICK op \in SocketOps : ready'[i] = Completed(op, FALSE)
    BY CloseReady
  <2>2. op \in inflight /\ op.kind # "resolve" /\ op.attempt = attempt
    BY <1>3 DEF InOrder
  <2>3. /\ Completed(op, FALSE).kind = op.kind /\ Completed(op, FALSE).attempt = op.attempt
        /\ Completed(op, FALSE).ok = FALSE
    BY <2>2, CompletedTyped
  <2>4. QED
    BY <2>1, <2>2, <2>3
<1>5. QED
  BY <1>1, <1>2, <1>3, <1>4, CloseReady DEF InOrder, Grown

\* What follows for the order of the handlers, where a handler has ended or
\* the client has called.
LEMMA GrownOrder ==
  ASSUME Typed, InOrder, StaleFirst, Grown, running' = running \/ running' = Nothing
  PROVE  /\ InOrder' /\ StaleFirst'
         /\ LookupWaits' <=> LookupWaits
<1>0. Len(ready) \in Nat /\ Len(ready') \in Nat /\ attempt \in Nat
  BY LenProperties, ConnectionAssumption DEF Typed, TypeOK, Completions, Grown
<1>1. LookupWaits' <=> LookupWaits
  <2>1. (\E op \in inflight' : op.kind = "resolve") <=> (\E op \in inflight : op.kind = "resolve")
    BY DEF Grown
  <2>2. (\E i \in 1..Len(ready') : ready'[i].kind = "resolve")
            <=> (\E i \in 1..Len(ready) : ready[i].kind = "resolve")
    BY <1>0 DEF Grown
  <2>3. QED
    BY <2>1, <2>2 DEF LookupWaits
<1>2. \A i \in 1..Len(ready') :
         \/ i \in 1..Len(ready) /\ ready'[i] = ready[i]
         \/ i > Len(ready) /\ ready'[i].attempt = attempt
  BY <1>0 DEF Grown
<1>3. InOrder'
  <2>1. \A op \in inflight' : op.attempt = attempt'
    BY DEF Grown
  <2>2. \A i \in 1..Len(ready') : ready'[i].attempt \in {attempt' - 1, attempt'}
    BY <1>2 DEF Grown, InOrder
  <2>3. \A i, j \in 1..Len(ready') : i < j => ready'[i].attempt <= ready'[j].attempt
    BY <1>0, <1>2, <2>2 DEF Grown, InOrder
  <2>4. running' # Nothing =>
          /\ running'.attempt \in {attempt' - 1, attempt'}
          /\ \A i \in 1..Len(ready') : running'.attempt <= ready'[i].attempt
    BY <1>0, <1>2, <2>2 DEF Grown, InOrder
  <2>5. QED
    BY <2>1, <2>2, <2>3, <2>4 DEF InOrder
<1>4. StaleFirst'
  BY <1>1, <1>2 DEF Grown, StaleFirst
<1>5. QED
  BY <1>1, <1>3, <1>4

LEMMA ReadyTyped ==
  ASSUME Typed
  PROVE  /\ ready \in Seq(Completions) /\ Len(ready) \in Nat
         /\ \A i \in 1..Len(ready) : ready[i] \in Completions
         /\ inflight \subseteq [kind : Kinds, attempt : 1..MaxConnects]
         /\ running \in {Nothing} \cup Completions
         /\ attempt \in Nat
<1>1. ready \in Seq(Completions)
  BY DEF Typed, TypeOK, Completions
<1>2. Len(ready) \in Nat /\ \A i \in 1..Len(ready) : ready[i] \in Completions
  BY <1>1, LenProperties, ElementOfSeq
<1>3. QED
  BY <1>1, <1>2, ConnectionAssumption DEF Typed, TypeOK, Completions

\* A start of kind k on the socket, which fails at once or goes on.
LEMMA StartOne ==
  ASSUME Typed, attempt >= 1, attempt' = attempt,
         NEW K \in SUBSET Kinds, NEW F \in SUBSET Kinds, NEW k \in Kinds,
         \/ /\ inflight' = inflight \cup {Op(k)} /\ ready' = ready
            /\ k \in (K \cup F) => NoneQueued(attempt, K, F)
         \/ /\ inflight' = inflight /\ ready' = Append(ready, Completed(Op(k), FALSE))
            /\ k \in K => NoneQueued(attempt, K, F),
         AtMostOne(K, F),
         running' = Nothing \/ (running' = running /\ k \notin (K \cup F))
  PROVE  AtMostOne(K, F)'
<1>1. ~Counts(Nothing, K, F)
  BY DEF Counts, Nothing, Kinds
<1>2. CASE /\ inflight' = inflight \cup {Op(k)} /\ ready' = ready
           /\ k \in (K \cup F) => NoneQueued(attempt, K, F)
  <2>1. Op(k).kind = k /\ Op(k).attempt = attempt
    BY OpTyped
  <2>2. \A o, p \in inflight' :
           o.kind \in (K \cup F) /\ p.kind \in (K \cup F) /\ o.attempt = p.attempt => o = p
    BY <1>2, <2>1 DEF AtMostOne, NoneQueued
  <2>3. \A o \in inflight' : \A i \in 1..Len(ready') :
           o.kind \in (K \cup F) /\ Counts(ready'[i], K, F) => o.attempt # ready'[i].attempt
    BY <1>2, <2>1 DEF AtMostOne, NoneQueued
  <2>4. Counts(running', K, F) =>
          /\ \A op \in inflight' : op.kind \in (K \cup F) => op.attempt # running'.attempt
          /\ \A i \in 1..Len(ready') : Counts(ready'[i], K, F) => ready'[i].attempt # running'.attempt
    BY <1>1, <1>2, <2>1 DEF AtMostOne, NoneQueued
  <2>5. QED
    BY <1>2, <2>2, <2>3, <2>4 DEF AtMostOne, NoneQueued
<1>3. CASE /\ inflight' = inflight /\ ready' = Append(ready, Completed(Op(k), FALSE))
           /\ k \in K => NoneQueued(attempt, K, F)
  <2> DEFINE c == Completed(Op(k), FALSE)
  <2>1. c \in Completions /\ c.kind = k /\ c.attempt = attempt /\ ~c.ok
    BY OpTyped
  <2> HIDE DEF c
  <2>2. /\ \A i \in 1..Len(ready) : ready'[i] = ready[i]
        /\ ready'[Len(ready) + 1] = c
        /\ \A i \in 1..Len(ready') : i \in 1..Len(ready) \/ i = Len(ready) + 1
    BY <1>3, <2>1, AppendReady DEF c
  <2>3. Counts(c, K, F) => k \in K /\ NoneQueued(attempt, K, F)
    BY <1>3, <2>1 DEF Counts
  <2>4. \A i \in 1..Len(ready') :
           \/ i \in 1..Len(ready) /\ ready'[i] = ready[i]
           \/ i = Len(ready) + 1 /\ ready'[i] = c
    BY <2>2
  <2>5. \A o \in inflight' : \A i \in 1..Len(ready') :
           o.kind \in (K \cup F) /\ Counts(ready'[i], K, F) => o.attempt # ready'[i].attempt
    <3> SUFFICES ASSUME NEW o \in inflight, NEW i \in 1..Len(ready'),
                        o.kind \in (K \cup F), Counts(ready'[i], K, F)
                 PROVE  o.attempt # ready'[i].attempt
      BY <1>3
    <3>1. CASE i \in 1..Len(ready) /\ ready'[i] = ready[i]
      BY <3>1 DEF AtMostOne
    <3>2. CASE ready'[i] = c
      BY <2>1, <2>3, <3>2 DEF NoneQueued
    <3>3. QED
      BY <2>4, <3>1, <3>2
  <2>6. \A i, j \in 1..Len(ready') :
           Counts(ready'[i], K, F) /\ Counts(ready'[j], K, F)
               /\ ready'[i].attempt = ready'[j].attempt => i = j
    BY <2>1, <2>3, <2>4 DEF AtMostOne, NoneQueued
  <2>7. Counts(running', K, F) =>
          /\ \A op \in inflight' : op.kind \in (K \cup F) => op.attempt # running'.attempt
          /\ \A i \in 1..Len(ready') : Counts(ready'[i], K, F) => ready'[i].attempt # running'.attempt
    BY <1>1, <1>3, <2>1, <2>3, <2>4 DEF AtMostOne, NoneQueued
  <2>8. QED
    BY <1>3, <2>5, <2>6, <2>7 DEF AtMostOne, NoneQueued
<1>4. QED
  BY <1>2, <1>3

LEMMA CloseNone ==
  ASSUME Typed, NEW K \in SUBSET Kinds, NEW F \in SUBSET Kinds, NEW a,
         CloseSocket, NoneQueued(a, K, F)
  PROVE  /\ \A op \in inflight' : op.kind \in (K \cup F) => op.attempt # a
         /\ \A i \in 1..Len(ready') : Counts(ready'[i], K, F) => ready'[i].attempt # a
<1>1. \A op \in inflight' : op \in inflight
  BY DEF CloseSocket
<1>2. \A i \in 1..Len(ready') : Counts(ready'[i], K, F) => ready'[i].attempt # a
  <2> SUFFICES ASSUME NEW i \in 1..Len(ready'), Counts(ready'[i], K, F)
               PROVE  ready'[i].attempt # a
    OBVIOUS
  <2>1. CASE i \in 1..Len(ready) /\ ready'[i] = ready[i]
    BY <2>1 DEF NoneQueued
  <2>2. ASSUME NEW op \in SocketOps, ready'[i] = Completed(op, FALSE)
        PROVE  ready'[i].attempt # a
    <3>1. op \in inflight
      BY DEF SocketOps
    <3>2. ready'[i].kind = op.kind /\ ready'[i].attempt = op.attempt
      BY <2>2, <3>1, CompletedTyped
    <3>3. op.kind \in (K \cup F)
      BY <3>2 DEF Counts
    <3>4. QED
      BY <3>1, <3>2, <3>3 DEF NoneQueued
  <2>3. QED
    BY <2>1, <2>2, CloseReady
<1>3. QED
  BY <1>1, <1>2 DEF NoneQueued

LEMMA CloseOne ==
  ASSUME Typed, NEW K \in SUBSET Kinds, NEW F \in SUBSET Kinds,
         CloseSocket, AtMostOne(K, F), running' = Nothing \/ running' = running
  PROVE  AtMostOne(K, F)'
<1>1. ~Counts(Nothing, K, F)
  BY DEF Counts, Nothing, Kinds
<1>2. inflight' \subseteq inflight /\ inflight' \cap SocketOps = {} /\ SocketOps \subseteq inflight
  BY DEF CloseSocket, SocketOps
<1>3. \A i \in 1..Len(ready') :
         \/ i \in 1..Len(ready) /\ ready'[i] = ready[i]
         \/ /\ i \notin 1..Len(ready)
            /\ \E op \in SocketOps : /\ ready'[i] = Completed(op, FALSE)
                                     /\ ready'[i].kind = op.kind
                                     /\ ready'[i].attempt = op.attempt
                                     /\ ~ready'[i].ok
  <2>1. \A op \in SocketOps : /\ Completed(op, FALSE).kind = op.kind
                               /\ Completed(op, FALSE).attempt = op.attempt
                               /\ ~Completed(op, FALSE).ok
    BY <1>2, CompletedTyped
  <2>2. QED
    BY <2>1, CloseReady
<1>4. \A i \in 1..Len(ready') : Counts(ready'[i], K, F) =>
         \/ i \in 1..Len(ready) /\ ready'[i] = ready[i]
         \/ /\ i \notin 1..Len(ready)
            /\ \E op \in SocketOps : /\ ready'[i] = Completed(op, FALSE)
                                     /\ op.kind \in (K \cup F)
                                     /\ ready'[i].attempt = op.attempt
  BY <1>3 DEF Counts
<1>5. \A o \in inflight' : \A i \in 1..Len(ready') :
         o.kind \in (K \cup F) /\ Counts(ready'[i], K, F) => o.attempt # ready'[i].attempt
  <2> SUFFICES ASSUME NEW o \in inflight', NEW i \in 1..Len(ready'),
                      o.kind \in (K \cup F), Counts(ready'[i], K, F)
               PROVE  o.attempt # ready'[i].attempt
    OBVIOUS
  <2>1. CASE i \in 1..Len(ready) /\ ready'[i] = ready[i]
    BY <1>2, <2>1 DEF AtMostOne
  <2>2. ASSUME NEW op \in SocketOps, op.kind \in (K \cup F), ready'[i].attempt = op.attempt
        PROVE  o.attempt # ready'[i].attempt
    BY <1>2, <2>2 DEF AtMostOne
  <2>3. QED
    BY <1>4, <2>1, <2>2
<1>6. ASSUME NEW i \in 1..Len(ready'), NEW j \in 1..Len(ready'),
             Counts(ready'[i], K, F), Counts(ready'[j], K, F),
             ready'[i].attempt = ready'[j].attempt
      PROVE  i = j
  <2>1. CASE /\ i \in 1..Len(ready) /\ ready'[i] = ready[i]
             /\ j \in 1..Len(ready) /\ ready'[j] = ready[j]
    BY <1>6, <2>1 DEF AtMostOne
  <2>2. ASSUME i \in 1..Len(ready), ready'[i] = ready[i], NEW op \in SocketOps,
               op.kind \in (K \cup F), ready'[j].attempt = op.attempt
        PROVE  FALSE
    BY <1>2, <1>6, <2>2 DEF AtMostOne
  <2>3. ASSUME j \in 1..Len(ready), ready'[j] = ready[j], NEW op \in SocketOps,
               op.kind \in (K \cup F), ready'[i].attempt = op.attempt
        PROVE  FALSE
    BY <1>2, <1>6, <2>3 DEF AtMostOne
  <2>4. ASSUME i \notin 1..Len(ready), j \notin 1..Len(ready),
               NEW o \in SocketOps, o.kind \in (K \cup F), ready'[i] = Completed(o, FALSE),
               ready'[i].attempt = o.attempt,
               NEW p \in SocketOps, p.kind \in (K \cup F), ready'[j] = Completed(p, FALSE),
               ready'[j].attempt = p.attempt
        PROVE  i = j
    <3>1. o = p
      BY <1>2, <1>6, <2>4 DEF AtMostOne
    <3>2. QED
      BY <2>4, <3>1, CloseReady
  <2>5. QED
    BY <1>4, <1>6, <2>1, <2>2, <2>3, <2>4
<1>7. Counts(running', K, F) =>
          /\ \A op \in inflight' : op.kind \in (K \cup F) => op.attempt # running'.attempt
          /\ \A i \in 1..Len(ready') : Counts(ready'[i], K, F) => ready'[i].attempt # running'.attempt
  BY <1>1, CloseNone DEF AtMostOne
<1>8. QED
  BY <1>2, <1>5, <1>6, <1>7 DEF AtMostOne, NoneQueued

----------------------------------------------------------------------------
(* An operation ends; the io thread takes the next handler                 *)

LEMMA CompleteReady ==
  ASSUME Typed, NEW op \in inflight, Complete(op)
  PROVE  \E c \in Completions :
            /\ c.kind = op.kind /\ c.attempt = op.attempt
            /\ ready' \in Seq(Completions)
            /\ Len(ready') = Len(ready) + 1
            /\ \A i \in 1..Len(ready') :
                  \/ i \in 1..Len(ready) /\ ready'[i] = ready[i]
                  \/ i = Len(ready) + 1 /\ ready'[i] = c
            /\ \A i \in 1..Len(ready) : i \in 1..Len(ready') /\ ready'[i] = ready[i]
            /\ Len(ready) + 1 \in 1..Len(ready') /\ ready'[Len(ready) + 1] = c
<1>1. PICK ok \in BOOLEAN : ready' = Append(ready, Completed(op, ok))
  BY DEF Complete
<1> DEFINE c == Completed(op, ok)
<1>2. c \in Completions /\ c.kind = op.kind /\ c.attempt = op.attempt
  BY CompletedTyped
<1> HIDE DEF c
<1>3. ready' = Append(ready, c)
  BY <1>1 DEF c
<1>4. /\ ready' \in Seq(Completions)
      /\ Len(ready) \in Nat /\ Len(ready') = Len(ready) + 1
      /\ \A i \in 1..Len(ready) : ready'[i] = ready[i]
      /\ ready'[Len(ready) + 1] = c
      /\ \A i \in 1..Len(ready') : i \in 1..Len(ready) \/ i = Len(ready) + 1
  BY <1>2, <1>3, AppendReady
<1>5. WITNESS c \in Completions
<1>6. QED
  BY <1>2, <1>4

LEMMA CompleteOne ==
  ASSUME Typed, NEW K \in SUBSET Kinds, NEW F \in SUBSET Kinds,
         NEW op \in inflight, Complete(op), AtMostOne(K, F)
  PROVE  AtMostOne(K, F)'
<1>1. inflight' = inflight \ {op} /\ running' = running
  BY DEF Complete
<1>2. PICK c \in Completions :
            /\ c.kind = op.kind /\ c.attempt = op.attempt
            /\ \A i \in 1..Len(ready') :
                  \/ i \in 1..Len(ready) /\ ready'[i] = ready[i]
                  \/ i = Len(ready) + 1 /\ ready'[i] = c
  BY CompleteReady
<1>3. Counts(c, K, F) => op.kind \in (K \cup F)
  BY <1>2 DEF Counts
<1>4. \A o \in inflight' : \A i \in 1..Len(ready') :
         o.kind \in (K \cup F) /\ Counts(ready'[i], K, F) => o.attempt # ready'[i].attempt
  BY <1>1, <1>2, <1>3 DEF AtMostOne
<1>5. \A i, j \in 1..Len(ready') :
         Counts(ready'[i], K, F) /\ Counts(ready'[j], K, F)
             /\ ready'[i].attempt = ready'[j].attempt => i = j
  BY <1>2, <1>3 DEF AtMostOne
<1>6. Counts(running', K, F) =>
         /\ \A o \in inflight' : o.kind \in (K \cup F) => o.attempt # running'.attempt
         /\ \A i \in 1..Len(ready') : Counts(ready'[i], K, F) => ready'[i].attempt # running'.attempt
  BY <1>1, <1>2, <1>3 DEF AtMostOne, NoneQueued
<1>7. QED
  BY <1>1, <1>4, <1>5, <1>6 DEF AtMostOne, NoneQueued

LEMMA CompleteOrder ==
  ASSUME Typed, IInv, Order, NEW op \in inflight, Complete(op)
  PROVE  Order'
<1>1. /\ inflight' = inflight \ {op}
      /\ UNCHANGED <<curstate, sock_open, resolver, resolve_iterator, attempt, running>>
  BY DEF Complete
<1>2. PICK c \in Completions :
            /\ c.kind = op.kind /\ c.attempt = op.attempt
            /\ Len(ready') = Len(ready) + 1
            /\ \A i \in 1..Len(ready') :
                  \/ i \in 1..Len(ready) /\ ready'[i] = ready[i]
                  \/ i = Len(ready) + 1 /\ ready'[i] = c
            /\ \A i \in 1..Len(ready) : i \in 1..Len(ready') /\ ready'[i] = ready[i]
            /\ Len(ready) + 1 \in 1..Len(ready') /\ ready'[Len(ready) + 1] = c
  BY CompleteReady
<1>3. op.attempt = attempt /\ Len(ready) \in Nat /\ attempt \in Nat
  BY ReadyTyped DEF Order, InOrder
<1>4. InOrder'
  <2>1. \A i \in 1..Len(ready') : ready'[i].attempt \in {attempt' - 1, attempt'}
    BY <1>1, <1>2, <1>3 DEF Order, InOrder
  <2>2. \A i, j \in 1..Len(ready') : i < j => ready'[i].attempt <= ready'[j].attempt
    <3> SUFFICES ASSUME NEW i \in 1..Len(ready'), NEW j \in 1..Len(ready'), i < j
                 PROVE  ready'[i].attempt <= ready'[j].attempt
      OBVIOUS
    <3>1. i \in 1..Len(ready) /\ ready'[i] = ready[i]
      BY <1>2, <1>3
    <3>2. CASE j \in 1..Len(ready) /\ ready'[j] = ready[j]
      BY <3>1, <3>2 DEF Order, InOrder
    <3>3. CASE ready'[j] = c
      BY <1>2, <1>3, <3>1, <3>3 DEF Order, InOrder
    <3>4. QED
      BY <1>2, <3>2, <3>3
  <2>3. running' # Nothing =>
          /\ running'.attempt \in {attempt' - 1, attempt'}
          /\ \A i \in 1..Len(ready') : running'.attempt <= ready'[i].attempt
    <3>1. ASSUME running # Nothing, NEW i \in 1..Len(ready')
          PROVE  running.attempt <= ready'[i].attempt
      <4>1. CASE i \in 1..Len(ready) /\ ready'[i] = ready[i]
        BY <3>1, <4>1 DEF Order, InOrder
      <4>2. CASE ready'[i] = c
        BY <1>2, <1>3, <3>1, <4>2 DEF Order, InOrder
      <4>3. QED
        BY <1>2, <4>1, <4>2
    <3>2. QED
      BY <1>1, <3>1 DEF Order, InOrder
  <2>4. QED
    BY <1>1, <2>1, <2>2, <2>3 DEF Order, InOrder
<1>5. OneChain' /\ OneRead'
  BY CompleteOne DEF Order, OneChain, OneRead, ChainKinds, ChainEnd, Kinds
<1>6. LookupWaits' <=> LookupWaits
  <2>1. LookupWaits' => LookupWaits
    BY <1>1, <1>2 DEF LookupWaits
  <2>2. LookupWaits => LookupWaits'
    BY <1>1, <1>2 DEF LookupWaits
  <2>3. QED
    BY <2>1, <2>2
<1>7. LookupFirst'
  <2>1. \A i \in 1..Len(ready') : ready'[i].kind = "resolve" => ready'[i].attempt = attempt'
    BY <1>1, <1>2, <1>3 DEF Order, LookupFirst
  <2>2. QED
    BY <1>1, <1>6, <2>1 DEF Order, LookupFirst
<1>8. StaleFirst'
  BY <1>1, <1>2, <1>3, <1>6 DEF Order, StaleFirst
<1>9. ResolverEngaged' /\ Begun'
  BY <1>1 DEF Order, ResolverEngaged, Begun
<1>10. NoneQueued(attempt, {"read"}, {})' <=> NoneQueued(attempt, {"read"}, {})
  <2>1. NoneQueued(attempt, {"read"}, {}) => NoneQueued(attempt, {"read"}, {})'
    BY <1>1, <1>2 DEF NoneQueued, Counts
  <2>2. NoneQueued(attempt, {"read"}, {})' => NoneQueued(attempt, {"read"}, {})
    BY <1>1, <1>2 DEF NoneQueued, Counts
  <2>3. QED
    BY <2>1, <2>2
<1>11. Reads'
  <2>1. curstate = "connected" => \A i \in 1..Len(ready') :
           Counts(ready'[i], {}, {"connect", "handshake", "read"}) => ready'[i].attempt = attempt
    BY <1>2, <1>3 DEF Order, Reads
  <2>2. QED
    BY <1>1, <1>10, <2>1 DEF Order, Reads
<1>12. QED
  BY <1>4, <1>5, <1>7, <1>8, <1>9, <1>11 DEF Order

LEMMA NextReady ==
  ASSUME Typed, RunNextHandler
  PROVE  /\ 1 \in 1..Len(ready) /\ Head(ready) = ready[1] /\ ready[1] \in Completions
         /\ ready' \in Seq(Completions)
         /\ Len(ready) \in Nat /\ Len(ready') = Len(ready) - 1
         /\ \A i \in 1..Len(ready') : i + 1 \in 1..Len(ready) /\ ready'[i] = ready[i + 1]
         /\ \A i \in 1..Len(ready) : i = 1 \/ (i - 1 \in 1..Len(ready') /\ ready'[i - 1] = ready[i])
<1>1. ready \in Seq(Completions) /\ ready # <<>> /\ ready' = Tail(ready)
  BY ReadyTyped DEF RunNextHandler
<1>2. 1 \in 1..Len(ready) /\ Head(ready) = ready[1] /\ ready[1] \in Completions
      /\ Len(ready) \in Nat
  BY <1>1, EmptySeq, LenProperties, ElementOfSeq
<1>3. /\ ready' \in Seq(Completions) /\ Len(ready') = Len(ready) - 1
      /\ \A i \in 1..Len(ready') : i + 1 \in 1..Len(ready) /\ ready'[i] = ready[i + 1]
  BY <1>1, <1>2, HeadTailProperties
<1>4. ASSUME NEW i \in 1..Len(ready), i # 1
      PROVE  i - 1 \in 1..Len(ready') /\ ready'[i - 1] = ready[i]
  <2>1. i - 1 \in 1..Len(ready') /\ (i - 1) + 1 = i
    BY <1>2, <1>3, <1>4
  <2>2. QED
    BY <1>3, <2>1
<1>5. QED
  BY <1>1, <1>2, <1>3, <1>4

LEMMA NextOne ==
  ASSUME Typed, NEW K \in SUBSET Kinds, NEW F \in SUBSET Kinds,
         RunNextHandler, AtMostOne(K, F)
  PROVE  AtMostOne(K, F)'
<1>1. inflight' = inflight /\ running' \in {Nothing, ready[1]}
  BY NextReady DEF RunNextHandler
<1>2. ~Counts(Nothing, K, F)
  BY DEF Counts, Nothing, Kinds
<1>3. \A o \in inflight' : \A i \in 1..Len(ready') :
         o.kind \in (K \cup F) /\ Counts(ready'[i], K, F) => o.attempt # ready'[i].attempt
  BY <1>1, NextReady DEF AtMostOne
<1>4. \A i, j \in 1..Len(ready') :
         Counts(ready'[i], K, F) /\ Counts(ready'[j], K, F)
             /\ ready'[i].attempt = ready'[j].attempt => i = j
  <2> SUFFICES ASSUME NEW i \in 1..Len(ready'), NEW j \in 1..Len(ready'),
                      Counts(ready'[i], K, F), Counts(ready'[j], K, F),
                      ready'[i].attempt = ready'[j].attempt
               PROVE  i = j
    OBVIOUS
  <2>1. /\ i + 1 \in 1..Len(ready) /\ ready'[i] = ready[i + 1]
        /\ j + 1 \in 1..Len(ready) /\ ready'[j] = ready[j + 1]
    BY NextReady
  <2>2. i + 1 = j + 1
    BY <2>1 DEF AtMostOne
  <2>3. QED
    BY <2>2
<1>5. Counts(running', K, F) =>
         /\ \A o \in inflight' : o.kind \in (K \cup F) => o.attempt # running'.attempt
         /\ \A i \in 1..Len(ready') : Counts(ready'[i], K, F) => ready'[i].attempt # running'.attempt
  <2> SUFFICES ASSUME Counts(ready[1], K, F), running' = ready[1]
               PROVE  /\ \A o \in inflight : o.kind \in (K \cup F) => o.attempt # ready[1].attempt
                      /\ \A i \in 1..Len(ready') :
                            Counts(ready'[i], K, F) => ready'[i].attempt # ready[1].attempt
    BY <1>1, <1>2
  <2>1. \A o \in inflight : o.kind \in (K \cup F) => o.attempt # ready[1].attempt
    BY NextReady DEF AtMostOne
  <2>2. ASSUME NEW i \in 1..Len(ready'), Counts(ready'[i], K, F),
               ready'[i].attempt = ready[1].attempt
        PROVE  FALSE
    <3>1. i + 1 = 1
      BY <2>2, NextReady DEF AtMostOne
    <3>2. QED
      BY <3>1
  <2>3. QED
    BY <2>1, <2>2
<1>6. QED
  BY <1>1, <1>3, <1>4, <1>5 DEF AtMostOne, NoneQueued

LEMMA NextOrder ==
  ASSUME Typed, IInv, ~terminated, Order, RunNextHandler
  PROVE  Order'
<1>1. /\ UNCHANGED <<inflight, curstate, sock_open, resolver, resolve_iterator, attempt>>
      /\ running = Nothing
      /\ running' = IF destroyed THEN Nothing ELSE ready[1]
  BY NextReady DEF RunNextHandler
<1>2. running.kind = "none"
  BY <1>1 DEF Nothing
<1>3. ready[1] \in Completions /\ ready[1] # Nothing /\ attempt \in Nat
  BY NextReady, ReadyTyped DEF Completions, Kinds, Nothing
<1>4. \A i \in 1..Len(ready) : ready[1].attempt <= ready[i].attempt
  BY <1>3, NextReady, ReadyTyped DEF Order, InOrder, Completions
<1>5. InOrder'
  <2>1. \A i, j \in 1..Len(ready') : i < j => ready'[i].attempt <= ready'[j].attempt
    <3> SUFFICES ASSUME NEW i \in 1..Len(ready'), NEW j \in 1..Len(ready'), i < j
                 PROVE  ready'[i].attempt <= ready'[j].attempt
      OBVIOUS
    <3>1. i + 1 < j + 1
      OBVIOUS
    <3>2. QED
      BY <3>1, NextReady DEF Order, InOrder
  <2>2. \A i \in 1..Len(ready') : ready'[i].attempt \in {attempt' - 1, attempt'}
    BY <1>1, NextReady DEF Order, InOrder
  <2>3. running' # Nothing =>
          /\ running'.attempt \in {attempt' - 1, attempt'}
          /\ \A i \in 1..Len(ready') : running'.attempt <= ready'[i].attempt
    BY <1>1, <1>4, NextReady DEF Order, InOrder
  <2>4. QED
    BY <1>1, <2>1, <2>2, <2>3 DEF Order, InOrder
<1>6. OneChain' /\ OneRead'
  BY NextOne DEF Order, OneChain, OneRead, ChainKinds, ChainEnd, Kinds
<1>7. LookupWaits' \/ running'.kind = "resolve" => LookupWaits
  <2>1. Nothing.kind # "resolve"
    BY DEF Nothing
  <2>2. QED
    BY <1>1, <2>1, NextReady DEF LookupWaits
<1>8. LookupFirst'
  <2>1. \A i \in 1..Len(ready') : ready'[i].kind = "resolve" => ready'[i].attempt = attempt'
    BY <1>1, NextReady DEF Order, LookupFirst
  <2>2. running'.kind = "resolve" => running'.attempt = attempt'
    BY <1>1, NextReady DEF Order, LookupFirst, Nothing
  <2>3. QED
    BY <1>1, <1>7, <2>1, <2>2 DEF Order, LookupFirst
<1>9. StaleFirst'
  <2>1. CASE ready[1].attempt = attempt
    <3>1. \A i \in 1..Len(ready) : ready[i].attempt = attempt
      BY <1>3, <1>4, <2>1, ReadyTyped DEF Order, InOrder
    <3>2. QED
      BY <1>1, <2>1, <3>1, NextReady DEF StaleFirst
  <2>2. CASE ready[1].attempt # attempt
    <3>1. LookupWaits /\ ready[1].kind # "resolve"
      BY <2>2, NextReady DEF Order, StaleFirst, LookupFirst
    <3>2. LookupWaits'
      BY <1>1, <3>1, NextReady DEF LookupWaits
    <3>3. QED
      BY <3>2 DEF StaleFirst
  <2>3. QED
    BY <2>1, <2>2
<1>10. ResolverEngaged' /\ Begun'
  BY <1>1 DEF Order, ResolverEngaged, Begun
<1>11. Reads'
  <2>1. NoneQueued(attempt, {"read"}, {}) => NoneQueued(attempt, {"read"}, {})'
    BY <1>1, NextReady DEF NoneQueued, Counts
  <2>2. curstate = "connecting" /\ running'.kind = "read" => running'.attempt # attempt
    BY <1>1, NextReady DEF Order, Reads, NoneQueued, Counts, Nothing
  <2>3. ASSUME ~NoneQueued(attempt, {"read"}, {}), ~destroyed
        PROVE  \/ ~NoneQueued(attempt, {"read"}, {})'
               \/ running'.kind = "read" /\ running'.attempt = attempt
    BY <1>1, <2>3, NextReady DEF NoneQueued, Counts
  <2>4. curstate = "connected" => ~destroyed
    BY DEF IInv, DestroyedIsInert
  <2>5. curstate = "connected" => \A i \in 1..Len(ready') :
           Counts(ready'[i], {}, {"connect", "handshake", "read"}) => ready'[i].attempt = attempt
    BY NextReady DEF Order, Reads
  <2>6. curstate = "connected" /\ Counts(running', {}, {"connect", "handshake", "read"})
           => running'.attempt = attempt
    BY <1>1, NextReady DEF Order, Reads, Counts, Nothing
  <2>7. QED
    BY <1>1, <1>2, <2>1, <2>2, <2>3, <2>4, <2>5, <2>6 DEF Order, Reads
<1>12. QED
  BY <1>5, <1>6, <1>8, <1>9, <1>10, <1>11 DEF Order

----------------------------------------------------------------------------
(* The handlers keep the order                                             *)

\* An operation of kind k is started, or has failed at once.
Starts(k) ==
    /\ attempt' = attempt
    /\ \/ inflight' = inflight \cup {Op(k)} /\ ready' = ready
       \/ inflight' = inflight /\ ready' = Append(ready, Completed(Op(k), FALSE))

LEMMA StartsNone ==
  ASSUME Typed, attempt >= 1, NEW k \in Kinds, Starts(k)
  PROVE  /\ k # "read" => (NoneQueued(attempt, {"read"}, {})' <=> NoneQueued(attempt, {"read"}, {}))
         /\ k = "read" => ~NoneQueued(attempt, {"read"}, {})'
<1>1. CASE inflight' = inflight \cup {Op(k)} /\ ready' = ready /\ attempt' = attempt
  <2>1. Op(k) \in inflight' /\ Op(k).kind = k /\ Op(k).attempt = attempt
    BY <1>1, OpTyped
  <2>2. QED
    BY <1>1, <2>1 DEF NoneQueued, Counts
<1>2. CASE /\ inflight' = inflight /\ ready' = Append(ready, Completed(Op(k), FALSE))
           /\ attempt' = attempt
  <2> DEFINE c == Completed(Op(k), FALSE)
  <2>1. c \in Completions /\ c.kind = k /\ c.attempt = attempt
    BY OpTyped
  <2> HIDE DEF c
  <2>2. /\ Len(ready) + 1 \in 1..Len(ready') /\ ready'[Len(ready) + 1] = c
        /\ \A i \in 1..Len(ready) : i \in 1..Len(ready') /\ ready'[i] = ready[i]
        /\ \A i \in 1..Len(ready') : i \in 1..Len(ready) \/ i = Len(ready) + 1
    <3>1. /\ Len(ready) \in Nat /\ Len(ready') = Len(ready) + 1
          /\ \A i \in 1..Len(ready) : ready'[i] = ready[i]
          /\ ready'[Len(ready) + 1] = c
      BY <1>2, <2>1, AppendReady DEF c
    <3>2. QED
      BY <3>1
  <2>3. k = "read" => ~NoneQueued(attempt, {"read"}, {})'
    BY <1>2, <2>1, <2>2 DEF NoneQueued, Counts
  <2>4. ASSUME k # "read", NoneQueued(attempt, {"read"}, {})
        PROVE  NoneQueued(attempt, {"read"}, {})'
    BY <1>2, <2>1, <2>2, <2>4 DEF NoneQueued, Counts
  <2>5. ASSUME k # "read", NoneQueued(attempt, {"read"}, {})'
        PROVE  NoneQueued(attempt, {"read"}, {})
    BY <1>2, <2>2, <2>5 DEF NoneQueued, Counts
  <2>6. QED
    BY <2>3, <2>4, <2>5
<1>3. QED
  BY <1>1, <1>2 DEF Starts

\* No step but a lookup's start and end changes who waits for it.
LEMMA StartsOrder ==
  ASSUME Typed, Order, attempt >= 1, NEW k \in Kinds \ {"resolve"}, Starts(k),
         running' = running \/ running' = Nothing
  PROVE  /\ InOrder' /\ StaleFirst' /\ Grown
         /\ LookupWaits' <=> LookupWaits
<1>1. Grown
  BY StartGrown DEF Starts, Order
<1>2. QED
  BY <1>1, GrownOrder DEF Order

\* The part of LookupFirst that is about the queue.
LEMMA GrownLookup ==
  ASSUME Typed, Order, Grown, running' = running \/ running' = Nothing
  PROVE  /\ \A i \in 1..Len(ready') : ready'[i].kind = "resolve" => ready'[i].attempt = attempt'
         /\ running'.kind = "resolve" => running'.kind = running.kind /\ running'.attempt = attempt'
  BY DEF Grown, Order, LookupFirst, Nothing

\* A handler that finds its work overtaken, or only reports, ends.
LEMMA KeptOrder ==
  ASSUME Typed, Order,
         UNCHANGED <<curstate, sock_open, resolver, resolve_iterator, inflight, ready, attempt>>,
         running' = running \/ running' = Nothing,
         running.kind = "read" /\ curstate = "connected" => running' = running
  PROVE  Order'
<1>1. Grown
  BY NothingGrown DEF Order
<1>2. InOrder' /\ StaleFirst' /\ (LookupWaits' <=> LookupWaits)
  BY <1>1, GrownOrder DEF Order
<1>3. /\ ~Counts(Nothing, ChainKinds, ChainEnd) /\ ~Counts(Nothing, {"read"}, {})
      /\ ~Counts(Nothing, {}, {"connect", "handshake", "read"})
      /\ Nothing.kind = "none"
  BY DEF Counts, Nothing, ChainKinds, ChainEnd
<1>4. OneChain' /\ OneRead'
  BY <1>3 DEF Order, OneChain, OneRead, AtMostOne, NoneQueued
<1>5. LookupFirst'
  BY <1>1, <1>2, GrownLookup DEF Order, LookupFirst
<1>6. ResolverEngaged' /\ Begun'
  BY DEF Order, ResolverEngaged, Begun
<1>7. Reads'
  <2>1. NoneQueued(attempt, {"read"}, {})' <=> NoneQueued(attempt, {"read"}, {})
    BY DEF NoneQueued
  <2>2. QED
    BY <1>3, <2>1 DEF Order, Reads
<1>8. QED
  BY <1>2, <1>4, <1>5, <1>6, <1>7 DEF Order

\* The socket is closed and the state is disconnected.
LEMMA ClosedOrder ==
  ASSUME Typed, Order, ~LookupWaits, running.kind # "resolve",
         CloseSocket, curstate' = "disconnected", resolver' = FALSE, resolve_iterator' = 0,
         attempt' = attempt, running' = running \/ running' = Nothing
  PROVE  Order'
<1>1. Grown
  BY CloseGrown DEF Order
<1>2. InOrder' /\ StaleFirst' /\ ~LookupWaits'
  BY <1>1, GrownOrder DEF Order
<1>3. OneChain' /\ OneRead'
  BY CloseOne DEF Order, OneChain, OneRead, ChainKinds, ChainEnd, Kinds
<1>4. LookupFirst'
  BY <1>1, <1>2, GrownLookup DEF LookupFirst
<1>5. QED
  BY <1>2, <1>3, <1>4 DEF Order, ResolverEngaged, Begun, Reads

LEMMA DisconnectOrder ==
  ASSUME Typed, Order, DoUnscheduledDisconnect, attempt' = attempt,
         running' = running \/ running' = Nothing
  PROVE  Order'
<1>1. ~LookupWaits /\ running.kind # "resolve"
  BY DEF DoUnscheduledDisconnect, CanDisconnect, Order, LookupFirst
<1>2. resolver' = FALSE /\ resolve_iterator' = 0
  BY DEF DoUnscheduledDisconnect, ClearResolver, Order, ResolverEngaged
<1>3. QED
  BY <1>1, <1>2, ClosedOrder DEF DoUnscheduledDisconnect

\* Whether the handler that runs is one of the chain that goes on.
LEMMA ChainRunsAlone ==
  ASSUME Typed, Order, Counts(running, ChainKinds, ChainEnd), running.attempt = attempt
  PROVE  NoneQueued(attempt, ChainKinds, ChainEnd) /\ ~LookupWaits
<1>1. NoneQueued(attempt, ChainKinds, ChainEnd)
  BY DEF Order, OneChain, AtMostOne
<1>2. ~LookupWaits
  BY <1>1 DEF NoneQueued, LookupWaits, Order, InOrder, LookupFirst, Counts, ChainKinds
<1>3. QED
  BY <1>1, <1>2

\* A handler of an earlier attempt meets a lookup that is not through.
LEMMA StaleMeetsLookup ==
  ASSUME Typed, Order, running # Nothing, running.attempt # attempt
  PROVE  LookupWaits /\ ~sock_open
  BY DEF Order, StaleFirst, LookupFirst

LEMMA ConnectSuccessOrder ==
  ASSUME Typed, Order, curstate = "connecting", running.kind \in {"connect", "handshake"},
         running.ok, ConnectSuccess, running' = Nothing, attempt' = attempt
  PROVE  Order'
<1>0. running # Nothing /\ running \in Completions
  BY ReadyTyped DEF Nothing
<1>1. /\ Counts(running, ChainKinds, ChainEnd)
      /\ attempt >= 1 /\ "read" \in Kinds \ {"resolve"}
      /\ ~Counts(Nothing, {}, {"connect", "handshake", "read"})
  BY DEF Counts, ChainKinds, ChainEnd, Order, Begun, Kinds, Nothing
<1>2. Starts("read") /\ UNCHANGED sock_open /\ curstate' = "connected"
      /\ resolver' = FALSE /\ resolve_iterator' = 0
  BY DEF ConnectSuccess, Recv, StartOnSocket, Starts, ClearResolver, Order, ResolverEngaged
<1>3. InOrder' /\ StaleFirst' /\ (LookupWaits' <=> LookupWaits) /\ Grown
  BY <1>1, <1>2, StartsOrder
<1>4. OneChain'
  <2>1. sock_open => NoneQueued(attempt, ChainKinds, ChainEnd)
    BY <1>0, <1>1, StaleMeetsLookup, ChainRunsAlone
  <2>2. "read" \notin ChainKinds /\ ChainKinds \in SUBSET Kinds /\ ChainEnd \in SUBSET Kinds
    BY DEF ChainKinds, ChainEnd, Kinds
  <2>3. \/ /\ inflight' = inflight \cup {Op("read")} /\ ready' = ready
           /\ NoneQueued(attempt, ChainKinds, ChainEnd)
        \/ inflight' = inflight /\ ready' = Append(ready, Completed(Op("read"), FALSE))
    BY <2>1 DEF ConnectSuccess, Recv, StartOnSocket
  <2>4. AtMostOne(ChainKinds, ChainEnd)'
    BY <1>1, <2>2, <2>3, StartOne DEF Order, OneChain
  <2>5. QED
    BY <2>4 DEF OneChain
<1>5. OneRead'
  <2>1. NoneQueued(attempt, {"read"}, {})
    BY DEF Order, Reads
  <2>2. AtMostOne({"read"}, {})'
    BY <1>1, <1>2, <2>1, StartOne DEF Order, OneRead, Starts, Kinds
  <2>3. QED
    BY <2>2 DEF OneRead
<1>6. LookupFirst'
  <2>1. Nothing.kind # "resolve"
    BY DEF Nothing
  <2>2. QED
    BY <1>2, <1>3, <2>1, GrownLookup DEF Order, LookupFirst
<1>7. ResolverEngaged' /\ Begun'
  BY <1>1, <1>2 DEF ResolverEngaged, Begun
<1>8. Reads'
  <2>1. ~NoneQueued(attempt, {"read"}, {})'
    BY <1>1, <1>2, StartsNone
  <2>2. \A i \in 1..Len(ready) :
           Counts(ready[i], {}, {"connect", "handshake", "read"}) => ready[i].attempt = attempt
    <3> SUFFICES ASSUME NEW i \in 1..Len(ready),
                        Counts(ready[i], {}, {"connect", "handshake", "read"}),
                        ready[i].attempt # attempt
                 PROVE  FALSE
      OBVIOUS
    <3>1. ready[i] \in Completions /\ attempt \in Nat
      BY ReadyTyped
    <3>2. ready[i].attempt = attempt - 1 /\ running.attempt <= ready[i].attempt
      BY <1>0 DEF Order, InOrder
    <3>3. running.attempt = attempt - 1
      BY <1>0, <3>1, <3>2 DEF Order, InOrder, Completions
    <3>4. Counts(ready[i], ChainKinds, ChainEnd)
      BY DEF Counts, ChainKinds, ChainEnd
    <3>5. QED
      BY <1>1, <3>2, <3>3, <3>4 DEF Order, OneChain, AtMostOne, NoneQueued
  <2>3. \A i \in 1..Len(ready') :
           Counts(ready'[i], {}, {"connect", "handshake", "read"}) => ready'[i].attempt = attempt
    BY <1>3, <2>2 DEF Grown
  <2>4. QED
    BY <1>1, <1>2, <2>1, <2>3 DEF Reads, Starts
<1>9. QED
  BY <1>3, <1>4, <1>5, <1>6, <1>7, <1>8 DEF Order

LEMMA HandshakeOrder ==
  ASSUME Typed, Order, curstate = "connecting", running.kind = "connect",
         StartOnSocket("handshake"), running' = Nothing, attempt' = attempt,
         UNCHANGED <<curstate, sock_open, resolver, resolve_iterator>>
  PROVE  Order'
<1>0. running # Nothing
  BY DEF Nothing
<1>1. /\ Counts(running, ChainKinds, ChainEnd)
      /\ attempt >= 1 /\ "handshake" \in Kinds \ {"resolve"}
  BY DEF Counts, ChainKinds, ChainEnd, Order, Begun, Kinds
<1>2. Starts("handshake")
  BY DEF StartOnSocket, Starts
<1>3. InOrder' /\ StaleFirst' /\ (LookupWaits' <=> LookupWaits) /\ Grown
  BY <1>1, <1>2, StartsOrder
<1>4. OneChain'
  <2>1. sock_open => NoneQueued(attempt, ChainKinds, ChainEnd)
    BY <1>0, <1>1, StaleMeetsLookup, ChainRunsAlone
  <2>2. "handshake" \notin ChainKinds /\ ChainKinds \in SUBSET Kinds /\ ChainEnd \in SUBSET Kinds
    BY DEF ChainKinds, ChainEnd, Kinds
  <2>3. \/ /\ inflight' = inflight \cup {Op("handshake")} /\ ready' = ready
           /\ NoneQueued(attempt, ChainKinds, ChainEnd)
        \/ inflight' = inflight /\ ready' = Append(ready, Completed(Op("handshake"), FALSE))
    BY <2>1 DEF StartOnSocket
  <2>4. AtMostOne(ChainKinds, ChainEnd)'
    BY <1>1, <2>2, <2>3, StartOne DEF Order, OneChain
  <2>5. QED
    BY <2>4 DEF OneChain
<1>5. OneRead'
  <2>1. AtMostOne({"read"}, {})'
    BY <1>1, <1>2, StartOne DEF Order, OneRead, Starts, Kinds
  <2>2. QED
    BY <2>1 DEF OneRead
<1>6. LookupFirst'
  <2>1. Nothing.kind # "resolve"
    BY DEF Nothing
  <2>2. QED
    BY <1>2, <1>3, <2>1, GrownLookup DEF Order, LookupFirst
<1>7. ResolverEngaged' /\ Begun'
  BY DEF Order, ResolverEngaged, Begun
<1>8. Reads'
  <2>1. NoneQueued(attempt, {"read"}, {})'
    BY <1>1, <1>2, StartsNone DEF Order, Reads
  <2>2. QED
    BY <2>1 DEF Reads, Nothing
<1>9. QED
  BY <1>3, <1>4, <1>5, <1>6, <1>7, <1>8 DEF Order

\* The next address is tried by a handler of the current attempt only.
LEMMA StartConnectOrder ==
  ASSUME Typed, Order, curstate = "connecting", running.kind \in {"resolve", "connect"},
         running.kind = "connect" => resolve_iterator > 0,
         StartConnect, running' = Nothing,
         UNCHANGED <<curstate, resolver, attempt>>
  PROVE  Order'
<1>0. running # Nothing /\ resolver
  BY DEF Nothing, Order, ResolverEngaged
<1>1. /\ Counts(running, ChainKinds, ChainEnd)
      /\ attempt >= 1 /\ "connect" \in Kinds \ {"resolve"}
  BY DEF Counts, ChainKinds, Order, Begun, Kinds
<1>2. running.attempt = attempt
  <2>1. LookupWaits => running.kind = "resolve"
    BY DEF Order, LookupFirst
  <2>2. QED
    BY <1>0, <2>1, StaleMeetsLookup DEF Order, LookupFirst
<1>3. NoneQueued(attempt, ChainKinds, ChainEnd) /\ ~LookupWaits
  BY <1>1, <1>2, ChainRunsAlone
<1>4. Starts("connect")
  BY DEF StartConnect, Starts
<1>5. InOrder' /\ StaleFirst' /\ ~LookupWaits' /\ Grown
  BY <1>1, <1>3, <1>4, StartsOrder
<1>6. OneChain'
  <2>1. AtMostOne(ChainKinds, ChainEnd)'
    BY <1>1, <1>3, <1>4, StartOne DEF Order, OneChain, Starts, ChainKinds, ChainEnd, Kinds
  <2>2. QED
    BY <2>1 DEF OneChain
<1>7. OneRead'
  <2>1. AtMostOne({"read"}, {})'
    BY <1>1, <1>4, StartOne DEF Order, OneRead, Starts, Kinds
  <2>2. QED
    BY <2>1 DEF OneRead
<1>8. LookupFirst'
  <2>1. Nothing.kind # "resolve"
    BY DEF Nothing
  <2>2. QED
    BY <1>5, <2>1, GrownLookup DEF LookupFirst
<1>9. ResolverEngaged' /\ Begun'
  BY <1>0 DEF Order, ResolverEngaged, Begun
<1>10. Reads'
  <2>1. NoneQueued(attempt, {"read"}, {})'
    BY <1>1, <1>4, StartsNone DEF Order, Reads
  <2>2. QED
    BY <2>1 DEF Reads, Nothing
<1>11. QED
  BY <1>5, <1>6, <1>7, <1>8, <1>9, <1>10 DEF Order

LEMMA ReadAgainOrder ==
  ASSUME Typed, Order, curstate = "connected", running.kind = "read", running.ok,
         Recv, running' = Nothing, UNCHANGED <<curstate, resolver, resolve_iterator, attempt>>
  PROVE  Order'
<1>1. /\ Counts(running, ChainKinds, ChainEnd) /\ Counts(running, {"read"}, {})
      /\ ~Counts(Nothing, {}, {"connect", "handshake", "read"})
      /\ attempt >= 1 /\ "read" \in Kinds \ {"resolve"}
  BY DEF Counts, ChainEnd, Order, Begun, Kinds, Nothing
<1>2. running.attempt = attempt
  BY DEF Order, Reads, Counts
<1>3. NoneQueued(attempt, ChainKinds, ChainEnd) /\ ~LookupWaits
  BY <1>1, <1>2, ChainRunsAlone
<1>4. NoneQueued(attempt, {"read"}, {})
  BY <1>1, <1>2 DEF Order, OneRead, AtMostOne
<1>5. Starts("read") /\ sock_open' = sock_open
  BY DEF Recv, StartOnSocket, Starts
<1>6. InOrder' /\ StaleFirst' /\ ~LookupWaits' /\ Grown
  BY <1>1, <1>3, <1>5, StartsOrder
<1>7. OneChain'
  <2>1. AtMostOne(ChainKinds, ChainEnd)'
    BY <1>1, <1>3, <1>5, StartOne DEF Order, OneChain, Starts, ChainKinds, ChainEnd, Kinds
  <2>2. QED
    BY <2>1 DEF OneChain
<1>8. OneRead'
  <2>1. AtMostOne({"read"}, {})'
    BY <1>1, <1>4, <1>5, StartOne DEF Order, OneRead, Starts, Kinds
  <2>2. QED
    BY <2>1 DEF OneRead
<1>9. LookupFirst'
  <2>1. Nothing.kind # "resolve"
    BY DEF Nothing
  <2>2. QED
    BY <1>6, <2>1, GrownLookup DEF LookupFirst
<1>10. ResolverEngaged' /\ Begun'
  BY DEF Order, ResolverEngaged, Begun
<1>11. Reads'
  <2>1. ~NoneQueued(attempt, {"read"}, {})'
    BY <1>1, <1>5, StartsNone
  <2>2. \A i \in 1..Len(ready') :
           Counts(ready'[i], {}, {"connect", "handshake", "read"}) => ready'[i].attempt = attempt
    BY <1>6 DEF Grown, Order, Reads
  <2>3. QED
    BY <1>1, <2>1, <2>2 DEF Reads
<1>12. QED
  BY <1>6, <1>7, <1>8, <1>9, <1>10, <1>11 DEF Order

\* A write has no part in the order of the other handlers.
LEMMA WriteOrder ==
  ASSUME Typed, Order, curstate = "connected", StartOnSocket("write"),
         running' = running \/ (running' = Nothing /\ running.kind = "write"),
         UNCHANGED <<curstate, sock_open, resolver, resolve_iterator, attempt>>
  PROVE  Order'
<1>1. attempt >= 1 /\ "write" \in Kinds \ {"resolve"}
  BY DEF Order, Begun, Kinds
<1>2. Starts("write")
  BY DEF StartOnSocket, Starts
<1>3. InOrder' /\ StaleFirst' /\ (LookupWaits' <=> LookupWaits) /\ Grown
  BY <1>1, <1>2, StartsOrder
<1>4. OneChain'
  <2>1. AtMostOne(ChainKinds, ChainEnd)'
    BY <1>1, <1>2, StartOne DEF Order, OneChain, Starts, ChainKinds, ChainEnd, Kinds
  <2>2. QED
    BY <2>1 DEF OneChain
<1>5. OneRead'
  <2>1. AtMostOne({"read"}, {})'
    BY <1>1, <1>2, StartOne DEF Order, OneRead, Starts, Kinds
  <2>2. QED
    BY <2>1 DEF OneRead
<1>6. LookupFirst'
  BY <1>3, GrownLookup DEF Order, LookupFirst
<1>7. ResolverEngaged' /\ Begun'
  BY DEF Order, ResolverEngaged, Begun
<1>8. Reads'
  <2>1. NoneQueued(attempt, {"read"}, {})' <=> NoneQueued(attempt, {"read"}, {})
    BY <1>1, <1>2, StartsNone
  <2>2. \A i \in 1..Len(ready') :
           Counts(ready'[i], {}, {"connect", "handshake", "read"}) => ready'[i].attempt = attempt
    BY <1>3 DEF Grown, Order, Reads
  <2>3. ~Counts(Nothing, {}, {"connect", "handshake", "read"})
    BY DEF Counts, Nothing
  <2>4. QED
    BY <2>1, <2>2, <2>3 DEF Order, Reads
<1>9. QED
  BY <1>3, <1>4, <1>5, <1>6, <1>7, <1>8 DEF Order

LEMMA DisconnectInHandlerOrder ==
  ASSUME Typed, Order, DisconnectInHandler, ~terminated', ~terminated, attempt' = attempt,
         running' = running \/ running' = Nothing
  PROVE  Order'
  BY DisconnectOrder DEF DisconnectInHandler

LEMMA ConnectTryNextOrder ==
  ASSUME Typed, Order, curstate = "connecting", running.kind \in {"resolve", "connect"},
         NEW n \in Nat, running.kind = "connect" => n = resolve_iterator,
         ConnectTryNext(n), ~terminated, ~terminated', running' = Nothing, attempt' = attempt
  PROVE  Order'
<1>1. CASE DisconnectInHandler
  BY <1>1, DisconnectInHandlerOrder
<1>2. CASE n > 0 /\ StartConnect /\ UNCHANGED <<curstate, resolver>>
  BY <1>2, StartConnectOrder
<1>3. QED
  BY <1>1, <1>2 DEF ConnectTryNext

LEMMA ConnectOptSslHandshakeOrder ==
  ASSUME Typed, Order, curstate = "connecting", running.kind = "connect", running.ok,
         ConnectOptSslHandshake, running' = Nothing, attempt' = attempt
  PROVE  Order'
  BY HandshakeOrder, ConnectSuccessOrder DEF ConnectOptSslHandshake

LEMMA RunHandlerOrder ==
  ASSUME Typed, Order, ~terminated, RunHandler
  PROVE  terminated' \/ Order'
<1> SUFFICES ASSUME ~terminated' PROVE Order'
  OBVIOUS
<1>1. running' = Nothing /\ attempt' = attempt
  BY DEF RunHandler
<1>2. CASE ResolveHandler
  <2>1. CASE Ignored("connecting")
    BY <1>1, <1>2, <2>1, KeptOrder DEF Ignored, ResolveHandler
  <2>2. CASE curstate = "connecting" /\ DisconnectInHandler
    BY <1>1, <2>2, DisconnectInHandlerOrder
  <2>3. CASE curstate = "connecting" /\ \E n \in 1..MaxCandidates : ConnectTryNext(n)
    <3>1. PICK n \in 1..MaxCandidates : ConnectTryNext(n)
      BY <2>3
    <3>2. n \in Nat /\ running.kind = "resolve"
      BY <1>2, ConnectionAssumption DEF ResolveHandler
    <3>3. QED
      BY <1>1, <2>3, <3>1, <3>2, ConnectTryNextOrder
  <2>4. QED
    BY <1>2, <2>1, <2>2, <2>3 DEF ResolveHandler
<1>3. CASE ConnectHandler
  <2>1. CASE Ignored("connecting")
    BY <1>1, <1>3, <2>1, KeptOrder DEF Ignored, ConnectHandler
  <2>2. CASE curstate = "connecting" /\ ConnectTryNext(resolve_iterator)
    <3>1. resolve_iterator \in Nat
      BY ConnectionAssumption DEF Typed, TypeOK
    <3>2. QED
      BY <1>1, <1>3, <2>2, <3>1, ConnectTryNextOrder DEF ConnectHandler
  <2>3. CASE curstate = "connecting" /\ running.ok /\ ConnectOptSslHandshake
    BY <1>1, <1>3, <2>3, ConnectOptSslHandshakeOrder DEF ConnectHandler
  <2>4. QED
    BY <1>3, <2>1, <2>2, <2>3 DEF ConnectHandler
<1>4. CASE HandshakeHandler
  <2>1. CASE Ignored("connecting") \/ OnlyReport
    BY <1>1, <1>4, <2>1, KeptOrder DEF Ignored, OnlyReport, HandshakeHandler
  <2>2. CASE curstate = "connecting" /\ running.ok /\ ConnectSuccess
    BY <1>1, <1>4, <2>2, ConnectSuccessOrder DEF HandshakeHandler
  <2>3. QED
    BY <1>4, <2>1, <2>2 DEF HandshakeHandler
<1>5. CASE ReadHandler
  <2>1. CASE Ignored("connected")
    BY <1>1, <1>5, <2>1, KeptOrder DEF Ignored, ReadHandler
  <2>2. CASE DisconnectInHandler
    BY <1>1, <2>2, DisconnectInHandlerOrder
  <2>3. CASE /\ curstate = "connected" /\ running.ok /\ Recv
             /\ UNCHANGED <<curstate, resolver, resolve_iterator>>
    BY <1>1, <1>5, <2>3, ReadAgainOrder DEF ReadHandler
  <2>4. QED
    BY <1>5, <2>1, <2>2, <2>3 DEF ReadHandler
<1>6. CASE WriteHandler
  <2>1. CASE UNCHANGED <<curstate, sock_open, resolver, resolve_iterator, inflight, ready>>
    BY <1>1, <1>6, <2>1, KeptOrder DEF WriteHandler
  <2>2. CASE DisconnectInHandler
    BY <1>1, <2>2, DisconnectInHandlerOrder
  <2>3. CASE /\ curstate = "connected" /\ StartOnSocket("write")
             /\ UNCHANGED <<curstate, sock_open, resolver, resolve_iterator>>
    BY <1>1, <1>6, <2>3, WriteOrder DEF WriteHandler
  <2>4. QED
    BY <1>6, <2>1, <2>2, <2>3 DEF WriteHandler, Ignored
<1>7. QED
  BY <1>2, <1>3, <1>4, <1>5, <1>6 DEF RunHandler

----------------------------------------------------------------------------
(* The calls of the client keep the order                                  *)

\* A disconnected connection has nothing under way, and handlers of one
\* attempt at most.
LEMMA ConnectOrder ==
  ASSUME Typed, IInv, Order, Connect
  PROVE  Order'
<1>1. /\ curstate = "disconnected" /\ curstate' = "connecting" /\ resolver' = TRUE
      /\ attempt' = attempt + 1 /\ attempt \in Nat
      /\ UNCHANGED <<sock_open, resolve_iterator, ready, running>>
  BY ReadyTyped DEF Connect
<1>2. ~LookupWaits /\ running.kind # "resolve" /\ ~sock_open /\ resolve_iterator = 0
  BY <1>1 DEF Order, LookupFirst, ResolverEngaged, IInv, DisconnectedNotOpen
<1>3. inflight = {}
  BY <1>2 DEF LookupWaits, IInv, ClosedIsIdle, SocketOps
<1> DEFINE lookup == [kind |-> "resolve", attempt |-> attempt + 1]
<1>4. inflight' = {lookup} /\ lookup.kind = "resolve" /\ lookup.attempt = attempt + 1
  BY <1>3 DEF Connect
<1> HIDE DEF lookup
<1>5. /\ \A i \in 1..Len(ready) : ready[i].attempt = attempt /\ ready[i].kind # "resolve"
      /\ running # Nothing => running.attempt = attempt
  BY <1>2 DEF Order, StaleFirst, LookupWaits
<1>6. InOrder'
  BY <1>1, <1>4, <1>5 DEF InOrder
<1>7. ASSUME NEW K \in SUBSET Kinds, NEW F \in SUBSET Kinds, AtMostOne(K, F)
      PROVE  AtMostOne(K, F)'
  <2>1. Counts(running, K, F) => running # Nothing
    BY DEF Counts, Nothing, Kinds
  <2>2. \A i \in 1..Len(ready) : ready[i].attempt # lookup.attempt
    BY <1>1, <1>4, <1>5
  <2>3. running # Nothing => running.attempt # lookup.attempt
    BY <1>1, <1>4, <1>5
  <2>4. QED
    BY <1>1, <1>4, <1>7, <2>1, <2>2, <2>3 DEF AtMostOne, NoneQueued
<1>8. OneChain' /\ OneRead'
  BY <1>7 DEF Order, OneChain, OneRead, ChainKinds, ChainEnd, Kinds
<1>9. LookupFirst'
  BY <1>1, <1>2, <1>5 DEF LookupFirst
<1>10. StaleFirst'
  BY <1>4 DEF StaleFirst, LookupWaits
<1>11. ResolverEngaged' /\ Begun'
  BY <1>1 DEF ResolverEngaged, Begun
<1>12. Reads'
  <2>1. NoneQueued(attempt, {"read"}, {})'
    BY <1>1, <1>4, <1>5 DEF NoneQueued
  <2>2. running.kind = "read" => running # Nothing
    BY DEF Nothing
  <2>3. QED
    BY <1>1, <1>5, <2>1, <2>2 DEF Reads
<1>13. QED
  BY <1>6, <1>8, <1>9, <1>10, <1>11, <1>12 DEF Order

\* disconnect() that throws leaves the state disconnecting.
LEMMA DisconnectingOrder ==
  ASSUME Typed, Order, curstate # "disconnected", curstate' = "disconnecting",
         UNCHANGED <<sock_open, resolver, resolve_iterator, inflight, ready, attempt, running>>
  PROVE  Order'
<1>1. InOrder' /\ StaleFirst' /\ OneChain' /\ OneRead'
  BY DEF Order, InOrder, StaleFirst, LookupWaits, OneChain, OneRead, AtMostOne, NoneQueued
<1>2. LookupFirst' /\ ResolverEngaged' /\ Reads' /\ Begun'
  BY DEF Order, LookupFirst, LookupWaits, ResolverEngaged, Reads, Begun
<1>3. QED
  BY <1>1, <1>2 DEF Order

LEMMA ClientStepOrder ==
  ASSUME Typed, IInv, Order, ClientStep
  PROVE  terminated' \/ Order'
<1>1. CASE (\E t \in Endpoints : SetEndpoint(t)) \/ SetInvalid
  <2>1. /\ curstate = "disconnected" /\ CloseSocket
        /\ UNCHANGED <<curstate, resolver, resolve_iterator, attempt, running>>
    BY <1>1 DEF SetEndpoint, SetInvalid
  <2>2. ~LookupWaits /\ running.kind # "resolve" /\ resolver = FALSE /\ resolve_iterator = 0
    BY <2>1 DEF Order, LookupFirst, ResolverEngaged, Typed, TypeOK
  <2>3. QED
    BY <2>1, <2>2, ClosedOrder
<1>2. CASE Connect
  BY <1>2, ConnectOrder
<1>3. CASE Disconnect
  <2>1. CASE DoUnscheduledDisconnect
    BY <1>3, <2>1, DisconnectOrder DEF Disconnect
  <2>2. CASE curstate' = "disconnecting" /\ UNCHANGED <<sock_open, resolver, resolve_iterator,
                                                        inflight, ready>>
    BY <1>3, <2>2, DisconnectingOrder DEF Disconnect
  <2>3. QED
    BY <1>3, <2>1, <2>2 DEF Disconnect, DoDisconnect
<1>4. CASE SendRaw
  BY <1>4, WriteOrder DEF SendRaw
<1>5. CASE Destroy
  <2>1. CASE DisconnectInHandler
    BY <1>5, <2>1, DisconnectInHandlerOrder DEF Destroy, ClientStep
  <2>2. CASE UNCHANGED <<curstate, sock_open, resolver, resolve_iterator, inflight, ready>>
    BY <1>5, <2>2, KeptOrder DEF Destroy
  <2>3. QED
    BY <1>5, <2>1, <2>2 DEF Destroy
<1>6. QED
  BY <1>1, <1>2, <1>3, <1>4, <1>5 DEF ClientStep

----------------------------------------------------------------------------
(* Types                                                                   *)

\* The state besides what is under way.
RestTyped ==
    /\ curstate \in States
    /\ transport \in {"none", "tcp", "ssl"}
    /\ sock_open \in BOOLEAN
    /\ resolver \in BOOLEAN
    /\ resolve_iterator \in 0..MaxCandidates
    /\ send_job_running \in BOOLEAN
    /\ destroyed \in BOOLEAN
    /\ terminated \in BOOLEAN

LEMMA GrownTyped ==
  ASSUME Typed, Grown, RestTyped', running' = running \/ running' = Nothing
  PROVE  Typed'
  BY DEF Typed, TypeOK, Grown, RestTyped, Completions

LEMMA ClearResolverTyped ==
  ASSUME Typed, ClearResolver
  PROVE  resolver' \in BOOLEAN /\ resolve_iterator' \in 0..MaxCandidates
<1>1. 0 \in 0..MaxCandidates /\ resolve_iterator \in 0..MaxCandidates
  BY ConnectionAssumption DEF Typed, TypeOK
<1>2. resolver' = FALSE /\ (resolve_iterator' = 0 \/ resolve_iterator' = resolve_iterator)
  BY DEF ClearResolver
<1>3. QED
  BY <1>1, <1>2

LEMMA DisconnectInHandlerTyped ==
  ASSUME Typed, InOrder, DisconnectInHandler, UNCHANGED <<transport, attempt>>, destroyed' \in BOOLEAN
  PROVE  Grown /\ RestTyped'
<1>1. CASE DoUnscheduledDisconnect /\ UNCHANGED terminated
  <2>1. Grown
    BY <1>1, CloseGrown DEF DoUnscheduledDisconnect
  <2>2. QED
    BY <1>1, <2>1, ClearResolverTyped
       DEF DoUnscheduledDisconnect, CloseSocket, Typed, TypeOK, RestTyped, States
<1>2. CASE terminated' = TRUE /\ UNCHANGED <<curstate, sock_open, resolver, resolve_iterator,
                                             send_job_running, inflight, ready>>
  <2>1. Grown
    BY <1>2, NothingGrown
  <2>2. QED
    BY <1>2, <2>1 DEF Typed, TypeOK, RestTyped
<1>3. QED
  BY <1>1, <1>2 DEF DisconnectInHandler

LEMMA ConnectSuccessTyped ==
  ASSUME Typed, Order, curstate = "connecting", ConnectSuccess,
         UNCHANGED <<transport, attempt, destroyed>>
  PROVE  Grown /\ RestTyped'
<1>1. Starts("read") /\ "read" \in Kinds \ {"resolve"} /\ attempt >= 1
  BY DEF ConnectSuccess, Recv, StartOnSocket, Starts, Kinds, Order, Begun
<1>2. Grown
  BY <1>1, StartGrown DEF Starts, Order
<1>3. QED
  BY <1>2, ClearResolverTyped
     DEF ConnectSuccess, Recv, Typed, TypeOK, RestTyped, States

LEMMA ConnectTryNextTyped ==
  ASSUME Typed, Order, curstate = "connecting", NEW n \in 0..MaxCandidates, ConnectTryNext(n),
         UNCHANGED <<transport, attempt, destroyed>>
  PROVE  Grown /\ RestTyped'
<1>1. CASE DisconnectInHandler
  BY <1>1, DisconnectInHandlerTyped DEF Order, Typed, TypeOK
<1>2. CASE terminated' = TRUE /\ UNCHANGED <<curstate, sock_open, resolver, resolve_iterator,
                                             send_job_running, inflight, ready>>
  <2>1. Grown
    BY <1>2, NothingGrown DEF Order
  <2>2. QED
    BY <1>2, <2>1 DEF Typed, TypeOK, RestTyped
<1>3. CASE /\ n > 0 /\ StartConnect /\ resolve_iterator' = n - 1
           /\ UNCHANGED <<curstate, resolver, send_job_running, terminated>>
  <2>1. Starts("connect") /\ "connect" \in Kinds \ {"resolve"} /\ attempt >= 1
    BY <1>3 DEF StartConnect, Starts, Kinds, Order, Begun
  <2>2. Grown
    BY <2>1, StartGrown DEF Starts, Order
  <2>3. resolve_iterator' \in 0..MaxCandidates
    BY <1>3, ConnectionAssumption
  <2>4. sock_open' \in BOOLEAN
    BY <1>3 DEF StartConnect, Typed, TypeOK
  <2>5. QED
    BY <1>3, <2>2, <2>3, <2>4 DEF Typed, TypeOK, RestTyped
<1>4. QED
  BY <1>1, <1>2, <1>3 DEF ConnectTryNext

\* An operation of kind k is started in a state that is not disconnected.
LEMMA StartOnSocketTyped ==
  ASSUME Typed, Order, curstate # "disconnected", NEW k \in Kinds \ {"resolve"}, StartOnSocket(k),
         UNCHANGED <<curstate, transport, sock_open, resolver, resolve_iterator, attempt,
                     destroyed, terminated>>,
         send_job_running' \in BOOLEAN
  PROVE  Grown /\ RestTyped'
<1>1. Starts(k) /\ attempt >= 1
  BY DEF StartOnSocket, Starts, Order, Begun
<1>2. Grown
  BY <1>1, StartGrown DEF Starts, Order
<1>3. QED
  BY <1>2 DEF Typed, TypeOK, RestTyped

LEMMA NothingTyped ==
  ASSUME Typed, Order,
         UNCHANGED <<curstate, transport, sock_open, resolver, resolve_iterator, attempt,
                     inflight, ready, terminated>>,
         send_job_running' \in BOOLEAN, destroyed' \in BOOLEAN
  PROVE  Grown /\ RestTyped'
<1>1. Grown
  BY NothingGrown DEF Order
<1>2. QED
  BY <1>1 DEF Typed, TypeOK, RestTyped

LEMMA RunHandlerGrown ==
  ASSUME Typed, Order, RunHandler
  PROVE  Grown /\ RestTyped'
<1>1. running' = Nothing /\ UNCHANGED <<transport, attempt, destroyed>>
  BY DEF RunHandler
<1>2. destroyed' \in BOOLEAN /\ send_job_running \in BOOLEAN
  BY <1>1 DEF Typed, TypeOK
<1>3. {"read", "write", "handshake"} \subseteq Kinds \ {"resolve"}
  BY DEF Kinds
<1>4. CASE \E k \in States : Ignored(k)
  BY <1>1, <1>2, <1>4, NothingTyped DEF Ignored
<1>5. CASE OnlyReport
  BY <1>1, <1>2, <1>5, NothingTyped DEF OnlyReport
<1>6. CASE DisconnectInHandler
  BY <1>1, <1>2, <1>6, DisconnectInHandlerTyped DEF Order
<1>7. CASE curstate = "connecting" /\ \E n \in 0..MaxCandidates : ConnectTryNext(n)
  BY <1>1, <1>7, ConnectTryNextTyped
<1>8. CASE curstate = "connecting" /\ ConnectSuccess
  BY <1>1, <1>8, ConnectSuccessTyped
<1>9. CASE curstate = "connecting" /\ ConnectOptSslHandshake
  BY <1>1, <1>2, <1>3, <1>8, <1>9, StartOnSocketTyped DEF ConnectOptSslHandshake
<1>10. QED
  <2>1. "connecting" \in States /\ "connected" \in States
    BY DEF States
  <2>2. CASE ResolveHandler
    <3>1. \A n \in 1..MaxCandidates : n \in 0..MaxCandidates
      BY ConnectionAssumption
    <3>2. QED
      BY <1>4, <1>6, <1>7, <2>1, <2>2, <3>1 DEF ResolveHandler
  <2>3. CASE ConnectHandler
    <3>1. resolve_iterator \in 0..MaxCandidates
      BY DEF Typed, TypeOK
    <3>2. QED
      BY <1>4, <1>7, <1>9, <2>1, <2>3, <3>1 DEF ConnectHandler
  <2>4. CASE HandshakeHandler
    BY <1>4, <1>5, <1>8, <2>1, <2>4 DEF HandshakeHandler
  <2>5. CASE ReadHandler
    <3>1. CASE /\ curstate = "connected" /\ Recv
               /\ UNCHANGED <<curstate, resolver, resolve_iterator, send_job_running, terminated>>
      BY <1>1, <1>2, <1>3, <3>1, StartOnSocketTyped DEF Recv
    <3>2. QED
      BY <1>4, <1>6, <2>1, <2>5, <3>1 DEF ReadHandler
  <2>6. CASE WriteHandler
    <3>1. CASE /\ curstate = "connected"
               /\ \/ StartOnSocket("write") /\ UNCHANGED send_job_running
                  \/ send_job_running' = FALSE /\ UNCHANGED <<inflight, ready>>
               /\ UNCHANGED <<curstate, sock_open, resolver, resolve_iterator, terminated>>
      BY <1>1, <1>2, <1>3, <3>1, StartOnSocketTyped, NothingTyped
    <3>2. QED
      BY <1>4, <1>6, <2>1, <2>6, <3>1 DEF WriteHandler
  <2>7. QED
    BY <2>2, <2>3, <2>4, <2>5, <2>6 DEF RunHandler

LEMMA RunHandlerTyped ==
  ASSUME Typed, Order, RunHandler
  PROVE  Typed'
  BY RunHandlerGrown, GrownTyped DEF RunHandler

LEMMA ClientStepTyped ==
  ASSUME Typed, Order, ClientStep
  PROVE  Typed'
<1>1. CASE (\E t \in Endpoints : SetEndpoint(t)) \/ SetInvalid
  <2>1. /\ CloseSocket /\ transport' \in {"none", "tcp", "ssl"}
        /\ UNCHANGED <<curstate, resolver, resolve_iterator, send_job_running, attempt,
                       running, destroyed, terminated>>
    BY <1>1, ConnectionAssumption DEF SetEndpoint, SetInvalid
  <2>2. Grown
    BY <2>1, CloseGrown DEF Order
  <2>3. RestTyped'
    BY <2>1 DEF CloseSocket, Typed, TypeOK, RestTyped
  <2>4. QED
    BY <2>1, <2>2, <2>3, GrownTyped
<1>2. CASE Connect
  <2> DEFINE lookup == [kind |-> "resolve", attempt |-> attempt + 1]
  <2>1. attempt' \in 1..MaxConnects /\ attempt' = attempt + 1
    BY <1>2, ConnectionAssumption DEF Connect, Typed, TypeOK
  <2>2. lookup \in [kind : Kinds, attempt : 1..MaxConnects]
    BY <2>1 DEF Kinds
  <2>3. inflight' = inflight \cup {lookup}
    BY <1>2 DEF Connect
  <2> HIDE DEF lookup
  <2>4. IsFiniteSet(inflight')
    BY <2>3, FS_AddElement DEF Typed
  <2>5. attempt' \in 0..MaxConnects /\ curstate' \in States /\ resolver' \in BOOLEAN
    BY <1>2, <2>1 DEF Connect, States
  <2>6. QED
    BY <1>2, <2>2, <2>3, <2>4, <2>5 DEF Connect, Typed, TypeOK
<1>3. CASE Disconnect
  <2>1. UNCHANGED <<transport, attempt, running, destroyed, terminated>>
    BY <1>3 DEF Disconnect
  <2>2. CASE DoUnscheduledDisconnect
    <3>1. Grown /\ RestTyped'
      BY <2>1, <2>2, DisconnectInHandlerTyped DEF DisconnectInHandler, Order, Typed, TypeOK
    <3>2. QED
      BY <2>1, <3>1, GrownTyped
  <2>3. CASE curstate' = "disconnecting" /\ UNCHANGED <<sock_open, resolver, resolve_iterator,
                                                        send_job_running, inflight, ready>>
    BY <2>1, <2>3 DEF Typed, TypeOK, States
  <2>4. QED
    BY <1>3, <2>2, <2>3 DEF Disconnect, DoDisconnect
<1>4. CASE SendRaw
  <2>1. "write" \in Kinds \ {"resolve"}
    BY DEF Kinds
  <2>2. Grown /\ RestTyped'
    BY <1>4, <2>1, StartOnSocketTyped DEF SendRaw
  <2>3. QED
    BY <1>4, <2>2, GrownTyped DEF SendRaw
<1>5. CASE Destroy
  <2>1. destroyed' \in BOOLEAN /\ UNCHANGED <<transport, attempt, running>>
    BY <1>5 DEF Destroy
  <2>2. CASE DisconnectInHandler
    BY <2>1, <2>2, DisconnectInHandlerTyped, GrownTyped DEF Order
  <2>3. CASE UNCHANGED <<curstate, sock_open, resolver, resolve_iterator, send_job_running,
                         inflight, ready, terminated>>
    BY <2>1, <2>3 DEF Typed, TypeOK
  <2>4. QED
    BY <1>5, <2>2, <2>3 DEF Destroy
<1>6. QED
  BY <1>1, <1>2, <1>3, <1>4, <1>5 DEF ClientStep

LEMMA CompleteTyped ==
  ASSUME Typed, NEW op \in inflight, Complete(op)
  PROVE  Typed'
<1>1. ready' \in Seq(Completions)
  BY CompleteReady
<1>2. inflight' = inflight \ {op} /\ IsFiniteSet(inflight')
  BY FS_RemoveElement DEF Complete, Typed
<1>3. QED
  BY <1>1, <1>2 DEF Complete, Typed, TypeOK, Completions

LEMMA NextTyped ==
  ASSUME Typed, RunNextHandler
  PROVE  Typed'
<1>1. ready' \in Seq(Completions) /\ running' \in {Nothing} \cup Completions
  BY NextReady DEF RunNextHandler
<1>2. QED
  BY <1>1 DEF RunNextHandler, Typed, TypeOK, Completions

----------------------------------------------------------------------------
(* Every step keeps the invariant                                          *)

LEMMA InitInv == Init => Inv
<1> SUFFICES ASSUME Init PROVE Inv
  OBVIOUS
<1>1. Typed
  <2>1. 0 \in 0..MaxCandidates /\ 0 \in 0..MaxConnects
    BY ConnectionAssumption
  <2>2. ready \in Seq([kind : Kinds, attempt : 1..MaxConnects, ok : BOOLEAN])
    BY EmptySeq DEF Init
  <2>3. IsFiniteSet(inflight)
    BY FS_EmptySet DEF Init
  <2>4. QED
    BY <2>1, <2>2, <2>3 DEF Init, Typed, TypeOK, States
<1>2. Len(ready) = 0 /\ running.kind = "none" /\ inflight = {}
  BY DEF Init, Nothing
<1>3. ~Counts(running, ChainKinds, ChainEnd) /\ ~Counts(running, {"read"}, {})
  BY <1>2 DEF Counts, ChainKinds, ChainEnd
<1>4. OneChain /\ OneRead
  BY <1>2, <1>3 DEF OneChain, OneRead, AtMostOne
<1>5. InOrder /\ LookupFirst /\ StaleFirst
  BY <1>2 DEF Init, InOrder, LookupFirst, LookupWaits, StaleFirst
<1>6. ResolverEngaged /\ Reads /\ Begun
  BY DEF Init, ResolverEngaged, Reads, Begun
<1>7. QED
  BY <1>1, <1>4, <1>5, <1>6, InitIInv DEF Inv, Order

LEMMA NextInv == Inv /\ [Next]_vars => Inv'
<1> SUFFICES ASSUME Inv, [Next]_vars PROVE Inv'
  OBVIOUS
<1>1. IInv'
  BY NextIInv DEF Inv
<1>2. CASE UNCHANGED vars
  <2>1. Typed'
    BY <1>2 DEF vars, Inv, Typed, TypeOK
  <2>2. ASSUME Order PROVE InOrder' /\ OneChain' /\ OneRead' /\ Begun'
    BY <1>2, <2>2 DEF vars, Order, InOrder, OneChain, OneRead, AtMostOne, NoneQueued, Begun
  <2>3. ASSUME Order PROVE LookupFirst' /\ StaleFirst' /\ ResolverEngaged' /\ Reads'
    BY <1>2, <2>3 DEF vars, Order, LookupFirst, LookupWaits, StaleFirst, ResolverEngaged, Reads,
                      NoneQueued
  <2>4. QED
    BY <1>1, <1>2, <2>1, <2>2, <2>3 DEF vars, Inv, Order
<1>3. CASE Next
  <2>1. ~terminated /\ Order /\ Typed /\ IInv
    BY <1>3 DEF Next, ClientStep, Inv
  <2>2. CASE ClientStep
    BY <1>1, <2>1, <2>2, ClientStepOrder, ClientStepTyped DEF Inv
  <2>3. ASSUME NEW op \in inflight, Complete(op) PROVE Inv'
    BY <1>1, <2>1, <2>3, CompleteOrder, CompleteTyped DEF Inv
  <2>4. CASE RunNextHandler
    BY <1>1, <2>1, <2>4, NextOrder, NextTyped DEF Inv
  <2>5. CASE RunHandler
    BY <1>1, <2>1, <2>5, RunHandlerOrder, RunHandlerTyped DEF Inv
  <2>6. QED
    BY <1>3, <2>2, <2>3, <2>4, <2>5 DEF Next
<1>4. QED
  BY <1>2, <1>3

LEMMA SpecInv == Spec => []Inv
  BY InitInv, NextInv, PTL DEF Spec

----------------------------------------------------------------------------
(* The properties of an established connection                             *)

\* Every variable of the connection keeps its type, whatever fails: no address
\* is tried that the lookup has not returned.
THEOREM TypeCorrect == Spec => []TypeOK
<1>1. Inv => TypeOK
  BY DEF Inv, Typed
<1>2. QED
  BY <1>1, SpecInv, PTL

\* What Current(k) holds, place by place.
LEMMA CurrentPlaces ==
  ASSUME NEW k, NEW x \in Current(k)
  PROVE  \/ \E op \in inflight : x = <<"inflight", op>> /\ op.kind = k /\ op.attempt = attempt
         \/ \E i \in DOMAIN ready : x = <<"ready", i>> /\ ready[i].kind = k /\ ready[i].attempt = attempt
         \/ x = <<"running", running>> /\ running.kind = k /\ running.attempt = attempt
  BY DEF Current

\* An established connection has exactly one read under way or its handler
\* still to run, whichever calls of disconnect() and connect() and handlers of
\* earlier attempts have come before, with tcp and with ssl.
THEOREM OneReader == Spec => []ConnectedHasOneReader
<1>1. ASSUME Inv, curstate = "connected", ~terminated
      PROVE  \E x \in Current("read") : Current("read") = {x}
  <2>1. Typed /\ Order
    BY <1>1 DEF Inv
  <2>2. DOMAIN ready = 1..Len(ready)
    BY <2>1, ReadyTyped, LenProperties
  <2>3. Current("read") # {}
    <3>1. CASE \E op \in inflight : op.kind = "read" /\ op.attempt = attempt
      BY <3>1 DEF Current
    <3>2. CASE \E i \in 1..Len(ready) : ready[i].kind = "read" /\ ready[i].attempt = attempt
      BY <2>2, <3>2 DEF Current
    <3>3. CASE running.kind = "read" /\ running.attempt = attempt
      BY <3>3 DEF Current
    <3>4. QED
      BY <1>1, <2>1, <3>1, <3>2, <3>3 DEF Order, Reads, NoneQueued, Counts
  <2>4. ASSUME NEW x \in Current("read"), NEW y \in Current("read") PROVE x = y
    <3>1. /\ \A o, p \in inflight : o.kind = "read" /\ p.kind = "read" /\ o.attempt = p.attempt => o = p
          /\ \A o \in inflight : \A i \in 1..Len(ready) :
                o.kind = "read" /\ ready[i].kind = "read" => o.attempt # ready[i].attempt
          /\ \A i, j \in 1..Len(ready) :
                ready[i].kind = "read" /\ ready[j].kind = "read"
                    /\ ready[i].attempt = ready[j].attempt => i = j
          /\ running.kind = "read" =>
                /\ \A o \in inflight : o.kind = "read" => o.attempt # running.attempt
                /\ \A i \in 1..Len(ready) : ready[i].kind = "read" => ready[i].attempt # running.attempt
      BY <2>1 DEF Order, OneRead, AtMostOne, NoneQueued, Counts
    <3>2. CASE \E op \in inflight : x = <<"inflight", op>> /\ op.kind = "read" /\ op.attempt = attempt
      BY <2>2, <3>1, <3>2, CurrentPlaces
    <3>3. CASE \E i \in 1..Len(ready) : x = <<"ready", i>> /\ ready[i].kind = "read"
                                            /\ ready[i].attempt = attempt
      BY <2>2, <3>1, <3>3, CurrentPlaces
    <3>4. CASE x = <<"running", running>> /\ running.kind = "read" /\ running.attempt = attempt
      BY <2>2, <3>1, <3>4, CurrentPlaces
    <3>5. QED
      BY <2>2, <3>2, <3>3, <3>4, CurrentPlaces
  <2>5. QED
    BY <2>3, <2>4
<1>2. Inv => ConnectedHasOneReader
  BY <1>1 DEF ConnectedHasOneReader
<1>3. QED
  BY <1>2, SpecInv, PTL

----------------------------------------------------------------------------
(* A connection over tcp that is connecting                                *)

\* No handshake of the current attempt is under way or has a handler to run:
\* only an ssl stream starts one, and the transport changes only while
\* disconnected.  One of an earlier attempt, over ssl, may be left.
TcpOnly ==
    curstate # "disconnected" /\ transport # "ssl" =>
        /\ NoneQueued(attempt, {"handshake"}, {})
        /\ running.kind = "handshake" => running.attempt # attempt

\* A connection that is connecting looks up a name or tries an address.
Work ==
    curstate = "connecting" /\ transport # "ssl" =>
        \/ ~NoneQueued(attempt, ChainKinds, {})
        \/ running.kind \in ChainKinds /\ running.attempt = attempt

TcpWork == terminated \/ (TcpOnly /\ Work)

\* A lookup that waits is work of the current attempt.
LEMMA LookupIsWork ==
  ASSUME Order, LookupWaits
  PROVE  ~NoneQueued(attempt, ChainKinds, {})
  BY DEF Order, InOrder, LookupFirst, LookupWaits, NoneQueued, Counts, ChainKinds

\* A step that starts an operation other than a handshake, or, over ssl, any.
LEMMA StartsNoHandshake ==
  ASSUME Typed, Order, TcpOnly, transport' = transport, transport # "ssl",
         curstate # "disconnected",
         NEW k \in Kinds \ {"handshake"}, Starts(k), running' = running \/ running' = Nothing
  PROVE  /\ TcpOnly'
         /\ k = "connect" => ~NoneQueued(attempt, ChainKinds, {})'
<1>1. attempt >= 1 /\ Nothing.kind # "handshake"
  BY DEF Order, Begun, Nothing
<1>2. CASE inflight' = inflight \cup {Op(k)} /\ ready' = ready /\ attempt' = attempt
  <2>1. Op(k) \in inflight' /\ Op(k).kind = k /\ Op(k).attempt = attempt
    BY <1>1, <1>2, OpTyped
  <2>2. QED
    BY <1>1, <1>2, <2>1 DEF TcpOnly, NoneQueued, Counts, ChainKinds
<1>3. CASE /\ inflight' = inflight /\ ready' = Append(ready, Completed(Op(k), FALSE))
           /\ attempt' = attempt
  <2> DEFINE c == Completed(Op(k), FALSE)
  <2>1. c \in Completions /\ c.kind = k /\ c.attempt = attempt
    BY <1>1, OpTyped
  <2> HIDE DEF c
  <2>2. /\ Len(ready) \in Nat /\ Len(ready') = Len(ready) + 1
        /\ \A i \in 1..Len(ready) : ready'[i] = ready[i]
        /\ ready'[Len(ready) + 1] = c
    BY <1>3, <2>1, AppendReady DEF c
  <2>3. Len(ready) + 1 \in 1..Len(ready')
    BY <2>2
  <2>4. \A i \in 1..Len(ready') : ready'[i] = c \/ (i \in 1..Len(ready) /\ ready'[i] = ready[i])
    BY <2>2
  <2>5. TcpOnly'
    BY <1>1, <1>3, <2>1, <2>4 DEF TcpOnly, NoneQueued, Counts
  <2>6. k = "connect" => ~NoneQueued(attempt, ChainKinds, {})'
    BY <1>3, <2>1, <2>2, <2>3 DEF NoneQueued, Counts, ChainKinds
  <2>7. QED
    BY <2>5, <2>6
<1>4. QED
  BY <1>2, <1>3 DEF Starts

\* Nothing is claimed of a connection that is disconnected or over ssl.
LEMMA FreeOfWork ==
  ASSUME curstate' = "disconnected" \/ transport' = "ssl" \/ terminated'
  PROVE  TcpWork'
  BY DEF TcpWork, TcpOnly, Work

LEMMA DisconnectInHandlerWork ==
  ASSUME DisconnectInHandler
  PROVE  TcpWork'
  BY FreeOfWork DEF DisconnectInHandler, DoUnscheduledDisconnect

\* A step that leaves what is under way as it is.
LEMMA KeptWork ==
  ASSUME TcpOnly, Work, UNCHANGED <<inflight, ready, attempt, transport>>,
         curstate # "disconnected" \/ curstate' = "disconnected",
         running' = running \/ running' = Nothing,
         curstate' = "connecting" /\ transport # "ssl" =>
            curstate = "connecting" /\ (running' = running \/ ~NoneQueued(attempt, ChainKinds, {}))
  PROVE  TcpWork'
<1>1. Nothing.kind # "handshake"
  BY DEF Nothing
<1>2. NoneQueued(attempt, {"handshake"}, {})' <=> NoneQueued(attempt, {"handshake"}, {})
  BY DEF NoneQueued
<1>3. TcpOnly'
  BY <1>1, <1>2 DEF TcpOnly
<1>4. NoneQueued(attempt, ChainKinds, {})' <=> NoneQueued(attempt, ChainKinds, {})
  BY DEF NoneQueued
<1>5. Work'
  BY <1>4 DEF Work
<1>6. QED
  BY <1>3, <1>5 DEF TcpWork

LEMMA ConnectTryNextWork ==
  ASSUME Typed, Order, TcpOnly, Work, curstate = "connecting", transport # "ssl",
         NEW n, ConnectTryNext(n), running' = Nothing, attempt' = attempt, transport' = transport
  PROVE  TcpWork'
<1>1. CASE DisconnectInHandler
  BY <1>1, DisconnectInHandlerWork
<1>2. CASE terminated'
  BY <1>2, FreeOfWork
<1>3. CASE StartConnect /\ UNCHANGED curstate
  <2>1. Starts("connect") /\ "connect" \in Kinds \ {"handshake"}
    BY <1>3 DEF StartConnect, Starts, Kinds
  <2>2. QED
    BY <1>3, <2>1, StartsNoHandshake DEF TcpWork, Work
<1>4. QED
  BY <1>1, <1>2, <1>3 DEF ConnectTryNext

LEMMA RunHandlerWork ==
  ASSUME Typed, Order, ~terminated, TcpOnly, Work, RunHandler
  PROVE  TcpWork'
<1>1. running # Nothing /\ running' = Nothing /\ attempt' = attempt /\ transport' = transport
  BY DEF RunHandler
<1>2. SUFFICES ASSUME transport # "ssl" PROVE TcpWork'
  BY <1>1, FreeOfWork
<1>3. {"read", "write"} \subseteq Kinds \ {"handshake"}
  BY DEF Kinds
<1>4. ASSUME curstate = "connecting",
             running.attempt # attempt \/ running.kind \notin ChainKinds
      PROVE  ~NoneQueued(attempt, ChainKinds, {})
  BY <1>2, <1>4 DEF Work
<1>5. ASSUME UNCHANGED <<curstate, inflight, ready>>,
             curstate = "disconnected" \/ ~(curstate = "connecting" /\ running.attempt = attempt
                                            /\ running.kind \in ChainKinds)
      PROVE  TcpWork'
  <2>1. CASE curstate = "disconnected"
    BY <1>5, <2>1, FreeOfWork
  <2>2. CASE curstate # "disconnected"
    BY <1>1, <1>4, <1>5, <2>2, KeptWork
  <2>3. QED
    BY <2>1, <2>2
<1>6. CASE ResolveHandler
  BY <1>1, <1>2, <1>5, <1>6, DisconnectInHandlerWork, ConnectTryNextWork DEF ResolveHandler, Ignored
<1>7. ASSUME ConnectSuccess, curstate = "connecting" PROVE TcpWork'
  <2>1. Starts("read") /\ curstate' = "connected"
    BY <1>1, <1>7 DEF ConnectSuccess, Recv, StartOnSocket, Starts
  <2>2. QED
    BY <1>1, <1>2, <1>3, <1>7, <2>1, StartsNoHandshake DEF TcpWork, Work
<1>8. CASE ConnectHandler
  BY <1>1, <1>2, <1>5, <1>7, <1>8, ConnectTryNextWork
     DEF ConnectHandler, ConnectOptSslHandshake, Ignored
<1>9. CASE HandshakeHandler
  BY <1>5, <1>7, <1>9 DEF HandshakeHandler, Ignored, OnlyReport, ChainKinds
<1>10. CASE ReadHandler
  <2>1. CASE Ignored("connected")
    BY <1>5, <1>10, <2>1 DEF Ignored, ReadHandler, ChainKinds
  <2>2. CASE DisconnectInHandler
    BY <2>2, DisconnectInHandlerWork
  <2>3. CASE curstate = "connected" /\ Recv /\ UNCHANGED curstate
    <3>1. Starts("read")
      BY <1>1, <2>3 DEF Recv, StartOnSocket, Starts
    <3>2. QED
      BY <1>1, <1>2, <1>3, <2>3, <3>1, StartsNoHandshake DEF TcpWork, Work
  <2>4. QED
    BY <1>10, <2>1, <2>2, <2>3 DEF ReadHandler
<1>11. CASE WriteHandler
  <2>1. CASE Ignored("connected")
    BY <1>5, <1>11, <2>1 DEF Ignored, WriteHandler, ChainKinds
  <2>2. CASE DisconnectInHandler
    BY <2>2, DisconnectInHandlerWork
  <2>3. CASE curstate = "connected" /\ StartOnSocket("write") /\ UNCHANGED curstate
    <3>1. Starts("write")
      BY <1>1, <2>3 DEF StartOnSocket, Starts
    <3>2. QED
      BY <1>1, <1>2, <1>3, <2>3, <3>1, StartsNoHandshake DEF TcpWork, Work
  <2>4. CASE curstate = "connected" /\ UNCHANGED <<curstate, inflight, ready>>
    BY <1>5, <2>4
  <2>5. QED
    BY <1>11, <2>1, <2>2, <2>3, <2>4 DEF WriteHandler
<1>12. QED
  BY <1>6, <1>8, <1>9, <1>10, <1>11 DEF RunHandler

LEMMA CompleteWork ==
  ASSUME Typed, TcpOnly, Work, NEW op \in inflight, Complete(op)
  PROVE  TcpWork'
<1>1. inflight' = inflight \ {op} /\ UNCHANGED <<curstate, transport, attempt, running>>
  BY DEF Complete
<1>2. PICK c \in Completions :
            /\ c.kind = op.kind /\ c.attempt = op.attempt
            /\ \A i \in 1..Len(ready') :
                  \/ i \in 1..Len(ready) /\ ready'[i] = ready[i]
                  \/ i = Len(ready) + 1 /\ ready'[i] = c
            /\ \A i \in 1..Len(ready) : i \in 1..Len(ready') /\ ready'[i] = ready[i]
            /\ Len(ready) + 1 \in 1..Len(ready') /\ ready'[Len(ready) + 1] = c
  BY CompleteReady
<1>3. NoneQueued(attempt, {"handshake"}, {}) => NoneQueued(attempt, {"handshake"}, {})'
  BY <1>1, <1>2 DEF NoneQueued, Counts
<1>4. TcpOnly'
  BY <1>1, <1>3 DEF TcpOnly
<1>5. NoneQueued(attempt, ChainKinds, {})' => NoneQueued(attempt, ChainKinds, {})
  BY <1>1, <1>2 DEF NoneQueued, Counts
<1>6. QED
  BY <1>1, <1>4, <1>5 DEF TcpWork, Work

LEMMA NextHandlerWork ==
  ASSUME Typed, IInv, ~terminated, TcpOnly, Work, RunNextHandler
  PROVE  TcpWork'
<1>1. /\ UNCHANGED <<inflight, curstate, transport, attempt>> /\ running = Nothing
      /\ running' = IF destroyed THEN Nothing ELSE ready[1]
  BY NextReady DEF RunNextHandler
<1>2. Nothing.kind = "none"
  BY DEF Nothing
<1>3. ASSUME NoneQueued(attempt, {"handshake"}, {})
      PROVE  /\ NoneQueued(attempt, {"handshake"}, {})'
             /\ running'.kind = "handshake" => running'.attempt # attempt
  BY <1>1, <1>2, <1>3, NextReady DEF NoneQueued, Counts
<1>4. TcpOnly'
  BY <1>1, <1>3 DEF TcpOnly
<1>5. curstate = "connecting" => ~destroyed
  BY DEF IInv, DestroyedIsInert
<1>6. ASSUME ~NoneQueued(attempt, ChainKinds, {}), ~destroyed
      PROVE  \/ ~NoneQueued(attempt, ChainKinds, {})'
             \/ running'.kind \in ChainKinds /\ running'.attempt = attempt
  BY <1>1, <1>6, NextReady DEF NoneQueued, Counts
<1>7. Work'
  BY <1>1, <1>2, <1>5, <1>6 DEF Work, ChainKinds
<1>8. QED
  BY <1>4, <1>7 DEF TcpWork

\* What is left over belongs to an earlier attempt.
LEMMA ConnectWork ==
  ASSUME Typed, Order, Connect
  PROVE  TcpWork'
<1> DEFINE lookup == [kind |-> "resolve", attempt |-> attempt + 1]
<1>1. /\ inflight' = inflight \cup {lookup} /\ UNCHANGED <<ready, running>>
      /\ lookup.kind = "resolve" /\ lookup.attempt = attempt' /\ attempt' = attempt + 1
      /\ attempt \in Nat
  BY ReadyTyped DEF Connect
<1> HIDE DEF lookup
<1>2. /\ \A op \in inflight : op.attempt # attempt'
      /\ \A i \in 1..Len(ready) : ready[i].attempt # attempt'
      /\ running # Nothing => running.attempt # attempt'
  BY <1>1 DEF Order, InOrder
<1>3. running.kind = "handshake" => running.attempt # attempt'
  BY <1>2 DEF Nothing
<1>4. TcpOnly'
  BY <1>1, <1>2, <1>3 DEF TcpOnly, NoneQueued, Counts
<1>5. ~NoneQueued(attempt, ChainKinds, {})'
  BY <1>1 DEF NoneQueued, ChainKinds
<1>6. QED
  BY <1>4, <1>5 DEF TcpWork, Work

LEMMA LeaveWork ==
  ASSUME TcpOnly, Work, Disconnect \/ Destroy
  PROVE  TcpWork'
<1>1. UNCHANGED <<running, attempt, transport>>
  BY DEF Disconnect, Destroy
<1>2. CASE DoDisconnect /\ curstate \in {"connecting", "connected"}
  <2>1. CASE DoUnscheduledDisconnect
    BY <2>1, FreeOfWork DEF DoUnscheduledDisconnect
  <2>2. CASE curstate' = "disconnecting" /\ UNCHANGED <<inflight, ready>>
    BY <1>1, <1>2, <2>2, KeptWork
  <2>3. QED
    BY <1>2, <2>1, <2>2 DEF DoDisconnect
<1>3. CASE DisconnectInHandler
  BY <1>3, DisconnectInHandlerWork
<1>4. CASE UNCHANGED <<curstate, inflight, ready>>
  BY <1>1, <1>4 DEF TcpWork, TcpOnly, Work, NoneQueued
<1>5. QED
  BY <1>2, <1>3, <1>4 DEF Disconnect, Destroy

LEMMA SetEndpointWork ==
  ASSUME (\E t : SetEndpoint(t)) \/ SetInvalid
  PROVE  TcpWork'
<1>1. curstate' = "disconnected"
  BY DEF SetEndpoint, SetInvalid
<1>2. QED
  BY <1>1, FreeOfWork

LEMMA SendRawWork ==
  ASSUME Typed, Order, TcpOnly, SendRaw
  PROVE  TcpWork'
<1>1. Starts("write") /\ "write" \in Kinds \ {"handshake"} /\ running' = running
      /\ curstate = "connected" /\ curstate' = "connected" /\ transport' = transport
  BY DEF SendRaw, StartOnSocket, Starts, Kinds
<1>2. CASE transport = "ssl"
  BY <1>1, <1>2, FreeOfWork
<1>3. CASE transport # "ssl"
  BY <1>1, <1>3, StartsNoHandshake DEF TcpWork, Work
<1>4. QED
  BY <1>2, <1>3

LEMMA NextTcpWork ==
  ASSUME Inv, TcpWork, [Next]_vars
  PROVE  TcpWork'
<1>1. CASE UNCHANGED vars
  BY <1>1 DEF vars, TcpWork, TcpOnly, Work, NoneQueued
<1>2. CASE Next
  <2>1. ~terminated /\ Order /\ Typed /\ IInv /\ TcpOnly /\ Work
    BY <1>2 DEF Next, ClientStep, Inv, TcpWork
  <2>2. CASE ClientStep
    BY <2>1, <2>2, SetEndpointWork, ConnectWork, LeaveWork, SendRawWork DEF ClientStep
  <2>3. ASSUME NEW op \in inflight, Complete(op) PROVE TcpWork'
    BY <2>1, <2>3, CompleteWork
  <2>4. CASE RunNextHandler
    BY <2>1, <2>4, NextHandlerWork
  <2>5. CASE RunHandler
    BY <2>1, <2>5, RunHandlerWork
  <2>6. QED
    BY <1>2, <2>2, <2>3, <2>4, <2>5 DEF Next
<1>3. QED
  BY <1>1, <1>2

LEMMA InitTcpWork == Init => TcpWork
  BY DEF Init, TcpWork, TcpOnly, Work

\* Work of the current attempt is an element of one of the sets of Current.
LEMMA WorkIsCurrent ==
  ASSUME Typed, Work, curstate = "connecting", transport # "ssl"
  PROVE  Current("resolve") \cup Current("connect") \cup Current("handshake") # {}
<1>1. DOMAIN ready = 1..Len(ready)
  BY ReadyTyped, LenProperties
<1>2. CASE \E op \in inflight : op.kind \in ChainKinds /\ op.attempt = attempt
  BY <1>2 DEF Current, ChainKinds
<1>3. CASE \E i \in 1..Len(ready) : ready[i].kind \in ChainKinds /\ ready[i].attempt = attempt
  BY <1>1, <1>3 DEF Current, ChainKinds
<1>4. CASE running.kind \in ChainKinds /\ running.attempt = attempt
  BY <1>4 DEF Current, ChainKinds
<1>5. QED
  BY <1>2, <1>3, <1>4 DEF Work, NoneQueued, Counts

\* Without ssl a connection that is connecting always gets somewhere: it has a
\* name lookup or an attempt to connect under way, or the handler of one still
\* to run, also where handlers of an earlier attempt run in between, over ssl
\* or not.
THEOREM GetsSomewhere == Spec => []ConnectingHasWork
<1> DEFINE J == Inv /\ TcpWork
<1>1. Init => J
  BY InitInv, InitTcpWork
<1>2. J /\ [Next]_vars => J'
  BY NextInv, NextTcpWork
<1>3. J => ConnectingHasWork
  BY WorkIsCurrent DEF ConnectingHasWork, Inv, TcpWork
<1>4. QED
  BY <1>1, <1>2, <1>3, PTL DEF Spec

----------------------------------------------------------------------------
(* Who is connected by the current attempt                                 *)

\* A completion or handler of the current attempt that found the socket open.
Successful(c) == Counts(c, {}, {"connect", "handshake"}) /\ c.attempt = attempt

OpenWhenDone ==
    curstate = "connecting" =>
        /\ \A i \in 1..Len(ready) : Successful(ready[i]) => sock_open
        /\ Successful(running) => sock_open

Opened == terminated \/ OpenWhenDone

\* Operations of the current attempt are started, and the socket stays open.
LEMMA GrownOpened ==
  ASSUME OpenWhenDone, Grown, curstate' = "connecting" => curstate = "connecting",
         sock_open => sock_open', running' = running \/ running' = Nothing
  PROVE  OpenWhenDone'
<1>1. ~Counts(Nothing, {}, {"connect", "handshake"})
  BY DEF Counts, Nothing
<1>2. attempt' = attempt
  BY DEF Grown
<1>3. \A i \in 1..Len(ready') :
          Counts(ready'[i], {}, {"connect", "handshake"}) => i \in 1..Len(ready) /\ ready'[i] = ready[i]
  BY DEF Grown, Counts
<1>4. QED
  BY <1>1, <1>2, <1>3 DEF OpenWhenDone, Successful

LEMMA RunHandlerOpened ==
  ASSUME Typed, Order, ~terminated, OpenWhenDone, RunHandler
  PROVE  Opened'
<1>1. running' = Nothing /\ attempt' = attempt
  BY DEF RunHandler
<1>2. ASSUME curstate' = "connecting" => curstate = "connecting", sock_open => sock_open',
             NEW k \in Kinds \ {"resolve"}, Starts(k), curstate # "disconnected"
      PROVE  Opened'
  <2>1. attempt >= 1
    BY <1>2 DEF Order, Begun
  <2>2. Grown
    BY <1>2, <2>1, StartGrown DEF Starts, Order
  <2>3. QED
    BY <1>1, <1>2, <2>2, GrownOpened DEF Opened
<1>3. ASSUME UNCHANGED <<curstate, sock_open, inflight, ready>> PROVE Opened'
  BY <1>1, <1>3, NothingGrown, GrownOpened DEF Opened, Order
<1>4. ASSUME DisconnectInHandler PROVE Opened'
  BY <1>4 DEF DisconnectInHandler, DoUnscheduledDisconnect, OpenWhenDone, Opened
<1>5. {"read", "write", "handshake", "connect"} \subseteq Kinds \ {"resolve"}
  BY DEF Kinds
<1>6. ASSUME NEW n, curstate = "connecting", ConnectTryNext(n) PROVE Opened'
  <2>1. CASE StartConnect /\ UNCHANGED curstate
    <3>1. Starts("connect") /\ (sock_open => sock_open')
      BY <1>1, <2>1 DEF StartConnect, Starts
    <3>2. QED
      BY <1>2, <1>5, <1>6, <2>1, <3>1
  <2>2. CASE terminated'
    BY <2>2 DEF Opened
  <2>3. QED
    BY <1>4, <1>6, <2>1, <2>2 DEF ConnectTryNext
<1>7. ASSUME NEW k \in Kinds \ {"resolve"}, StartOnSocket(k), curstate # "disconnected",
             UNCHANGED <<curstate, sock_open>>
      PROVE  Opened'
  BY <1>1, <1>2, <1>7 DEF StartOnSocket, Starts
<1>8. ASSUME ConnectSuccess PROVE Opened'
  BY <1>8 DEF ConnectSuccess, OpenWhenDone, Opened
<1>9. CASE ResolveHandler
  BY <1>3, <1>4, <1>6, <1>9 DEF ResolveHandler, Ignored
<1>10. CASE ConnectHandler
  BY <1>3, <1>5, <1>6, <1>7, <1>8, <1>10 DEF ConnectHandler, ConnectOptSslHandshake, Ignored
<1>11. CASE HandshakeHandler
  BY <1>3, <1>8, <1>11 DEF HandshakeHandler, Ignored, OnlyReport
<1>12. CASE ReadHandler
  BY <1>3, <1>4, <1>5, <1>7, <1>12 DEF ReadHandler, Recv, Ignored
<1>13. CASE WriteHandler
  BY <1>3, <1>4, <1>5, <1>7, <1>13 DEF WriteHandler, Ignored
<1>14. QED
  BY <1>9, <1>10, <1>11, <1>12, <1>13 DEF RunHandler

LEMMA ClientStepOpened ==
  ASSUME Typed, Order, ~terminated, OpenWhenDone, ClientStep
  PROVE  Opened'
<1>1. CASE (\E t \in Endpoints : SetEndpoint(t)) \/ SetInvalid
  BY <1>1 DEF SetEndpoint, SetInvalid, OpenWhenDone, Opened
<1>2. CASE Connect
  <2>1. UNCHANGED <<ready, running>> /\ attempt' = attempt + 1 /\ attempt \in Nat
    BY <1>2, ReadyTyped DEF Connect
  <2>2. /\ \A i \in 1..Len(ready) : ready[i].attempt # attempt'
        /\ running # Nothing => running.attempt # attempt'
    BY <2>1 DEF Order, InOrder
  <2>3. ~Counts(Nothing, {}, {"connect", "handshake"})
    BY DEF Counts, Nothing
  <2>4. QED
    BY <2>1, <2>2, <2>3 DEF OpenWhenDone, Opened, Successful
<1>3. CASE Disconnect
  BY <1>3 DEF Disconnect, DoDisconnect, DoUnscheduledDisconnect, OpenWhenDone, Opened
<1>4. CASE SendRaw
  BY <1>4 DEF SendRaw, OpenWhenDone, Opened
<1>5. CASE Destroy
  BY <1>5 DEF Destroy, DisconnectInHandler, DoUnscheduledDisconnect, OpenWhenDone, Opened, Successful
<1>6. QED
  BY <1>1, <1>2, <1>3, <1>4, <1>5 DEF ClientStep

\* An operation that succeeds was under way on an open socket.
LEMMA CompleteOpened ==
  ASSUME Typed, IInv, OpenWhenDone, NEW op \in inflight, Complete(op)
  PROVE  Opened'
<1>1. UNCHANGED <<curstate, sock_open, running, attempt>>
  BY DEF Complete
<1>2. PICK c \in Completions :
            /\ c.kind = op.kind
            /\ \A i \in 1..Len(ready') :
                  \/ i \in 1..Len(ready) /\ ready'[i] = ready[i]
                  \/ i = Len(ready) + 1 /\ ready'[i] = c
  BY CompleteReady
<1>3. Successful(c) => sock_open
  BY <1>2 DEF Successful, Counts, IInv, ClosedIsIdle, SocketOps
<1>4. QED
  BY <1>1, <1>2, <1>3 DEF OpenWhenDone, Opened, Successful

LEMMA NextHandlerOpened ==
  ASSUME Typed, OpenWhenDone, RunNextHandler
  PROVE  Opened'
<1>1. UNCHANGED <<curstate, sock_open, attempt>> /\ running' \in {Nothing, ready[1]}
  BY NextReady DEF RunNextHandler
<1>2. ~Counts(Nothing, {}, {"connect", "handshake"})
  BY DEF Counts, Nothing
<1>3. QED
  BY <1>1, <1>2, NextReady DEF OpenWhenDone, Opened, Successful

LEMMA NextOpened ==
  ASSUME Inv, Opened, [Next]_vars
  PROVE  Opened'
<1>1. CASE UNCHANGED vars
  BY <1>1 DEF vars, Opened, OpenWhenDone, Successful
<1>2. CASE Next
  <2>1. ~terminated /\ Order /\ Typed /\ IInv /\ OpenWhenDone
    BY <1>2 DEF Next, ClientStep, Inv, Opened
  <2>2. QED
    BY <1>2, <2>1, ClientStepOpened, CompleteOpened, NextHandlerOpened, RunHandlerOpened DEF Next
<1>3. QED
  BY <1>1, <1>2

\* What EstablishedByOwnAttempt says of a step.
Becomes ==
    curstate' = "connected" =>
        IF curstate = "connected" THEN sock_open' = sock_open
        ELSE OwnAttempt =>
               /\ running.ok /\ sock_open /\ sock_open'
               /\ running.kind = IF transport = "ssl" THEN "handshake" ELSE "connect"

LEMMA OnlyHandlersConnect ==
  ASSUME Inv, TcpWork, Opened, ~terminated, RunHandler
  PROVE  Becomes
<1>1. OpenWhenDone /\ TcpOnly
  BY DEF Opened, TcpWork
<1>2. ASSUME curstate' = curstate, sock_open' = sock_open PROVE Becomes
  BY <1>2 DEF Becomes
<1>3. ASSUME curstate' # "connected" PROVE Becomes
  BY <1>3 DEF Becomes
<1>4. ASSUME DisconnectInHandler PROVE Becomes
  BY <1>2, <1>3, <1>4 DEF DisconnectInHandler, DoUnscheduledDisconnect
<1>5. ASSUME ConnectSuccess, curstate = "connecting", running.ok,
             running.kind = "handshake" \/ (running.kind = "connect" /\ transport # "ssl")
      PROVE  Becomes
  <2>1. sock_open' = sock_open
    BY <1>5 DEF ConnectSuccess, Recv
  <2>2. OwnAttempt => sock_open
    BY <1>1, <1>5 DEF OpenWhenDone, Successful, Counts, OwnAttempt
  <2>3. OwnAttempt => running.kind = IF transport = "ssl" THEN "handshake" ELSE "connect"
    BY <1>1, <1>5 DEF TcpOnly, OwnAttempt
  <2>4. QED
    BY <1>5, <2>1, <2>2, <2>3 DEF Becomes
<1>6. ASSUME NEW n, ConnectTryNext(n), curstate = "connecting" PROVE Becomes
  BY <1>3, <1>4, <1>6 DEF ConnectTryNext
<1>7. CASE ResolveHandler
  BY <1>2, <1>4, <1>6, <1>7 DEF ResolveHandler, Ignored
<1>8. CASE ConnectHandler
  BY <1>2, <1>5, <1>6, <1>8 DEF ConnectHandler, ConnectOptSslHandshake, Ignored
<1>9. CASE HandshakeHandler
  BY <1>2, <1>5, <1>9 DEF HandshakeHandler, Ignored, OnlyReport
<1>10. CASE ReadHandler
  BY <1>2, <1>4, <1>10 DEF ReadHandler, Recv, Ignored
<1>11. CASE WriteHandler
  BY <1>2, <1>4, <1>11 DEF WriteHandler, Ignored
<1>12. QED
  BY <1>7, <1>8, <1>9, <1>10, <1>11 DEF RunHandler

\* Whatever the client and the network do, and however often it connects: the
\* current attempt makes a connection connected only if its connect, or over
\* ssl its handshake, has succeeded and the socket is open then, and it stays
\* open while connected.
THEOREM Established == Spec => EstablishedByOwnAttempt
<1> DEFINE J == Inv /\ TcpWork /\ Opened
<1>1. Init => J
  BY InitInv, InitTcpWork DEF Init, Opened, OpenWhenDone
<1>2. J /\ [Next]_vars => J'
  BY NextInv, NextTcpWork, NextOpened
<1>3. J /\ [Next]_vars => [Becomes]_vars
  <2> SUFFICES ASSUME J, Next PROVE Becomes
    OBVIOUS
  <2>1. CASE RunHandler
    BY <2>1, OnlyHandlersConnect DEF Next, ClientStep
  <2>2. ASSUME curstate' = curstate, sock_open' = sock_open PROVE Becomes
    BY <2>2 DEF Becomes
  <2>3. ASSUME curstate' # "connected" PROVE Becomes
    BY <2>3 DEF Becomes
  <2>4. CASE ClientStep
    <3>1. CASE (\E t \in Endpoints : SetEndpoint(t)) \/ SetInvalid \/ Connect
      BY <2>3, <3>1 DEF SetEndpoint, SetInvalid, Connect
    <3>2. CASE SendRaw
      BY <2>2, <3>2 DEF SendRaw
    <3>3. CASE Disconnect
      BY <2>3, <3>3 DEF Disconnect, DoDisconnect, DoUnscheduledDisconnect
    <3>4. CASE Destroy
      BY <2>2, <2>3, <3>4 DEF Destroy, DisconnectInHandler, DoUnscheduledDisconnect
    <3>5. QED
      BY <2>4, <3>1, <3>2, <3>3, <3>4 DEF ClientStep
  <2>5. ASSUME NEW op \in inflight, Complete(op) PROVE Becomes
    BY <2>2, <2>5 DEF Complete
  <2>6. CASE RunNextHandler
    BY <2>2, <2>6 DEF RunNextHandler
  <2>7. QED
    BY <2>1, <2>4, <2>5, <2>6 DEF Next
<1>4. QED
  BY <1>1, <1>2, <1>3, PTL DEF Spec, EstablishedByOwnAttempt, Becomes
=============================================================================
