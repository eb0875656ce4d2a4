---------------------------- MODULE NetworkService ----------------------------
(***************************************************************************)
(* slirc::network: the io_service the library's operations run on.  The    *)
(* internal one runs in a thread that the first request for it starts and  *)
(* the destructor of the static object stops and joins; a program can put  *)
(* its own service in its place.                                           *)
(***************************************************************************)
EXTENDS Naturals

VARIABLES
    current_service,           \* "internal" or "external"
    service_thread,            \* "none", "running", or "returned" from run()
    internal_service_work,     \* whether the work object is there
    internal_service_stopping, \* whether the destructor has begun
    destructor                 \* "not begun", "joining" or "done"

networkVars == <<current_service, service_thread, internal_service_work,
                 internal_service_stopping, destructor>>

NetworkInit ==
    /\ current_service = "internal"
    /\ service_thread = "none"
    /\ internal_service_work = FALSE
    /\ internal_service_stopping = FALSE
    /\ destructor = "not begun"

\* Variant: nobody is turned away.
RefusedNever == FALSE

\* get_service() throws.
Refused == current_service = "internal" /\ internal_service_stopping

\* get_service() returns the current service; the internal one is started if
\* it has no thread.
GetService ==
    /\ ~Refused
    /\ IF current_service = "internal" /\ service_thread = "none"
       THEN internal_service_work' = TRUE /\ service_thread' = "running"
       ELSE UNCHANGED <<internal_service_work, service_thread>>
    /\ UNCHANGED <<current_service, internal_service_stopping, destructor>>

\* service(external_service).
SetService ==
    /\ current_service' = "external"
    /\ UNCHANGED <<service_thread, internal_service_work, internal_service_stopping, destructor>>

\* Variant: the work object stays until the thread is joined.
DestructWorking ==
    /\ destructor = "not begun"
    /\ internal_service_stopping' = TRUE
    /\ destructor' = IF service_thread # "none" THEN "joining" ELSE "done"
    /\ UNCHANGED <<current_service, service_thread, internal_service_work>>

\* ~slirc_network_service() up to join(); service_mutex is free again then.
Destruct ==
    /\ destructor = "not begun"
    /\ internal_service_stopping' = TRUE
    /\ IF service_thread # "none"
       THEN internal_service_work' = FALSE /\ destructor' = "joining"
       ELSE destructor' = "done" /\ UNCHANGED internal_service_work
    /\ UNCHANGED <<current_service, service_thread>>

\* run() returns when it is out of work: no operation of the service is under
\* way and no handler waits (idle).
RunReturns(idle) ==
    /\ service_thread = "running" /\ ~internal_service_work /\ idle
    /\ service_thread' = "returned"
    /\ UNCHANGED <<current_service, internal_service_work, internal_service_stopping, destructor>>

\* join() returns, and the static object is gone.
Joined ==
    /\ destructor = "joining" /\ service_thread = "returned"
    /\ service_thread' = "none" /\ destructor' = "done"
    /\ UNCHANGED <<current_service, internal_service_work, internal_service_stopping>>
===============================================================================
