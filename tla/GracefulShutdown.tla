-------------------------- MODULE GracefulShutdown --------------------------
(***************************************************************************)
(* A request on its way through the gateway or the API server, and the     *)
(* graceful shutdown of the process that serves it.  Shutdown waits for    *)
(* the connections net/http still owns; a WebSocket leaves net/http when   *)
(* it is upgraded (hijacked) and is known to the drain manager only once   *)
(* TrackWebSocket has run.                                                 *)
(***************************************************************************)
EXTENDS Naturals, FiniteSets

CONSTANT Requests

ASSUME RequestsAssumption == IsFiniteSet(Requests)

VARIABLES
    service,    \* which of the two processes this is
    row,        \* what the sandbox table says of the sandbox asked for
    proc,       \* where main() of the process stands
    draining,   \* DrainManager.draining
    wsWG,       \* DrainManager.wsWG, and wsActive, its readable copy
    waitDone,   \* the channel WaitWebSockets closes once wsWG.Wait() returns
    kind,       \* "http" or "ws", per request
    stage       \* how far each request has come

shutdownVars == <<service, row, proc, draining, wsWG, waitDone, kind, stage>>

Ended    == {"stopped", "timedOut", "forced"}
Alive    == proc \notin Ended

\* The connections http.Server.Shutdown waits for: not idle and not hijacked.
InFlight == {"received", "admitted", "authorised", "routing", "dialed"}
\* Upgraded connections, "hijacked" before and "relaying" after TrackWebSocket.
Sessions == {"hijacked", "relaying", "closing", "lingering"}
Settled  == {"none", "refused", "done", "killed"}

ShutdownTypeOK ==
    /\ service \in {"gateway", "api"}
    /\ row \in {"active", "deleting", "lost", "absent"}
    /\ proc \in {"serving", "sleeping", "shutdown", "waiting"} \cup Ended
    /\ draining \in BOOLEAN /\ waitDone \in BOOLEAN
    /\ kind \in [Requests -> {"http", "ws"}]
    /\ stage \in [Requests -> InFlight \cup Sessions \cup Settled]
    /\ Alive => wsWG = Cardinality({r \in Requests : stage[r] \in {"relaying", "closing"}})

ShutdownInit ==
    /\ service \in {"gateway", "api"}
    /\ row = "active"
    /\ proc = "serving" /\ draining = FALSE /\ wsWG = 0 /\ waitDone = FALSE
    /\ kind \in [Requests -> {"http", "ws"}]
    /\ stage = [r \in Requests |-> "none"]

Move(r, from, to) ==
    /\ Alive
    /\ stage[r] = from
    /\ stage' = [stage EXCEPT ![r] = to]

MainUnchanged == UNCHANGED <<service, row, proc, draining, wsWG, waitDone, kind>>

-----------------------------------------------------------------------------
(* The path of a request. *)

\* The listener is open until Shutdown closes it.
Accept(r) ==
    /\ proc \in {"serving", "sleeping"}
    /\ Move(r, "none", "received")
    /\ MainUnchanged

\* The first middleware of either router.  /health and /readyz, which it lets
\* through, change nothing.
RejectWhileDraining(r) ==
    /\ Move(r, "received", IF draining THEN "refused" ELSE "admitted")
    /\ MainUnchanged

\* The gateway checks the port, then the sandbox row, then the token's hash;
\* the API server its own session or key.  valid is what the request carries.
AuthMiddleware(r, valid) ==
    /\ Move(r, "admitted",
            IF valid /\ (service = "gateway" => row = "active") THEN "authorised" ELSE "refused")
    /\ MainUnchanged

EnterHandlerUnchecked(r, found) ==
    /\ Move(r, "authorised", IF service = "gateway" /\ ~found THEN "refused" ELSE "routing")
    /\ MainUnchanged

\* ProxyHandler and ExecInteractive look at the flag again; the other handlers
\* of the API server do not.  found: the pod's IP is known (direct mode only).
EnterHandler(r, found) ==
    LET checks == service = "gateway" \/ kind[r] = "ws"
    IN  /\ Move(r, "authorised",
                IF (checks /\ draining) \/ (service = "gateway" /\ ~found) THEN "refused" ELSE "routing")
        /\ MainUnchanged

ServeHTTP(r) ==
    /\ kind[r] = "http"
    /\ Move(r, "routing", "done")
    /\ MainUnchanged

\* The gateway connects to the sandbox before it answers the client.
DialBackend(r, ok) ==
    /\ kind[r] = "ws" /\ service = "gateway"
    /\ Move(r, "routing", IF ok THEN "dialed" ELSE "refused")
    /\ MainUnchanged

Upgrade(r, ok) ==
    /\ kind[r] = "ws"
    /\ Move(r, IF service = "gateway" THEN "dialed" ELSE "routing", IF ok THEN "hijacked" ELSE "refused")
    /\ MainUnchanged

TrackWebSocket(r) ==
    /\ Move(r, "hijacked", "relaying")
    /\ wsWG' = wsWG + 1
    /\ UNCHANGED <<service, row, proc, draining, waitDone, kind>>

SessionEnds(r) ==
    /\ Move(r, "relaying", "closing")
    /\ MainUnchanged

ReleaseUncounted(r) ==
    /\ Move(r, "closing", IF service = "gateway" THEN "done" ELSE "lingering")
    /\ MainUnchanged

\* The release function, deferred: the gateway has closed both connections by
\* then; ExecInteractive closes its one after it.
Release(r) ==
    /\ Move(r, "closing", IF service = "gateway" THEN "done" ELSE "lingering")
    /\ wsWG' = wsWG - 1
    /\ UNCHANGED <<service, row, proc, draining, waitDone, kind>>

CloseWebSocket(r) ==
    /\ Move(r, "lingering", "done")
    /\ MainUnchanged

\* Deletion, and the reconciler, change the row under requests in flight.
RowChanges(to) ==
    /\ Alive /\ row = "active"
    /\ row' = to
    /\ UNCHANGED <<service, proc, draining, wsWG, waitDone, kind, stage>>

-----------------------------------------------------------------------------
(* main() after SIGTERM. *)

\* StartDraining; main then sleeps two seconds.
Signal ==
    /\ proc = "serving"
    /\ proc' = "sleeping" /\ draining' = TRUE
    /\ UNCHANGED <<service, row, wsWG, waitDone, kind, stage>>

Shutdown ==
    /\ proc = "sleeping"
    /\ proc' = "shutdown"
    /\ UNCHANGED <<service, row, draining, wsWG, waitDone, kind, stage>>

ShutdownNotWaitedFor ==
    /\ proc = "shutdown"
    /\ proc' = "waiting"
    /\ UNCHANGED <<service, row, draining, wsWG, waitDone, kind, stage>>

ShutdownReturns ==
    /\ proc = "shutdown"
    /\ \A r \in Requests : stage[r] \notin InFlight
    /\ proc' = "waiting"
    /\ UNCHANGED <<service, row, draining, wsWG, waitDone, kind, stage>>

\* The goroutine of WaitWebSockets: wsWG.Wait() returns, the channel is closed.
WaitGroupReachesZero ==
    /\ proc = "waiting" /\ ~waitDone
    /\ wsWG = 0
    /\ waitDone' = TRUE
    /\ UNCHANGED <<service, row, proc, draining, wsWG, kind, stage>>

\* The process ends, with everything that is still open.
Exit(how) ==
    /\ proc' = how
    /\ stage' = [r \in Requests |-> IF stage[r] \in InFlight \cup Sessions THEN "killed" ELSE stage[r]]
    /\ UNCHANGED <<service, row, draining, wsWG, waitDone, kind>>

WaitWithoutDeadline ==
    /\ proc = "waiting" /\ waitDone
    /\ Exit("stopped")

\* WaitWebSockets selects between its deadline and the channel.
WaitWebSockets ==
    /\ proc = "waiting"
    /\ \/ waitDone /\ Exit("stopped")
       \/ Exit("timedOut")

\* Shutdown's own deadline ends in log.Fatalf.
ForcedShutdown ==
    /\ proc = "shutdown"
    /\ Exit("forced")

Main ==
    \/ Shutdown \/ ShutdownReturns \/ ForcedShutdown
    \/ WaitGroupReachesZero \/ WaitWebSockets

ShutdownNext ==
    \/ Signal \/ Main
    \/ \E to \in {"deleting", "lost", "absent"} : RowChanges(to)
    \/ \E r \in Requests :
          \/ Accept(r) \/ RejectWhileDraining(r)
          \/ \E b \in BOOLEAN : \/ AuthMiddleware(r, b) \/ EnterHandler(r, b)
                                \/ DialBackend(r, b) \/ Upgrade(r, b)
          \/ ServeHTTP(r)
          \/ TrackWebSocket(r) \/ SessionEnds(r) \/ Release(r) \/ CloseWebSocket(r)

ShutdownSpec == ShutdownInit /\ [][ShutdownNext]_shutdownVars

-----------------------------------------------------------------------------
(* Properties. *)

\* When the drain manager finds its WaitGroup at zero (WaitWebSockets), nothing
\* is being served any more, with two exceptions the code leaves open: an
\* upgrade whose connection net/http has given away and TrackWebSocket has not
\* counted yet, and an exec session that has been released, is over and has
\* only its socket to close (lingering).  No tracked session and no plain
\* request is ever cut off by a shutdown that reports itself drained.
CleanDrain ==
    [][~waitDone /\ waitDone' =>
         \A r \in Requests : stage[r] \in Settled \cup {"hijacked", "lingering"}]_shutdownVars

\* A request whose handler had not been entered when the drain began never
\* opens a session: the second look at the flag, in ProxyHandler and
\* ExecInteractive, catches what passed the middleware before the signal.
NoSessionAdmittedWhileDraining ==
    [][\A r \in Requests :
         draining /\ stage[r] \in {"none", "received", "admitted", "authorised"} /\ kind[r] = "ws" =>
            stage'[r] \notin Sessions \cup {"routing", "dialed"}]_shutdownVars

\* SIGTERM ends the process whatever the sessions do: both waits of main() have
\* a deadline.
ShutdownEnds == proc = "sleeping" ~> ~Alive

=============================================================================
