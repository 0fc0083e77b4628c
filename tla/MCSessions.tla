----------------------------- MODULE MCSessions -----------------------------
(***************************************************************************)
(* The parts of the system that serve connections, each explored by        *)
(* itself: the variable area says which one this behaviour is about, and   *)
(* the others keep their initial states.                                   *)
(***************************************************************************)
EXTENDS GracefulShutdown, WebSocketRelay, InteractiveExec

CONSTANT Areas

VARIABLE area

mcVars == <<area, shutdownVars, relayVars, execVars>>

Init ==
    /\ area \in Areas
    /\ ShutdownInit /\ (area = "shutdown" \/ (service = "api" /\ kind = [r \in Requests |-> "http"]))
    /\ RelayInit /\ (area = "relay" \/ ~ctxDone)
    /\ ExecInit

InShutdown(A) == area = "shutdown" /\ A /\ UNCHANGED <<area, relayVars, execVars>>
InRelay(A)    == area = "relay" /\ A /\ UNCHANGED <<area, shutdownVars, execVars>>
InExec(A)     == area = "exec" /\ A /\ UNCHANGED <<area, shutdownVars, relayVars>>

Next ==
    \/ InShutdown(ShutdownNext)
    \/ InRelay(RelayNext)
    \/ InExec(ExecNext)

\* main() runs on after the signal; every goroutine that can run does.
Fairness ==
    /\ WF_mcVars(InShutdown(Main))
    /\ \A e \in Ends : WF_mcVars(InRelay(GatewaySteps(e)))
    /\ WF_mcVars(InRelay(ContextDone \/ FirstResult \/ CloseBoth))
    /\ WF_mcVars(InExec(ReaderSteps))
    /\ WF_mcVars(InExec(CopierTakes \/ CopierWrites))
    /\ WF_mcVars(InExec(BridgeSteps))
    /\ WF_mcVars(InExec(LoopSteps))
    /\ WF_mcVars(InExec(AppSteps))

Spec == Init /\ [][Next]_mcVars /\ Fairness

\* Every module's state has its type, and the drain manager's counter counts
\* exactly the tracked sessions that have not been released.
TypeOK == ShutdownTypeOK /\ RelayTypeOK /\ ExecTypeOK

=============================================================================
