--------------------------- MODULE WebSocketRelay ---------------------------
(***************************************************************************)
(* One proxied WebSocket session of the gateway: two relay goroutines, one *)
(* reading from each end and writing to the other, and the session that    *)
(* waits for the first of them to fail, tells the surviving end, and       *)
(* closes both connections (runWebSocketProxySession).                     *)
(***************************************************************************)
EXTENDS Naturals, Sequences

CONSTANT MaxMessages    \* bound: messages each end sends

ASSUME RelayAssumption == MaxMessages \in Nat

VARIABLES
    ends,       \* what each end has done: "open", "reset", "eof" or a close code it sent
    toSend,     \* messages each end may still send
    closeSent,  \* per connection, the code of the close frame written to it, or NoCode
    connClosed, \* the deferred Close of both connections has run
    ctxDone,    \* the request's context is cancelled
    relay,      \* the goroutine that reads from each end
    result,     \* and what it fails with
    errCh,      \* the channel of results, of capacity ErrChCap
    session     \* the goroutine of the handler

relayVars == <<ends, toSend, closeSent, connClosed, ctxDone, relay, result, errCh, session>>

Ends     == {"client", "backend"}
Other(e) == IF e = "client" THEN "backend" ELSE "client"

\* Close codes: 1000, 1001, 1011 and an application's own; 1005 for a close
\* frame without a code and 1006 for no close frame, which none may carry.
NormalClosure   == "normal"
GoingAway       == "goingAway"
InternalError   == "internalError"
NoStatus        == "noStatus"
AbnormalClosure == "abnormal"
NoCode          == "none"

Reserved  == {NoCode, NoStatus, AbnormalClosure}
PeerCodes == {NormalClosure, NoStatus, "application"}

Results == [source : Ends, stage : {"read", "write"}, close : {NoCode, AbnormalClosure} \cup PeerCodes]

\* The close error of a failed read, where there is one, is kept.
newWSRelayResult(e, stg, code) == [source |-> e, stage |-> stg, close |-> code]

ErrChCapOfOne == 1

ErrChCap == 2

RelayTypeOK ==
    /\ ends \in [Ends -> {"open", "reset", "eof"} \cup PeerCodes]
    /\ toSend \in [Ends -> 0 .. MaxMessages]
    /\ closeSent \in [Ends -> {NoCode} \cup PeerCodes \cup {GoingAway, InternalError}]
    /\ connClosed \in BOOLEAN /\ ctxDone \in BOOLEAN
    /\ relay \in [Ends -> {"reading", "writing", "failed", "done"}] /\ result \in [Ends -> Results]
    /\ errCh \in Seq(Results) /\ Len(errCh) <= ErrChCap
    /\ session \in {"running", "lingering", "over"}

\* The context of a hijacked request is cancelled only when the client had left
\* before the upgrade.
RelayInit ==
    /\ ctxDone \in BOOLEAN
    /\ ends = [e \in Ends |-> IF e = "client" /\ ctxDone THEN "eof" ELSE "open"]
    /\ toSend = [e \in Ends |-> MaxMessages]
    /\ closeSent = [e \in Ends |-> NoCode]
    /\ connClosed = FALSE
    /\ relay = [e \in Ends |-> "reading"]
    /\ result = [e \in Ends |-> newWSRelayResult(e, "read", NoCode)]
    /\ errCh = <<>>
    /\ session = "running"

-----------------------------------------------------------------------------
(* The two ends, and the connections as the gateway's library shows them. *)

EndLeaves(e, how) ==
    /\ ends[e] = "open" /\ ~connClosed
    /\ ends' = [ends EXCEPT ![e] = how]
    /\ UNCHANGED <<toSend, closeSent, connClosed, ctxDone, relay, result, errCh, session>>

\* Writing a close frame: a second one is silently dropped (safeWSConn turns
\* ErrCloseSent into success), and so is one to an end that is gone.
WithClose(sent, e, code) ==
    IF sent[e] = NoCode THEN [sent EXCEPT ![e] = code] ELSE sent

\* A data frame cannot be written after a close frame or on a closed connection;
\* one to an end that has vanished fails now or is lost.
WriteOutcomes(e) ==
    CASE closeSent[e] # NoCode \/ connClosed -> {FALSE}
      [] ends[e] \in {"reset", "eof"} -> BOOLEAN
      [] OTHER -> {TRUE}

-----------------------------------------------------------------------------
(* relayWebSocketMessages *)

ReadMessage(e) ==
    /\ relay[e] = "reading" /\ ends[e] = "open" /\ ~connClosed
    /\ toSend[e] > 0
    /\ toSend' = [toSend EXCEPT ![e] = @ - 1]
    /\ relay' = [relay EXCEPT ![e] = "writing"]
    /\ UNCHANGED <<ends, closeSent, connClosed, ctxDone, result, errCh, session>>

\* The library answers a close frame before it reports it, and reports the end
\* of the stream as a close error with code 1006; a reset connection, or one the
\* session has closed, is an error without a code.
ReadFails(e) ==
    /\ relay[e] = "reading"
    /\ ends[e] # "open" \/ connClosed
    /\ LET code == CASE ends[e] \in PeerCodes -> ends[e]
                     [] ends[e] = "eof" /\ ~connClosed -> AbnormalClosure
                     [] OTHER -> NoCode
       IN  /\ relay' = [relay EXCEPT ![e] = "failed"]
           /\ result' = [result EXCEPT ![e] = newWSRelayResult(e, "read", code)]
           /\ closeSent' = IF code \in PeerCodes /\ ~connClosed
                           THEN WithClose(closeSent, e, code) ELSE closeSent
    /\ UNCHANGED <<ends, toSend, connClosed, ctxDone, errCh, session>>

WriteMessage(e) ==
    /\ relay[e] = "writing"
    /\ \E ok \in WriteOutcomes(Other(e)) :
          /\ relay' = [relay EXCEPT ![e] = IF ok THEN "reading" ELSE "failed"]
          /\ result' = IF ok THEN result ELSE [result EXCEPT ![e] = newWSRelayResult(e, "write", NoCode)]
    /\ UNCHANGED <<ends, toSend, closeSent, connClosed, ctxDone, errCh, session>>

\* errCh <- relayWebSocketMessages(...)
Report(e) ==
    /\ relay[e] = "failed"
    /\ Len(errCh) < ErrChCap
    /\ errCh' = Append(errCh, result[e])
    /\ relay' = [relay EXCEPT ![e] = "done"]
    /\ UNCHANGED <<ends, toSend, closeSent, connClosed, ctxDone, result, session>>

-----------------------------------------------------------------------------
(* runWebSocketProxySession *)

notifyFailedEnd(res) == IF res.stage = "read" THEN res.source ELSE Other(res.source)

\* The end to tell: the target of a relay whose read failed, the source of one
\* whose write failed.
notifyPeer(res) == IF res.stage = "read" THEN Other(res.source) ELSE res.source

failureSide(res) == IF res.stage = "read" THEN res.source ELSE Other(res.source)

sanitizeCloseCode(code) == IF code \in Reserved THEN NormalClosure ELSE code

proxyCloseForUnexpected(res) ==
    IF failureSide(res) = "backend" THEN InternalError ELSE GoingAway

CloseFor(res) ==
    IF res.close # NoCode THEN sanitizeCloseCode(res.close) ELSE proxyCloseForUnexpected(res)

handleRelayTermination(res) ==
    closeSent' = WithClose(closeSent, notifyPeer(res), CloseFor(res))

ContextDone ==
    /\ session = "running" /\ ctxDone
    /\ closeSent' = WithClose(WithClose(closeSent, "client", GoingAway), "backend", GoingAway)
    /\ session' = "lingering"
    /\ UNCHANGED <<ends, toSend, connClosed, ctxDone, relay, result, errCh>>

FirstResult ==
    /\ session = "running" /\ errCh # <<>>
    /\ handleRelayTermination(Head(errCh))
    /\ errCh' = Tail(errCh)
    /\ session' = "lingering"
    /\ UNCHANGED <<ends, toSend, connClosed, ctxDone, relay, result>>

\* The second result, or 100 ms; then both connections are closed.
CloseBoth ==
    /\ session = "lingering"
    /\ errCh' = IF errCh # <<>> THEN Tail(errCh) ELSE errCh
    /\ connClosed' = TRUE
    /\ session' = "over"
    /\ UNCHANGED <<ends, toSend, closeSent, ctxDone, relay, result>>

GatewaySteps(e) == ReadMessage(e) \/ ReadFails(e) \/ WriteMessage(e) \/ Report(e)

RelayNext ==
    \/ \E e \in Ends : \/ GatewaySteps(e)
                       \/ \E how \in {"reset", "eof"} \cup PeerCodes : EndLeaves(e, how)
    \/ ContextDone \/ FirstResult \/ CloseBoth

RelaySpec == RelayInit /\ [][RelayNext]_relayVars

-----------------------------------------------------------------------------
(* Properties. *)

\* When the session is over, an end that had neither closed nor dropped its
\* connection was sent a close frame first, with a code that the protocol allows
\* in one (handleRelayTermination, sanitizeCloseCode): whichever of the two
\* relays reported first, and whether it failed reading or writing.
SurvivorIsTold ==
    session = "over" =>
       \A e \in Ends : ends[e] = "open" => closeSent[e] \notin Reserved

\* Neither goroutine outlives the session: once an end is gone or the context is
\* cancelled, the session ends, and both relays finish, although the session
\* takes at most two results from the channel and may take none.
NothingLeaks ==
    (ctxDone \/ \E e \in Ends : ends[e] # "open") ~>
        (session = "over" /\ \A e \in Ends : relay[e] = "done")

\* A backend that vanishes without a close frame, before anything else has
\* ended the session, is reported to the client as an internal error (1011) and
\* not as a normal closure.
BackendDropIsReported ==
    /\ session = "over" /\ ~ctxDone
    /\ ends["backend"] \in {"eof", "reset"} /\ ends["client"] = "open"
    => closeSent["client"] = InternalError

=============================================================================
