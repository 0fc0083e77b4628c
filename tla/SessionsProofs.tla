--------------------------- MODULE SessionsProofs ---------------------------
(***************************************************************************)
(* Proofs about the parts that serve connections: the graceful shutdown    *)
(* for any number of requests, the WebSocket relay for any number of       *)
(* messages, and the interactive exec session for any amount of input and  *)
(* output.                                                                 *)
(***************************************************************************)
EXTENDS MCSessions, FiniteSetTheorems, SequenceTheorems, TLAPS

-----------------------------------------------------------------------------
(* Graceful shutdown.  The counter is the number of sessions between        *)
(* TrackWebSocket and the release, so zero means there are none; and once   *)
(* http.Server.Shutdown has returned no request is in flight, because the   *)
(* listener is closed and nothing but a new connection enters InFlight.     *)

Tracked == {r \in Requests : stage[r] \in {"relaying", "closing"}}

ShutdownInv ==
    /\ ShutdownTypeOK
    /\ proc = "waiting" => \A r \in Requests : stage[r] \notin InFlight

\* The stages are told apart.
LEMMA StageSets ==
    /\ InFlight \cap Sessions = {} /\ InFlight \cap Settled = {} /\ Sessions \cap Settled = {}
    /\ {"relaying", "closing"} \subseteq Sessions
  BY DEF InFlight, Sessions, Settled

\* A move of one request that is not tracked before or after.
LEMMA UntrackedMove ==
    ASSUME ShutdownInv, NEW r \in Requests, NEW from, NEW to, Move(r, from, to), MainUnchanged,
           to \in InFlight \cup Sessions \cup Settled,
           from \in {"relaying", "closing"} <=> to \in {"relaying", "closing"},
           to \in InFlight => from \in InFlight \/ proc # "waiting"
    PROVE  ShutdownInv'
<1>1. /\ stage \in [Requests -> InFlight \cup Sessions \cup Settled] /\ stage[r] = from
      /\ stage' = [stage EXCEPT ![r] = to]
  BY DEF ShutdownInv, ShutdownTypeOK, Move
<1>2. /\ stage' \in [Requests -> InFlight \cup Sessions \cup Settled]
      /\ stage'[r] = to /\ \A q \in Requests \ {r} : stage'[q] = stage[q]
  BY <1>1
<1>3. {q \in Requests : stage'[q] \in {"relaying", "closing"}} =
      {q \in Requests : stage[q] \in {"relaying", "closing"}}
  BY <1>1, <1>2
<1>4. ShutdownTypeOK'
  BY <1>2, <1>3 DEF ShutdownInv, ShutdownTypeOK, MainUnchanged, Alive
<1>5. proc' = "waiting" => \A q \in Requests : stage'[q] \notin InFlight
  BY <1>1, <1>2 DEF ShutdownInv, MainUnchanged
<1> QED
  BY <1>4, <1>5 DEF ShutdownInv

\* A session is tracked.
LEMMA TrackStep ==
    ASSUME ShutdownInv, NEW r \in Requests, TrackWebSocket(r)
    PROVE  ShutdownInv'
<1>1. /\ stage \in [Requests -> InFlight \cup Sessions \cup Settled] /\ stage[r] = "hijacked"
      /\ stage' = [stage EXCEPT ![r] = "relaying"]
      /\ Alive /\ wsWG = Cardinality(Tracked) /\ wsWG' = wsWG + 1
  BY DEF ShutdownInv, ShutdownTypeOK, TrackWebSocket, Move, Tracked
<1>2. /\ stage' \in [Requests -> InFlight \cup Sessions \cup Settled]
      /\ stage'[r] = "relaying" /\ \A q \in Requests \ {r} : stage'[q] = stage[q]
  BY <1>1 DEF Sessions
<1>3. Tracked' = Tracked \cup {r} /\ r \notin Tracked
  BY <1>1, <1>2 DEF Tracked
<1>4. IsFiniteSet(Tracked)
  BY FS_Subset, RequestsAssumption DEF Tracked
<1>5. wsWG' = Cardinality(Tracked')
  BY <1>1, <1>3, <1>4, FS_AddElement
<1>6. ShutdownTypeOK'
  BY <1>2, <1>5 DEF ShutdownInv, ShutdownTypeOK, TrackWebSocket, Alive, Tracked
<1>7. proc' = "waiting" => \A q \in Requests : stage'[q] \notin InFlight
  BY <1>2 DEF ShutdownInv, TrackWebSocket, InFlight
<1> QED
  BY <1>6, <1>7 DEF ShutdownInv

\* A session is released.
LEMMA ReleaseStep ==
    ASSUME ShutdownInv, NEW r \in Requests, Release(r)
    PROVE  ShutdownInv'
<1>1. PICK to \in {"done", "lingering"} : stage' = [stage EXCEPT ![r] = to]
  BY DEF Release, Move
<1>2. /\ stage \in [Requests -> InFlight \cup Sessions \cup Settled] /\ stage[r] = "closing"
      /\ Alive /\ wsWG = Cardinality(Tracked) /\ wsWG' = wsWG - 1
  BY DEF ShutdownInv, ShutdownTypeOK, Release, Move, Tracked
<1>3. /\ stage' \in [Requests -> InFlight \cup Sessions \cup Settled]
      /\ stage'[r] = to /\ \A q \in Requests \ {r} : stage'[q] = stage[q]
  BY <1>1, <1>2 DEF Sessions, Settled
<1>4. Tracked' = Tracked \ {r} /\ r \in Tracked
  BY <1>2, <1>3 DEF Tracked
<1>5. IsFiniteSet(Tracked)
  BY FS_Subset, RequestsAssumption DEF Tracked
<1>6. wsWG' = Cardinality(Tracked')
  BY <1>2, <1>4, <1>5, FS_RemoveElement
<1>7. ShutdownTypeOK'
  BY <1>3, <1>6 DEF ShutdownInv, ShutdownTypeOK, Release, Alive, Tracked
<1>8. proc' = "waiting" => \A q \in Requests : stage'[q] \notin InFlight
  BY <1>1, <1>3 DEF ShutdownInv, Release, InFlight
<1> QED
  BY <1>7, <1>8 DEF ShutdownInv

\* The path of a request.
LEMMA RequestStep ==
    ASSUME ShutdownInv, NEW r \in Requests, NEW b \in BOOLEAN,
           \/ Accept(r) \/ RejectWhileDraining(r) \/ AuthMiddleware(r, b) \/ EnterHandler(r, b)
           \/ DialBackend(r, b) \/ Upgrade(r, b) \/ ServeHTTP(r)
           \/ SessionEnds(r) \/ CloseWebSocket(r)
    PROVE  ShutdownInv'
<1> USE DEF InFlight, Sessions, Settled
<1>1. CASE Accept(r)
  <2>1. proc # "waiting"
    BY <1>1 DEF Accept
  <2> QED
    BY <1>1, <2>1, UntrackedMove DEF Accept
<1>2. CASE RejectWhileDraining(r)
  BY <1>2, UntrackedMove DEF RejectWhileDraining
<1>3. CASE AuthMiddleware(r, b)
  BY <1>3, UntrackedMove DEF AuthMiddleware
<1>4. CASE EnterHandler(r, b)
  BY <1>4, UntrackedMove DEF EnterHandler
<1>5. CASE DialBackend(r, b)
  BY <1>5, UntrackedMove DEF DialBackend
<1>6. CASE Upgrade(r, b)
  BY <1>6, UntrackedMove DEF Upgrade
<1>7. CASE ServeHTTP(r)
  BY <1>7, UntrackedMove DEF ServeHTTP
<1>8. CASE SessionEnds(r)
  BY <1>8, UntrackedMove DEF SessionEnds
<1>9. CASE CloseWebSocket(r)
  BY <1>9, UntrackedMove DEF CloseWebSocket
<1> QED
  BY <1>1, <1>2, <1>3, <1>4, <1>5, <1>6, <1>7, <1>8, <1>9

\* main() and the row.
LEMMA MainStep ==
    ASSUME ShutdownInv,
           \/ Signal \/ Main \/ \E to \in {"deleting", "lost", "absent"} : RowChanges(to)
    PROVE  ShutdownInv'
<1>1. CASE /\ stage' = stage /\ wsWG' = wsWG /\ service' = service /\ kind' = kind
           /\ row' \in {"active", "deleting", "lost", "absent"}
           /\ draining' \in BOOLEAN /\ waitDone' \in BOOLEAN
           /\ proc' \in {"serving", "sleeping", "shutdown", "waiting"} \cup Ended
           /\ Alive' => Alive
           /\ proc' = "waiting" => \A r \in Requests : stage[r] \notin InFlight
  BY <1>1 DEF ShutdownInv, ShutdownTypeOK
<1>2. ASSUME NEW how \in Ended, Exit(how) PROVE ShutdownInv'
  <2>1. stage' \in [Requests -> InFlight \cup Sessions \cup Settled]
    BY <1>2 DEF ShutdownInv, ShutdownTypeOK, Exit, Settled
  <2> QED
    BY <1>2, <2>1 DEF ShutdownInv, ShutdownTypeOK, Exit, Alive, Ended
<1>3. CASE WaitWebSockets \/ ForcedShutdown
  BY <1>2, <1>3 DEF WaitWebSockets, ForcedShutdown, Ended
<1>4. CASE Signal \/ Shutdown \/ ShutdownReturns \/ WaitGroupReachesZero
  BY <1>1, <1>4 DEF ShutdownInv, ShutdownTypeOK, Signal, Shutdown, ShutdownReturns,
       WaitGroupReachesZero, Alive, Ended
<1>5. CASE \E to \in {"deleting", "lost", "absent"} : RowChanges(to)
  BY <1>1, <1>5 DEF ShutdownInv, ShutdownTypeOK, RowChanges, Alive
<1> QED
  BY <1>3, <1>4, <1>5 DEF Main

\* The inductive invariant of the shutdown.
THEOREM ShutdownInvariance == ShutdownSpec => []ShutdownInv
<1>1. ShutdownInit => ShutdownInv
  <2> SUFFICES ASSUME ShutdownInit PROVE ShutdownInv
    OBVIOUS
  <2>1. {r \in Requests : stage[r] \in {"relaying", "closing"}} = {}
    BY DEF ShutdownInit
  <2> QED
    BY <2>1, FS_EmptySet DEF ShutdownInit, ShutdownInv, ShutdownTypeOK, Settled
<1>2. ShutdownInv /\ [ShutdownNext]_shutdownVars => ShutdownInv'
  <2> SUFFICES ASSUME ShutdownInv, [ShutdownNext]_shutdownVars PROVE ShutdownInv'
    OBVIOUS
  <2>1. CASE UNCHANGED shutdownVars
    BY <2>1 DEF ShutdownInv, ShutdownTypeOK, shutdownVars, Alive
  <2> QED
    BY <2>1, MainStep, RequestStep, TrackStep, ReleaseStep DEF ShutdownNext
<1> QED
  BY <1>1, <1>2, PTL DEF ShutdownSpec

\* The process and its requests keep their types, and the drain manager's
\* counter counts the tracked sessions.
THEOREM ShutdownTypeCorrect == ShutdownSpec => []ShutdownTypeOK
<1>1. ShutdownInv => ShutdownTypeOK
  BY DEF ShutdownInv
<1> QED
  BY <1>1, ShutdownInvariance, PTL

\* A drain that ends by itself cuts off no plain request and no tracked session.
THEOREM DrainIsClean == ShutdownSpec => CleanDrain
<1>1. ASSUME ShutdownInv, [ShutdownNext]_shutdownVars, ~waitDone, waitDone'
      PROVE  \A r \in Requests : stage[r] \in Settled \cup {"hijacked", "lingering"}
  <2>1. proc = "waiting" /\ wsWG = 0
    <3>1. WaitGroupReachesZero
      BY <1>1 DEF ShutdownNext, shutdownVars, Signal, Main, Shutdown, ShutdownReturns, ForcedShutdown,
           WaitWebSockets, Exit, RowChanges, Accept, RejectWhileDraining, AuthMiddleware, EnterHandler,
           DialBackend, Upgrade, ServeHTTP, TrackWebSocket, SessionEnds, Release, CloseWebSocket,
           MainUnchanged
    <3> QED
      BY <3>1 DEF WaitGroupReachesZero
  <2>2. Alive
    BY <2>1 DEF Alive, Ended
  <2>3. Tracked = {}
    <3>1. Cardinality(Tracked) = 0
      BY <1>1, <2>1, <2>2 DEF ShutdownInv, ShutdownTypeOK, Tracked
    <3>2. IsFiniteSet(Tracked)
      BY FS_Subset, RequestsAssumption DEF Tracked
    <3> QED
      BY <3>1, <3>2, FS_EmptySet
  <2> QED
    BY <1>1, <2>1, <2>3 DEF ShutdownInv, ShutdownTypeOK, Tracked, InFlight, Sessions, Settled
<1>2. ShutdownInv /\ [ShutdownNext]_shutdownVars =>
        [~waitDone /\ waitDone' =>
           \A r \in Requests : stage[r] \in Settled \cup {"hijacked", "lingering"}]_shutdownVars
  BY <1>1
<1> QED
  BY <1>2, ShutdownInvariance, PTL DEF ShutdownSpec, CleanDrain

\* A WebSocket request whose handler is entered during the drain opens no
\* session.
THEOREM DrainAdmitsNoSession == ShutdownSpec => NoSessionAdmittedWhileDraining
<1>1. ASSUME ShutdownInv, [ShutdownNext]_shutdownVars, NEW r \in Requests, draining, kind[r] = "ws",
             stage[r] \in {"none", "received", "admitted", "authorised"}
      PROVE  stage'[r] \notin Sessions \cup {"routing", "dialed"}
  <2>0. stage \in [Requests -> InFlight \cup Sessions \cup Settled]
    BY <1>1 DEF ShutdownInv, ShutdownTypeOK
  <2>1. ASSUME stage' = stage PROVE stage'[r] \notin Sessions \cup {"routing", "dialed"}
    BY <1>1, <2>1 DEF Sessions
  <2>2. ASSUME NEW q \in Requests, NEW from, NEW to, Move(q, from, to),
               q = r => to \notin Sessions \cup {"routing", "dialed"}
        PROVE  stage'[r] \notin Sessions \cup {"routing", "dialed"}
    BY <1>1, <2>0, <2>2 DEF Move, Sessions
  <2>3. ASSUME NEW how, Exit(how) PROVE stage'[r] \notin Sessions \cup {"routing", "dialed"}
    BY <1>1, <2>0, <2>3 DEF Exit, Sessions, InFlight
  <2>4. ASSUME NEW q \in Requests, NEW b \in BOOLEAN,
               \/ Accept(q) \/ RejectWhileDraining(q) \/ AuthMiddleware(q, b) \/ EnterHandler(q, b)
               \/ DialBackend(q, b) \/ Upgrade(q, b) \/ ServeHTTP(q)
               \/ TrackWebSocket(q) \/ SessionEnds(q) \/ Release(q) \/ CloseWebSocket(q)
        PROVE  stage'[r] \notin Sessions \cup {"routing", "dialed"}
    <3> USE DEF Sessions
    <3>1. CASE Accept(q) \/ RejectWhileDraining(q) \/ AuthMiddleware(q, b)
      BY <2>2, <3>1 DEF Accept, RejectWhileDraining, AuthMiddleware
    <3>2. CASE EnterHandler(q, b)
      BY <1>1, <2>2, <3>2 DEF EnterHandler
    <3>3. CASE DialBackend(q, b) \/ Upgrade(q, b) \/ ServeHTTP(q)
      BY <1>1, <2>2, <3>3 DEF DialBackend, Upgrade, ServeHTTP, Move
    <3>4. CASE TrackWebSocket(q) \/ SessionEnds(q) \/ Release(q) \/ CloseWebSocket(q)
      BY <1>1, <2>2, <3>4 DEF TrackWebSocket, SessionEnds, Release, CloseWebSocket, Move
    <3> QED
      BY <2>4, <3>1, <3>2, <3>3, <3>4
  <2>5. CASE Signal \/ Main \/ (\E to \in {"deleting", "lost", "absent"} : RowChanges(to))
    BY <2>1, <2>3, <2>5 DEF Signal, Main, RowChanges, Shutdown, ShutdownReturns, ForcedShutdown,
         WaitGroupReachesZero, WaitWebSockets
  <2>6. CASE UNCHANGED shutdownVars
    BY <2>1, <2>6 DEF shutdownVars
  <2> QED
    BY <1>1, <2>4, <2>5, <2>6 DEF ShutdownNext
<1>2. ShutdownInv /\ [ShutdownNext]_shutdownVars =>
        [\A r \in Requests :
           draining /\ stage[r] \in {"none", "received", "admitted", "authorised"} /\ kind[r] = "ws" =>
              stage'[r] \notin Sessions \cup {"routing", "dialed"}]_shutdownVars
  BY <1>1
<1> QED
  BY <1>2, ShutdownInvariance, PTL DEF ShutdownSpec, NoSessionAdmittedWhileDraining

-----------------------------------------------------------------------------
(* The WebSocket relay.  As long as the session runs, an end that is still  *)
(* open has been sent nothing, and every failure that waits to be reported  *)
(* has its cause at an end that is gone; so the end handleRelayTermination  *)
(* does not tell has left, and the one it tells gets its first close frame. *)

FailedAt(res) == ends[failureSide(res)] # "open"

RunningOK ==
    /\ \A e \in Ends : closeSent[e] # NoCode => ends[e] # "open"
    /\ \A e \in Ends : relay[e] = "failed" => FailedAt(result[e])
    /\ \A i \in 1 .. Len(errCh) : FailedAt(errCh[i])

Told == \A e \in Ends : ends[e] = "open" => closeSent[e] \notin Reserved

RelayInv ==
    /\ RelayTypeOK
    /\ connClosed <=> session = "over"
    /\ session = "running" => RunningOK
    /\ session # "running" => Told

Codes_ == {NoCode} \cup PeerCodes \cup {GoingAway, InternalError}

\* The close codes.
LEMMA CodeFacts ==
    /\ PeerCodes \subseteq Codes_ /\ NoCode \in Codes_ /\ GoingAway \in Codes_
    /\ NoCode \notin PeerCodes /\ GoingAway \notin Reserved
    /\ "open" \notin PeerCodes
  BY DEF Codes_, PeerCodes, Reserved, NoCode, GoingAway, NormalClosure, NoStatus, AbnormalClosure

\* A result blames one end, and the other is to be told.
LEMMA FailureSideEnd ==
    ASSUME NEW res \in Results
    PROVE  /\ failureSide(res) \in Ends /\ notifyPeer(res) \in Ends
           /\ Ends = {failureSide(res), notifyPeer(res)}
           /\ res.source \in Ends
  BY DEF Results, Ends, failureSide, notifyPeer, Other

\* What is sent to the surviving end is a code that may be sent.
LEMMA CloseForAllowed ==
    ASSUME NEW res \in Results
    PROVE  CloseFor(res) \in Codes_ /\ CloseFor(res) \notin Reserved
  BY DEF Results, CloseFor, sanitizeCloseCode, proxyCloseForUnexpected, Codes_, Reserved, PeerCodes,
         NoCode, GoingAway, NormalClosure, NoStatus, AbnormalClosure, InternalError

\* A close frame is written at most once.
LEMMA WithCloseEffect ==
    ASSUME NEW old \in [Ends -> Codes_], NEW e \in Ends, NEW code \in Codes_
    PROVE  /\ WithClose(old, e, code) \in [Ends -> Codes_]
           /\ \A d \in Ends : WithClose(old, e, code)[d] =
                 IF d = e /\ old[d] = NoCode THEN code ELSE old[d]
  BY DEF WithClose

\* Types from the invariant.
LEMMA RelayTypes ==
    ASSUME RelayInv
    PROVE  /\ ends \in [Ends -> {"open", "reset", "eof"} \cup PeerCodes]
           /\ closeSent \in [Ends -> Codes_]
           /\ relay \in [Ends -> {"reading", "writing", "failed", "done"}]
           /\ result \in [Ends -> Results]
           /\ errCh \in Seq(Results)
  BY DEF RelayInv, RelayTypeOK, Codes_

\* The result of a relay that fails.
LEMMA NewResult ==
    ASSUME NEW e \in Ends, NEW stg \in {"read", "write"},
           NEW code \in {NoCode, AbnormalClosure} \cup PeerCodes
    PROVE  /\ newWSRelayResult(e, stg, code) \in Results
           /\ failureSide(newWSRelayResult(e, stg, code)) = IF stg = "read" THEN e ELSE Other(e)
  BY DEF newWSRelayResult, Results, failureSide

\* An end leaves.
LEMMA LeavesStep ==
    ASSUME RelayInv, NEW e \in Ends, NEW how \in {"reset", "eof"} \cup PeerCodes, EndLeaves(e, how)
    PROVE  RelayInv'
<1>1. /\ ends' \in [Ends -> {"open", "reset", "eof"} \cup PeerCodes]
      /\ \A d \in Ends : ends'[d] = "open" => ends[d] = "open"
  BY RelayTypes, CodeFacts DEF EndLeaves
<1>2. \A res \in Results : FailedAt(res) => FailedAt(res)'
  BY <1>1, FailureSideEnd DEF FailedAt
<1>3. UNCHANGED <<toSend, closeSent, connClosed, ctxDone, relay, result, errCh, session>>
  BY DEF EndLeaves
<1>4. RelayTypeOK'
  BY <1>1, <1>3 DEF RelayInv, RelayTypeOK
<1>5. session = "running" => RunningOK'
  <2> SUFFICES ASSUME session = "running" PROVE RunningOK'
    OBVIOUS
  <2>1. RunningOK
    BY DEF RelayInv
  <2>2. \A d \in Ends : relay[d] = "failed" => FailedAt(result[d])'
    BY <1>2, <1>3, <2>1, RelayTypes DEF RunningOK
  <2>3. \A i \in 1 .. Len(errCh) : errCh[i] \in Results
    BY RelayTypes
  <2>4. \A i \in 1 .. Len(errCh) : FailedAt(errCh[i])'
    BY <1>2, <1>3, <2>1, <2>3 DEF RunningOK
  <2> QED
    BY <1>1, <1>3, <2>1, <2>2, <2>4 DEF RunningOK
<1>6. session # "running" => Told'
  BY <1>1, <1>3 DEF RelayInv, Told
<1> QED
  BY <1>3, <1>4, <1>5, <1>6 DEF RelayInv

\* A step of one relay goroutine: its state, its result and the close frame the
\* library answers with may change.
LEMMA RelayMoves ==
    ASSUME RelayInv, NEW e \in Ends, NEW st \in {"reading", "writing", "failed"}, NEW res \in Results,
           relay' = [relay EXCEPT ![e] = st], result' = [result EXCEPT ![e] = res],
           toSend' \in [Ends -> 0 .. MaxMessages],
           closeSent' \in [Ends -> Codes_],
           \A d \in Ends : closeSent'[d] = closeSent[d] \/ ends[d] # "open",
           st = "failed" /\ session = "running" => FailedAt(res),
           UNCHANGED <<ends, connClosed, ctxDone, errCh, session>>
    PROVE  RelayInv'
<1>1. /\ relay' \in [Ends -> {"reading", "writing", "failed", "done"}]
      /\ result' \in [Ends -> Results]
      /\ relay'[e] = st /\ result'[e] = res
      /\ \A d \in Ends \ {e} : relay'[d] = relay[d] /\ result'[d] = result[d]
  BY RelayTypes
<1>2. RelayTypeOK'
  BY <1>1 DEF RelayInv, RelayTypeOK, Codes_
<1>3. session = "running" => RunningOK'
  <2> SUFFICES ASSUME session = "running" PROVE RunningOK'
    OBVIOUS
  <2>1. RunningOK /\ \A x : FailedAt(x)' <=> FailedAt(x)
    BY DEF RelayInv, FailedAt
  <2>2. \A d \in Ends : relay'[d] = "failed" => FailedAt(result'[d])
    BY <1>1, <2>1 DEF RunningOK
  <2>3. \A d \in Ends : closeSent'[d] # NoCode => ends[d] # "open"
    BY <2>1 DEF RunningOK
  <2>4. /\ \A d \in Ends : relay'[d] = "failed" => FailedAt(result[d])'
        /\ \A i \in 1 .. Len(errCh') : FailedAt(errCh[i])'
    BY <2>1, <2>2 DEF RunningOK, FailedAt
  <2> QED
    BY <2>3, <2>4 DEF RunningOK
<1>4. session # "running" => Told'
  BY DEF RelayInv, Told
<1> QED
  BY <1>2, <1>3, <1>4 DEF RelayInv

\* A message is read.
LEMMA ReadStep ==
    ASSUME RelayInv, NEW e \in Ends, ReadMessage(e)
    PROVE  RelayInv'
<1>1. toSend' \in [Ends -> 0 .. MaxMessages]
  BY RelayAssumption DEF RelayInv, RelayTypeOK, ReadMessage
<1>2. result' = [result EXCEPT ![e] = result[e]] /\ result[e] \in Results
  BY RelayTypes DEF ReadMessage
<1>3. closeSent' = closeSent /\ closeSent \in [Ends -> Codes_]
  BY RelayTypes DEF ReadMessage
<1> QED
  BY <1>1, <1>2, <1>3, RelayMoves DEF ReadMessage

\* A read fails.
LEMMA ReadFailsStep ==
    ASSUME RelayInv, NEW e \in Ends, ReadFails(e)
    PROVE  RelayInv'
<1> DEFINE code == CASE ends[e] \in PeerCodes -> ends[e]
                     [] ends[e] = "eof" /\ ~connClosed -> AbnormalClosure
                     [] OTHER -> NoCode
<1>1. /\ code \in {NoCode, AbnormalClosure} \cup PeerCodes
      /\ code \in PeerCodes => ends[e] # "open"
  <2>1. CASE ends[e] \in PeerCodes
    <3>1. code = ends[e]
      BY <2>1 DEF PeerCodes, NormalClosure, NoStatus
    <3> QED
      BY <2>1, <3>1, CodeFacts
  <2>2. CASE ends[e] \notin PeerCodes
    <3>1. code \in {NoCode, AbnormalClosure}
      BY <2>2
    <3>2. AbnormalClosure \notin PeerCodes
      BY DEF PeerCodes, AbnormalClosure, NormalClosure, NoStatus
    <3> QED
      BY <3>1, <3>2, CodeFacts
  <2> QED
    BY <2>1, <2>2
<1>2. /\ relay' = [relay EXCEPT ![e] = "failed"]
      /\ result' = [result EXCEPT ![e] = newWSRelayResult(e, "read", code)]
      /\ closeSent' = IF code \in PeerCodes /\ ~connClosed
                      THEN WithClose(closeSent, e, code) ELSE closeSent
      /\ ends[e] # "open" \/ connClosed
      /\ UNCHANGED <<ends, toSend, connClosed, ctxDone, errCh, session>>
  BY DEF ReadFails
<1> HIDE DEF code
<1>3. PICK res \in Results : res = newWSRelayResult(e, "read", code) /\ failureSide(res) = e
  BY <1>1, NewResult
<1>4. /\ closeSent' \in [Ends -> Codes_]
      /\ \A d \in Ends : closeSent'[d] = closeSent[d] \/ ends[d] # "open"
  <2>1. CASE closeSent' = closeSent
    BY <2>1, RelayTypes
  <2>2. CASE code \in PeerCodes /\ closeSent' = WithClose(closeSent, e, code)
    <3>1. code \in Codes_ /\ closeSent \in [Ends -> Codes_]
      BY <2>2, CodeFacts, RelayTypes
    <3> QED
      BY <1>1, <2>2, <3>1, WithCloseEffect
  <2> QED
    BY <1>2, <2>1, <2>2
<1>5. session = "running" => FailedAt(res)
  BY <1>2, <1>3 DEF RelayInv, FailedAt
<1>6. toSend' \in [Ends -> 0 .. MaxMessages]
  BY <1>2 DEF RelayInv, RelayTypeOK
<1> QED
  BY <1>2, <1>3, <1>4, <1>5, <1>6, RelayMoves

\* A write only fails, while the session runs, towards an end that is gone.
LEMMA WriteStep ==
    ASSUME RelayInv, NEW e \in Ends, WriteMessage(e)
    PROVE  RelayInv'
<1>1. PICK ok \in WriteOutcomes(Other(e)) :
         /\ relay' = [relay EXCEPT ![e] = IF ok THEN "reading" ELSE "failed"]
         /\ result' = IF ok THEN result ELSE [result EXCEPT ![e] = newWSRelayResult(e, "write", NoCode)]
  BY DEF WriteMessage
<1>2. /\ toSend' \in [Ends -> 0 .. MaxMessages] /\ closeSent' \in [Ends -> Codes_]
      /\ closeSent' = closeSent
      /\ UNCHANGED <<ends, connClosed, ctxDone, errCh, session>>
  BY RelayTypes DEF WriteMessage, RelayInv, RelayTypeOK
<1>3. Other(e) \in Ends
  BY DEF Other, Ends
<1>4. CASE ok
  <2>1. /\ relay' = [relay EXCEPT ![e] = "reading"]
        /\ result' = [result EXCEPT ![e] = result[e]] /\ result[e] \in Results
    BY <1>1, <1>4, RelayTypes
  <2> QED
    BY <1>2, <2>1, RelayMoves
<1>5. CASE ~ok
  <2>1. PICK res \in Results : res = newWSRelayResult(e, "write", NoCode) /\ failureSide(res) = Other(e)
    BY NewResult
  <2>2. relay' = [relay EXCEPT ![e] = "failed"] /\ result' = [result EXCEPT ![e] = res]
    BY <1>1, <1>5, <2>1
  <2>3. session = "running" => FailedAt(res)
    <3> SUFFICES ASSUME session = "running" PROVE ends[Other(e)] # "open"
      BY <2>1 DEF FailedAt
    <3>1. ~connClosed /\ (closeSent[Other(e)] # NoCode => ends[Other(e)] # "open")
      BY <1>3 DEF RelayInv, RunningOK
    <3>2. closeSent[Other(e)] # NoCode \/ ends[Other(e)] \in {"reset", "eof"}
      BY <1>1, <1>5, <3>1 DEF WriteOutcomes
    <3> QED
      BY <3>1, <3>2
  <2> QED
    BY <1>2, <2>1, <2>2, <2>3, RelayMoves
<1> QED
  BY <1>4, <1>5

\* A relay reports.
LEMMA ReportStep ==
    ASSUME RelayInv, NEW e \in Ends, Report(e)
    PROVE  RelayInv'
<1>1. /\ relay[e] = "failed" /\ Len(errCh) < 2 /\ errCh' = Append(errCh, result[e])
      /\ relay' = [relay EXCEPT ![e] = "done"]
      /\ UNCHANGED <<ends, toSend, closeSent, connClosed, ctxDone, result, session>>
  BY DEF Report, ErrChCap
<1>2. PICK res \in Results : res = result[e]
  BY RelayTypes
<1>3. /\ relay' \in [Ends -> {"reading", "writing", "failed", "done"}]
      /\ \A d \in Ends : relay'[d] = "failed" => relay[d] = "failed"
  BY <1>1, RelayTypes
<1>4. PICK n \in Nat : n = Len(errCh)
  BY RelayTypes
<1>5. /\ errCh' \in Seq(Results) /\ Len(errCh') = n + 1
      /\ \A i \in 1 .. n : errCh'[i] = errCh[i]
      /\ errCh'[n + 1] = res
  BY <1>1, <1>2, <1>4, RelayTypes
<1>6. RelayTypeOK'
  BY <1>1, <1>3, <1>4, <1>5 DEF RelayInv, RelayTypeOK, ErrChCap
<1>7. session = "running" => RunningOK'
  <2> SUFFICES ASSUME session = "running" PROVE RunningOK'
    OBVIOUS
  <2>1. RunningOK
    BY DEF RelayInv
  <2>2. FailedAt(res)
    BY <1>1, <1>2, <2>1 DEF RunningOK
  <2>3. \A i \in 1 .. Len(errCh') : FailedAt(errCh'[i])
    BY <1>4, <1>5, <2>1, <2>2 DEF RunningOK
  <2> QED
    BY <1>1, <1>3, <2>1, <2>3 DEF RunningOK, FailedAt
<1>8. session # "running" => Told'
  BY <1>1 DEF RelayInv, Told
<1> QED
  BY <1>1, <1>6, <1>7, <1>8 DEF RelayInv

\* The session tells the ends and closes.
LEMMA SessionStep ==
    ASSUME RelayInv, ContextDone \/ FirstResult \/ CloseBoth
    PROVE  RelayInv'
<1>1. /\ closeSent \in [Ends -> Codes_] /\ errCh \in Seq(Results)
      /\ "client" \in Ends /\ "backend" \in Ends /\ Ends = {"client", "backend"}
  BY RelayTypes DEF Ends
<1>2. errCh # <<>> => /\ Head(errCh) \in Results /\ Tail(errCh) \in Seq(Results)
                      /\ Len(Tail(errCh)) <= Len(errCh) /\ Head(errCh) = errCh[1] /\ 1 \in 1 .. Len(errCh)
  BY <1>1
<1>3. CASE ContextDone
  <2>1. PICK c : c = WithClose(closeSent, "client", GoingAway)
    OBVIOUS
  <2>2. /\ c \in [Ends -> Codes_]
        /\ \A d \in Ends : c[d] = IF d = "client" /\ closeSent[d] = NoCode THEN GoingAway ELSE closeSent[d]
    BY <1>1, <2>1, CodeFacts, WithCloseEffect
  <2>3. closeSent' = WithClose(c, "backend", GoingAway)
    BY <1>3, <2>1 DEF ContextDone
  <2>4. /\ closeSent' \in [Ends -> Codes_]
        /\ \A d \in Ends : closeSent'[d] = IF d = "backend" /\ c[d] = NoCode THEN GoingAway ELSE c[d]
    BY <1>1, <2>2, <2>3, CodeFacts, WithCloseEffect
  <2>5. \A d \in Ends : ends[d] = "open" => closeSent[d] = NoCode
    BY <1>3 DEF ContextDone, RelayInv, RunningOK
  <2>6. Told'
    BY <1>1, <1>3, <2>2, <2>4, <2>5, CodeFacts DEF Told, ContextDone
  <2>7. RelayTypeOK'
    BY <1>3, <2>4 DEF RelayInv, RelayTypeOK, ContextDone, Codes_
  <2> QED
    BY <1>3, <2>6, <2>7 DEF RelayInv, ContextDone
<1>4. CASE FirstResult
  <2>1. PICK res \in Results : res = Head(errCh) /\ FailedAt(res)
    BY <1>2, <1>4 DEF FirstResult, RelayInv, RunningOK
  <2>2. closeSent' = WithClose(closeSent, notifyPeer(res), CloseFor(res))
    BY <1>4, <2>1 DEF FirstResult, handleRelayTermination
  <2>3. PICK peer \in Ends : peer = notifyPeer(res)
    BY FailureSideEnd
  <2>4. /\ closeSent' \in [Ends -> Codes_]
        /\ \A d \in Ends : closeSent'[d] =
              IF d = peer /\ closeSent[d] = NoCode THEN CloseFor(res) ELSE closeSent[d]
    BY <1>1, <2>2, <2>3, CloseForAllowed, WithCloseEffect
  <2>5. \A d \in Ends : ends[d] = "open" => closeSent[d] = NoCode /\ d = peer
    BY <1>4, <2>1, <2>3, FailureSideEnd DEF FirstResult, RelayInv, RunningOK, FailedAt
  <2>6. Told'
    BY <1>4, <2>4, <2>5, CloseForAllowed DEF Told, FirstResult
  <2>7. errCh' \in Seq(Results) /\ Len(errCh') <= ErrChCap
    BY <1>1, <1>2, <1>4 DEF FirstResult, RelayInv, RelayTypeOK, ErrChCap
  <2>8. RelayTypeOK'
    BY <1>4, <2>4, <2>7 DEF RelayInv, RelayTypeOK, FirstResult, Codes_
  <2> QED
    BY <1>4, <2>6, <2>8 DEF RelayInv, FirstResult
<1>5. CASE CloseBoth
  <2>1. errCh' \in Seq(Results) /\ Len(errCh') <= ErrChCap
    BY <1>1, <1>2, <1>5 DEF CloseBoth, RelayInv, RelayTypeOK, ErrChCap
  <2>2. RelayTypeOK'
    BY <1>5, <2>1 DEF RelayInv, RelayTypeOK, CloseBoth
  <2> QED
    BY <1>5, <2>2 DEF RelayInv, CloseBoth, Told
<1> QED
  BY <1>3, <1>4, <1>5

\* The inductive invariant of the relay.
THEOREM RelayInvariance == RelaySpec => []RelayInv
<1>1. RelayInit => RelayInv
  <2> SUFFICES ASSUME RelayInit PROVE RelayInv
    OBVIOUS
  <2>1. \A e \in Ends : newWSRelayResult(e, "read", NoCode) \in Results
    BY NewResult
  <2>2. errCh \in Seq(Results) /\ Len(errCh) = 0
    BY DEF RelayInit
  <2>3. /\ ends \in [Ends -> {"open", "reset", "eof"} \cup PeerCodes]
        /\ toSend \in [Ends -> 0 .. MaxMessages]
        /\ closeSent \in [Ends -> {NoCode} \cup PeerCodes \cup {GoingAway, InternalError}]
        /\ relay \in [Ends -> {"reading", "writing", "failed", "done"}]
    BY RelayAssumption DEF RelayInit
  <2>4. result \in [Ends -> Results]
    BY <2>1 DEF RelayInit
  <2>5. RelayTypeOK
    <3>1. connClosed \in BOOLEAN /\ ctxDone \in BOOLEAN /\ session \in {"running", "lingering", "over"}
      BY DEF RelayInit
    <3>2. Len(errCh) <= ErrChCap
      BY <2>2 DEF ErrChCap
    <3> QED
      BY <2>2, <2>3, <2>4, <3>1, <3>2 DEF RelayTypeOK
  <2>6. RunningOK
    <3>1. \A e \in Ends : closeSent[e] = NoCode /\ relay[e] = "reading"
      BY DEF RelayInit
    <3> QED
      BY <2>2, <3>1 DEF RunningOK
  <2>7. connClosed = FALSE /\ session = "running"
    BY DEF RelayInit
  <2> QED
    BY <2>5, <2>6, <2>7 DEF RelayInv
<1>2. RelayInv /\ [RelayNext]_relayVars => RelayInv'
  <2> SUFFICES ASSUME RelayInv, [RelayNext]_relayVars PROVE RelayInv'
    OBVIOUS
  <2>1. CASE UNCHANGED relayVars
    BY <2>1 DEF relayVars, RelayInv, RelayTypeOK, RunningOK, FailedAt, Told
  <2> QED
    BY <2>1, LeavesStep, ReadStep, ReadFailsStep, WriteStep, ReportStep, SessionStep
       DEF RelayNext, GatewaySteps
<1> QED
  BY <1>1, <1>2, PTL DEF RelaySpec

\* The relay keeps its types; the channel of results never overflows.
THEOREM RelayTypeCorrect == RelaySpec => []RelayTypeOK
<1>1. RelayInv => RelayTypeOK
  BY DEF RelayInv
<1> QED
  BY <1>1, RelayInvariance, PTL

\* Whichever relay reports first and however it failed, the end that is still
\* there when the session is over was sent a close code that may be sent.
THEOREM SurvivorLearns == RelaySpec => []SurvivorIsTold
<1>1. RelayInv => SurvivorIsTold
  BY DEF RelayInv, Told, SurvivorIsTold
<1> QED
  BY <1>1, RelayInvariance, PTL

-----------------------------------------------------------------------------
(* The interactive exec session.  The exit message closes the sequence of   *)
(* messages to the client, so a piece of output is at every moment in one   *)
(* place: unread, in the copier, under way, in the SDK's buffer or read.    *)
(* Nothing is lost while the connection is up; when it breaks, what was     *)
(* under way is lost with the exit message that was to follow it.           *)

\* The exit message is the last of the messages under way.
Shape(s) == \A i \in 1 .. Len(s) : s[i] # "output" => i = Len(s)

HasExit(s) == Len(s) > 0 /\ s[Len(s)] # "output"

Outputs(s) == IF HasExit(s) THEN Len(s) - 1 ELSE Len(s)

Messages == {"output"} \cup Codes

\* Where the output of the process is.
Accounted == got + buf + Outputs(s2c) + unread + (IF copier = "writing" THEN 1 ELSE 0)

ExecTypes ==
    /\ process \in {"running"} \cup Codes
    /\ emitted \in 0 .. MaxOutputs /\ unread \in Nat /\ buf \in Nat /\ got \in Nat
    /\ copier \in {"idle", "writing"}
    /\ bridge \in 1 .. 6
    /\ reader \in {"reading", "stdin", "push", "drop", "send", "done"}
    /\ queue \in 0 .. 1 /\ link \in {"up", "down", "closed"}
    /\ c2s \in Seq({"input", "resize"}) /\ s2c \in Seq(Messages)
    /\ loop \in {"reading", "done"} /\ app \in {"read", "checked", "select", "eof"}
    /\ readCh \in 0 .. 1 /\ exitCode \in {"unset"} \cup Codes
    /\ sent \in 0 .. MaxInputs
    /\ cancelled \in BOOLEAN /\ queueClosed \in BOOLEAN /\ crashed \in BOOLEAN /\ sdkClosed \in BOOLEAN

\* The clean-up: the queue is closed by its last call but one, and a cancelled
\* stream before it means that the client has gone.
CleanUpOK ==
    /\ queueClosed => bridge >= 5
    /\ crashed => bridge >= 5
    /\ cancelled /\ bridge <= 3 => link # "up"
    /\ sdkClosed => link # "up"
    /\ link = "closed" => bridge = 6

\* The copier has nothing to do once the stream has returned to a client that
\* is still there.
CopierOK ==
    bridge >= 2 /\ link = "up" => process \in Codes /\ copier = "idle" /\ unread = 0

\* Output and exit message.
OutputOK ==
    /\ Shape(s2c)
    /\ Accounted <= emitted
    /\ link = "up" \/ HasExit(s2c) => Accounted = emitted
    /\ HasExit(s2c) => /\ bridge >= 3 /\ copier = "idle" /\ unread = 0
                       /\ process \in Codes /\ s2c[Len(s2c)] = process

\* The exit message was read.
ExitOK ==
    exitCode # "unset" =>
        /\ bridge >= 3 /\ copier = "idle" /\ unread = 0 /\ s2c = <<>> /\ loop = "done"
        /\ exitCode = process /\ got + buf = emitted

EndOK == app = "eof" /\ ~sdkClosed => loop = "done" /\ buf = 0

ExecInv == ExecTypes /\ CleanUpOK /\ CopierOK /\ OutputOK /\ ExitOK /\ EndOK

\* Sequences of messages.
LEMMA EmptyShape ==
    /\ <<>> \in Seq(Messages) /\ Shape(<<>>) /\ ~HasExit(<<>>) /\ Outputs(<<>>) = 0
  BY DEF Shape, HasExit, Outputs

\* The pieces of output are counted by a number.
LEMMA OutputsType ==
    ASSUME NEW s \in Seq(Messages)
    PROVE  Outputs(s) \in Nat
<1>1. Len(s) \in Nat
  OBVIOUS
<1> QED
  BY <1>1 DEF Outputs, HasExit

\* A piece of output is added.
LEMMA AppendOutput ==
    ASSUME NEW s \in Seq(Messages), Shape(s), ~HasExit(s), NEW t, t = Append(s, "output")
    PROVE  t \in Seq(Messages) /\ Shape(t) /\ ~HasExit(t) /\ Outputs(t) = Outputs(s) + 1
<1>1. PICK n \in Nat : n = Len(s)
  OBVIOUS
<1>2. t \in Seq(Messages) /\ Len(t) = n + 1 /\ t[n + 1] = "output" /\ \A i \in 1 .. n : t[i] = s[i]
  BY <1>1 DEF Messages
<1>3. \A i \in 1 .. n : s[i] = "output"
  BY <1>1 DEF Shape, HasExit
<1>4. \A i \in 1 .. n + 1 : t[i] = "output"
  BY <1>2, <1>3
<1> QED
  BY <1>1, <1>2, <1>4 DEF Shape, HasExit, Outputs

\* The exit message is added.
LEMMA AppendExit ==
    ASSUME NEW s \in Seq(Messages), Shape(s), ~HasExit(s), NEW code \in Codes, NEW t, t = Append(s, code)
    PROVE  /\ t \in Seq(Messages) /\ Shape(t) /\ HasExit(t) /\ Outputs(t) = Outputs(s)
           /\ t[Len(t)] = code
<1>1. PICK n \in Nat : n = Len(s)
  OBVIOUS
<1>2. t \in Seq(Messages) /\ Len(t) = n + 1 /\ t[n + 1] = code /\ \A i \in 1 .. n : t[i] = s[i]
  BY <1>1 DEF Messages
<1>3. \A i \in 1 .. n : s[i] = "output"
  BY <1>1 DEF Shape, HasExit
<1>4. code # "output"
  BY DEF Codes
<1> QED
  BY <1>1, <1>2, <1>3, <1>4 DEF Shape, HasExit, Outputs

\* A message is taken.
LEMMA TailShape ==
    ASSUME NEW s \in Seq(Messages), Shape(s), s # <<>>, NEW t, t = Tail(s)
    PROVE  /\ t \in Seq(Messages) /\ Shape(t)
           /\ Head(s) = "output" => /\ Outputs(t) = Outputs(s) - 1
                                    /\ HasExit(t) <=> HasExit(s)
                                    /\ HasExit(s) => t[Len(t)] = s[Len(s)]
           /\ Head(s) # "output" => /\ t = <<>> /\ HasExit(s) /\ Outputs(s) = 0
                                    /\ Head(s) = s[Len(s)] /\ Head(s) \in Codes
<1>1. PICK n \in Nat : n = Len(s) /\ n > 0
  OBVIOUS
<1>2. t \in Seq(Messages) /\ Len(t) = n - 1 /\ \A i \in 1 .. n - 1 : t[i] = s[i + 1]
  BY <1>1
<1>3. Head(s) = s[1] /\ s[1] \in Messages
  BY <1>1
<1>4. ASSUME NEW i \in 1 .. n - 1, t[i] # "output" PROVE i = n - 1
  <2>1. i + 1 \in 1 .. n /\ s[i + 1] # "output"
    BY <1>1, <1>2, <1>4
  <2>2. i + 1 = n
    BY <1>1, <2>1 DEF Shape
  <2> QED
    BY <1>1, <2>2
<1>5. Shape(t)
  BY <1>2, <1>4 DEF Shape
<1>6. CASE Head(s) = "output"
  <2>1. CASE n = 1
    BY <1>1, <1>2, <1>3, <1>6, <2>1 DEF HasExit, Outputs, Shape
  <2>2. CASE n > 1
    <3>1. n - 1 \in 1 .. n - 1 /\ t[n - 1] = s[n]
      BY <1>1, <1>2, <2>2
    <3> QED
      BY <1>1, <1>2, <1>5, <1>6, <2>2, <3>1 DEF HasExit, Outputs
  <2>3. n = 1 \/ n > 1
    BY <1>1
  <2> QED
    BY <2>1, <2>2, <2>3, Zenon
<1>7. CASE Head(s) # "output"
  <2>1. n = 1
    BY <1>1, <1>3, <1>7 DEF Shape
  <2>2. t = <<>>
    BY <1>2, <2>1, EmptySeq
  <2> QED
    BY <1>1, <1>2, <1>3, <1>5, <1>7, <2>1, <2>2 DEF HasExit, Outputs, Messages
<1> QED
  BY <1>6, <1>7

\* The steps of the bridge by their number.
LEMMA BridgeNumbers ==
    ASSUME NEW n \in 1 .. 6
    PROVE  /\ Len(Bridge) = 6
           /\ Bridge[n] = "streaming" <=> n = 1
           /\ Bridge[n] = "exitMessage" <=> n = 2
           /\ Bridge[n] = "closeStdin" <=> n = 3
           /\ Bridge[n] = "closeQueue" <=> n = 4
           /\ Bridge[n] = "closeSocket" <=> n = 5
           /\ Bridge[n] \in {"closeSocket", "over"} <=> n >= 5
  BY DEF Bridge

\* Steps that touch neither the output nor the end of the session.
LEMMA QuietStep ==
    ASSUME ExecInv, ExecTypes', CleanUpOK',
           UNCHANGED <<process, unread, emitted, copier, bridge, link, s2c, loop, buf, exitCode,
                       sdkClosed, app, got>>
    PROVE  ExecInv'
<1>1. CopierOK' /\ ExitOK' /\ EndOK'
  BY DEF ExecInv, CopierOK, ExitOK, EndOK
<1>2. OutputOK'
  BY DEF ExecInv, OutputOK, Accounted
<1> QED
  BY <1>1, <1>2 DEF ExecInv

\* The goroutine that reads the socket, and the terminal sizes.
LEMMA ReaderStep ==
    ASSUME ExecInv,
           \/ SocketReadFails \/ SocketRead \/ StdinWriteFails \/ Push \/ Next_ \/ ProcessReadsStdin
           \/ \E msg \in {"input", "resize"} : ClientSends(msg)
    PROVE  ExecInv'
<1>1. UNCHANGED <<process, unread, emitted, copier, bridge, link, s2c, loop, buf, exitCode,
                  sdkClosed, app, got>>
  BY DEF SocketReadFails, SocketRead, StdinWriteFails, Push, Next_, ProcessReadsStdin, ClientSends,
         ReaderTo, clientVars, serverVars
<1>2. c2s' \in Seq({"input", "resize"})
  <2>1. c2s \in Seq({"input", "resize"})
    BY DEF ExecInv, ExecTypes
  <2>2. CASE SocketRead
    BY <2>1, <2>2 DEF SocketRead
  <2>3. ASSUME NEW msg \in {"input", "resize"}, ClientSends(msg) PROVE c2s' \in Seq({"input", "resize"})
    BY <2>1, <2>3 DEF ClientSends
  <2>4. CASE SocketReadFails \/ StdinWriteFails \/ Push \/ Next_ \/ ProcessReadsStdin
    BY <2>1, <2>4 DEF SocketReadFails, StdinWriteFails, Push, Next_, ProcessReadsStdin
  <2> QED
    BY <2>2, <2>3, <2>4
<1>3. /\ reader' \in {"reading", "stdin", "push", "drop", "send", "done"}
      /\ queue' \in 0 .. 1 /\ sent' \in 0 .. MaxInputs /\ readCh' = readCh
      /\ cancelled' \in BOOLEAN /\ queueClosed' = queueClosed /\ crashed' \in BOOLEAN
      /\ cancelled' => cancelled \/ link # "up" \/ bridge > 3
      /\ crashed' => crashed \/ queueClosed
  <2>1. CASE SocketReadFails
    BY <2>1 DEF ExecInv, ExecTypes, CleanUpOK, SocketReadFails, ReaderTo, clientVars
  <2>2. CASE SocketRead
    BY <2>2 DEF ExecInv, ExecTypes, SocketRead, ReaderTo, clientVars
  <2>3. CASE StdinWriteFails
    BY <2>3 DEF ExecInv, ExecTypes, StdinWriteFails, ReaderTo, clientVars
  <2>4. CASE Push
    <3>1. /\ reader' \in {"done", "reading", "drop", "send"}
          /\ queue' = queue \/ queue' = 0 \/ queue' = 1
          /\ crashed' = crashed \/ (queueClosed /\ crashed' = TRUE)
      BY <2>4 DEF Push, ReaderTo
    <3>2. UNCHANGED <<sent, readCh, cancelled, queueClosed>>
      BY <2>4 DEF Push, ReaderTo, clientVars
    <3>3. /\ cancelled \in BOOLEAN /\ crashed \in BOOLEAN
          /\ queue \in 0 .. 1 /\ sent \in 0 .. MaxInputs
      BY DEF ExecInv, ExecTypes
    <3>4. queue' \in 0 .. 1 /\ sent' \in 0 .. MaxInputs
      BY <3>1, <3>2, <3>3
    <3>5. crashed' \in BOOLEAN /\ (crashed' => crashed \/ queueClosed)
      <4>1. CASE crashed' = crashed
        BY <3>3, <4>1
      <4>2. CASE queueClosed /\ crashed' = TRUE
        BY <4>2
      <4> QED
        BY <3>1, <4>1, <4>2
    <3>6. reader' \in {"reading", "stdin", "push", "drop", "send", "done"}
      BY <3>1
    <3> QED
      BY <3>2, <3>3, <3>4, <3>5, <3>6, Zenon
  <2>5. CASE Next_ \/ ProcessReadsStdin
    BY <2>5 DEF ExecInv, ExecTypes, Next_, ProcessReadsStdin, clientVars
  <2>6. CASE \E msg \in {"input", "resize"} : ClientSends(msg)
    BY <2>6, ExecAssumption DEF ExecInv, ExecTypes, ClientSends, serverVars
  <2> QED
    BY <2>1, <2>2, <2>3, <2>4, <2>5, <2>6
<1>4. ExecTypes'
  BY <1>1, <1>2, <1>3 DEF ExecInv, ExecTypes
<1>5. CleanUpOK'
  BY <1>1, <1>3 DEF ExecInv, ExecTypes, CleanUpOK
<1> QED
  BY <1>1, <1>4, <1>5, QuietStep

\* A piece of output is written, taken by the copier or sent.
LEMMA OutputStep ==
    ASSUME ExecInv, ProcessWrites \/ CopierTakes \/ CopierWrites
    PROVE  ExecInv'
<1>1. /\ ExecTypes /\ CleanUpOK /\ CopierOK /\ OutputOK /\ ExitOK /\ EndOK
      /\ Outputs(s2c) \in Nat /\ s2c \in Seq(Messages)
  BY OutputsType DEF ExecInv, ExecTypes
<1>2. UNCHANGED <<process, cancelled, bridge, reader, queue, queueClosed, crashed, link, c2s,
                  sent, loop, buf, readCh, exitCode, sdkClosed, app, got>>
  BY DEF ProcessWrites, CopierTakes, CopierWrites, clientVars
<1>3. CleanUpOK' /\ EndOK'
  BY <1>1, <1>2 DEF CleanUpOK, EndOK
<1>4. CASE ProcessWrites
  <2>1. bridge = 1 /\ emitted < MaxOutputs /\ emitted' = emitted + 1 /\ unread' = unread + 1
        /\ copier' = copier /\ s2c' = s2c
    BY <1>1, <1>4, BridgeNumbers DEF ProcessWrites, At, ExecTypes
  <2>2. ExecTypes'
    BY <1>1, <1>2, <2>1, ExecAssumption DEF ExecTypes
  <2>3. CopierOK' /\ ExitOK'
    BY <1>1, <1>2, <2>1 DEF CopierOK, ExitOK
  <2>4. OutputOK'
    BY <1>1, <1>2, <2>1 DEF OutputOK, Accounted, ExecTypes
  <2> QED
    BY <1>3, <2>2, <2>3, <2>4 DEF ExecInv
<1>5. CASE CopierTakes
  <2>1. /\ unread > 0 /\ unread' = unread - 1 /\ copier = "idle" /\ copier' = "writing"
        /\ emitted' = emitted /\ s2c' = s2c
    BY <1>5 DEF CopierTakes
  <2>2. ExecTypes'
    BY <1>1, <1>2, <2>1 DEF ExecTypes
  <2>3. CopierOK' /\ ExitOK'
    BY <1>1, <1>2, <2>1 DEF CopierOK, ExitOK, ExecTypes
  <2>4. OutputOK'
    BY <1>1, <1>2, <2>1 DEF OutputOK, Accounted, ExecTypes
  <2> QED
    BY <1>3, <2>2, <2>3, <2>4 DEF ExecInv
<1>6. CASE CopierWrites
  <2>1. /\ copier = "writing" /\ copier' = "idle" /\ unread' = unread /\ emitted' = emitted
        /\ s2c' = IF link = "up" THEN Append(s2c, "output") ELSE s2c
    BY <1>6 DEF CopierWrites
  <2>2. ~HasExit(s2c) /\ Shape(s2c) /\ exitCode = "unset" /\ (link = "up" => bridge = 1)
    BY <1>1, <2>1 DEF OutputOK, ExitOK, CopierOK, ExecTypes
  <2>3. /\ s2c' \in Seq(Messages) /\ Shape(s2c') /\ ~HasExit(s2c')
        /\ Outputs(s2c') = IF link = "up" THEN Outputs(s2c) + 1 ELSE Outputs(s2c)
    BY <1>1, <2>1, <2>2, AppendOutput
  <2>4. ExecTypes'
    BY <1>1, <1>2, <2>1, <2>3 DEF ExecTypes
  <2>5. CopierOK' /\ ExitOK'
    BY <1>2, <2>2 DEF CopierOK, ExitOK
  <2>6. OutputOK'
    BY <1>1, <1>2, <2>1, <2>2, <2>3 DEF OutputOK, Accounted, ExecTypes
  <2> QED
    BY <1>3, <2>4, <2>5, <2>6 DEF ExecInv
<1> QED
  BY <1>4, <1>5, <1>6

\* The process ends, the stream returns, the exit message is sent and the
\* deferred calls run.
LEMMA BridgeStep ==
    ASSUME ExecInv,
           \/ \E code \in {"zero", "three"} : ProcessExits(code)
           \/ StreamReturns \/ ExitMessage \/ Deferred \/ CloseSocket
    PROVE  ExecInv'
<1>1. /\ ExecTypes /\ CleanUpOK /\ CopierOK /\ OutputOK /\ ExitOK /\ EndOK
      /\ Outputs(s2c) \in Nat /\ s2c \in Seq(Messages) /\ bridge \in 1 .. 6
  BY OutputsType DEF ExecInv, ExecTypes
<1>2. UNCHANGED <<unread, emitted, copier, reader, queue, crashed,
                  sent, loop, buf, readCh, exitCode, sdkClosed, app, got>>
  BY DEF ProcessExits, StreamReturns, ExitMessage, Deferred, CloseSocket, clientVars
<1>3. EndOK'
  BY <1>1, <1>2 DEF EndOK
<1>4. ASSUME NEW code \in {"zero", "three"}, ProcessExits(code) PROVE ExecInv'
  <2>1. /\ bridge = 1 /\ process' \in Codes
        /\ UNCHANGED <<cancelled, bridge, queueClosed, link, c2s, s2c>>
    BY <1>1, <1>4, BridgeNumbers DEF ProcessExits, At, Codes
  <2>2. ExecTypes' /\ CleanUpOK'
    BY <1>1, <1>2, <2>1 DEF ExecTypes, CleanUpOK
  <2>3. CopierOK' /\ ExitOK'
    BY <1>1, <1>2, <2>1 DEF CopierOK, ExitOK
  <2>4. OutputOK'
    BY <1>1, <1>2, <2>1 DEF OutputOK, Accounted
  <2> QED
    BY <1>3, <2>2, <2>3, <2>4 DEF ExecInv
<1>5. CASE StreamReturns
  <2>1. /\ bridge = 1 /\ bridge' = 2 /\ ~crashed
        /\ cancelled \/ (process \in Codes /\ unread = 0 /\ copier = "idle")
        /\ UNCHANGED <<process, cancelled, queueClosed, link, c2s, s2c>>
    BY <1>1, <1>5, BridgeNumbers DEF StreamReturns, At
  <2>2. ExecTypes' /\ CleanUpOK'
    BY <1>1, <1>2, <2>1 DEF ExecTypes, CleanUpOK
  <2>3. CopierOK' /\ ExitOK'
    BY <1>1, <1>2, <2>1 DEF CopierOK, ExitOK, CleanUpOK
  <2>4. OutputOK'
    BY <1>1, <1>2, <2>1 DEF OutputOK, Accounted
  <2> QED
    BY <1>3, <2>2, <2>3, <2>4 DEF ExecInv
<1>6. CASE ExitMessage
  <2>1. /\ bridge = 2 /\ bridge' = 3 /\ ~crashed
        /\ s2c' = IF link = "up" THEN Append(s2c, IF cancelled THEN "one" ELSE process) ELSE s2c
        /\ UNCHANGED <<process, cancelled, queueClosed, link, c2s>>
    BY <1>1, <1>6, BridgeNumbers DEF ExitMessage, At
  <2>2. /\ ~HasExit(s2c) /\ Shape(s2c) /\ exitCode = "unset"
        /\ link = "up" => ~cancelled /\ process \in Codes /\ copier = "idle" /\ unread = 0
    BY <1>1, <2>1 DEF OutputOK, ExitOK, CopierOK, CleanUpOK
  <2>3. CASE link = "up"
    <3>1. /\ s2c' \in Seq(Messages) /\ Shape(s2c') /\ HasExit(s2c') /\ Outputs(s2c') = Outputs(s2c)
          /\ s2c'[Len(s2c')] = process
      BY <1>1, <2>1, <2>2, <2>3, AppendExit
    <3>2. ExecTypes' /\ CleanUpOK'
      BY <1>1, <1>2, <2>1, <3>1 DEF ExecTypes, CleanUpOK
    <3>3. CopierOK' /\ ExitOK'
      BY <1>2, <2>1, <2>2, <2>3 DEF CopierOK, ExitOK
    <3>4. OutputOK'
      BY <1>1, <1>2, <2>1, <2>2, <2>3, <3>1 DEF OutputOK, Accounted
    <3> QED
      BY <1>3, <3>2, <3>3, <3>4 DEF ExecInv
  <2>4. CASE link # "up"
    <3>1. ExecTypes' /\ CleanUpOK'
      BY <1>1, <1>2, <2>1, <2>4 DEF ExecTypes, CleanUpOK
    <3>2. CopierOK' /\ ExitOK'
      BY <1>2, <2>1, <2>2, <2>4 DEF CopierOK, ExitOK
    <3>3. OutputOK'
      BY <1>1, <1>2, <2>1, <2>2, <2>4 DEF OutputOK, Accounted
    <3> QED
      BY <1>3, <3>1, <3>2, <3>3 DEF ExecInv
  <2> QED
    BY <2>3, <2>4
<1>7. CASE Deferred
  <2>1. /\ bridge \in 3 .. 4 /\ bridge' = bridge + 1 /\ cancelled' = TRUE /\ ~crashed
        /\ queueClosed' \in BOOLEAN /\ (queueClosed' => queueClosed \/ bridge = 4)
        /\ UNCHANGED <<process, link, c2s, s2c>>
    BY <1>1, <1>7, BridgeNumbers DEF Deferred, ExecTypes
  <2>2. ExecTypes' /\ CleanUpOK'
    BY <1>1, <1>2, <2>1 DEF ExecTypes, CleanUpOK
  <2>3. CopierOK' /\ ExitOK'
    BY <1>1, <1>2, <2>1 DEF CopierOK, ExitOK
  <2>4. OutputOK'
    BY <1>1, <1>2, <2>1 DEF OutputOK, Accounted
  <2> QED
    BY <1>3, <2>2, <2>3, <2>4 DEF ExecInv
<1>8. CASE CloseSocket
  <2>1. /\ bridge = 5 /\ bridge' = 6 /\ link' = (IF link = "up" THEN "closed" ELSE link)
        /\ s2c' = s2c \/ s2c' = <<>>
        /\ c2s' = <<>> /\ UNCHANGED <<process, cancelled, queueClosed>>
    BY <1>1, <1>8, BridgeNumbers DEF CloseSocket, At
  <2>2. c2s' \in Seq({"input", "resize"}) /\ s2c' \in Seq(Messages) /\ Shape(s2c')
    <3>1. <<>> \in Seq({"input", "resize"})
      OBVIOUS
    <3>2. s2c \in Seq(Messages) /\ Shape(s2c)
      BY <1>1 DEF OutputOK, ExecTypes
    <3>3. CASE s2c' = s2c
      BY <2>1, <3>1, <3>2, <3>3
    <3>4. CASE s2c' = <<>>
      BY <2>1, <3>1, <3>4, EmptyShape
    <3> QED
      BY <2>1, <3>3, <3>4
  <2>3. ExecTypes' /\ CleanUpOK'
    BY <1>1, <1>2, <2>1, <2>2 DEF ExecTypes, CleanUpOK
  <2>4. CopierOK' /\ ExitOK'
    BY <1>1, <1>2, <2>1 DEF CopierOK, ExitOK
  <2>5. OutputOK'
    <3>1. link' # "up"
      BY <2>1
    <3>2. CASE s2c' = s2c
      <4>1. Accounted' = Accounted /\ HasExit(s2c') = HasExit(s2c)
        BY <1>2, <2>1, <3>2 DEF Accounted
      <4> QED
        BY <1>1, <1>2, <2>1, <3>1, <3>2, <4>1 DEF OutputOK
    <3>3. CASE s2c' = <<>>
      <4>1. Accounted' <= Accounted
        BY <1>1, <1>2, <2>1, <3>3, EmptyShape DEF Accounted, ExecTypes
      <4>2. Accounted \in Int /\ Accounted' \in Int
        BY <1>1, <1>2, <2>1, <3>3, EmptyShape DEF Accounted, ExecTypes
      <4> QED
        BY <1>1, <1>2, <3>1, <3>3, <4>1, <4>2, EmptyShape DEF OutputOK, ExecTypes
    <3> QED
      BY <2>1, <3>2, <3>3
  <2> QED
    BY <1>3, <2>3, <2>4, <2>5 DEF ExecInv
<1> QED
  BY <1>4, <1>5, <1>6, <1>7, <1>8

\* The connection is lost, and with it what is under way.
LEMMA LossStep ==
    ASSUME ExecInv, LinkBreaks \/ ConnectionsDieWithProcess \/ SDKClose
    PROVE  ExecInv'
<1>1. /\ ExecTypes /\ CleanUpOK /\ CopierOK /\ OutputOK /\ ExitOK /\ EndOK
      /\ Outputs(s2c) \in Nat
  BY OutputsType DEF ExecInv, ExecTypes
<1>2. /\ UNCHANGED <<process, unread, emitted, copier, cancelled, bridge, reader, queue, queueClosed,
                     crashed, sent, loop, buf, readCh, exitCode, app, got>>
      /\ s2c' = <<>> /\ c2s' = <<>>
      /\ link' = (IF link = "up" THEN "down" ELSE link)
      /\ sdkClosed' \in BOOLEAN /\ (sdkClosed => sdkClosed')
  BY <1>1 DEF LinkBreaks, ConnectionsDieWithProcess, SDKClose, serverVars, clientVars, ExecTypes
<1>3. c2s' \in Seq({"input", "resize"})
  BY <1>2
<1>4. s2c' \in Seq(Messages) /\ Shape(s2c') /\ ~HasExit(s2c') /\ Outputs(s2c') = 0
  BY <1>2, EmptyShape
<1>5. ExecTypes' /\ CleanUpOK'
  BY <1>1, <1>2, <1>3, <1>4 DEF ExecTypes, CleanUpOK
<1>6. CopierOK' /\ ExitOK' /\ EndOK'
  BY <1>1, <1>2 DEF CopierOK, ExitOK, EndOK, ExecTypes
<1>7. OutputOK'
  BY <1>1, <1>2, <1>4 DEF OutputOK, Accounted, ExecTypes
<1> QED
  BY <1>5, <1>6, <1>7 DEF ExecInv

\* readLoop, and Read.
LEMMA ClientStep ==
    ASSUME ExecInv, LoopSteps \/ AppSteps
    PROVE  ExecInv'
<1>1. /\ ExecTypes /\ CleanUpOK /\ CopierOK /\ OutputOK /\ ExitOK /\ EndOK
      /\ Outputs(s2c) \in Nat /\ s2c \in Seq(Messages)
  BY OutputsType DEF ExecInv, ExecTypes
<1>2. UNCHANGED <<process, unread, emitted, copier, cancelled, bridge, reader, queue, queueClosed,
                  crashed, sent, sdkClosed, link, c2s>>
  BY DEF LoopSteps, AppSteps, ReadLoop, ReadLoopEnds, TakeBuffered, EnterSelect, Select, serverVars
<1>3. CleanUpOK' /\ CopierOK'
  BY <1>1, <1>2 DEF CleanUpOK, CopierOK
<1>4. CASE ReadLoop
  <2>1. /\ loop = "reading" /\ s2c # <<>> /\ ~sdkClosed /\ s2c' = Tail(s2c) /\ app' = app /\ got' = got
        /\ exitCode = "unset" /\ app # "eof" /\ Shape(s2c)
    BY <1>1, <1>4 DEF ReadLoop, ExitOK, EndOK, OutputOK, ExecTypes
  <2>2. EndOK'
    BY <2>1 DEF EndOK
  <2>3. CASE Head(s2c) = "output"
    <3>1. buf' = buf + 1 /\ readCh' = 1 /\ loop' = loop /\ exitCode' = exitCode
      BY <1>4, <2>3 DEF ReadLoop
    <3>2. /\ s2c' \in Seq(Messages) /\ Shape(s2c') /\ Outputs(s2c') = Outputs(s2c) - 1
          /\ HasExit(s2c') <=> HasExit(s2c)
          /\ HasExit(s2c) => s2c'[Len(s2c')] = s2c[Len(s2c)]
      BY <1>1, <2>1, <2>3, TailShape
    <3>3. ExecTypes' /\ ExitOK'
      BY <1>1, <1>2, <2>1, <3>1, <3>2 DEF ExecTypes, ExitOK
    <3>4. Accounted' = Accounted
      <4>1. PICK n \in Nat : n = Outputs(s2c)
        BY <1>1
      <4>2. Outputs(s2c') = n - 1
        BY <3>2, <4>1
      <4> QED
        BY <1>1, <1>2, <2>1, <3>1, <4>1, <4>2 DEF Accounted, ExecTypes
    <3>5. OutputOK'
      BY <1>1, <1>2, <2>1, <3>1, <3>2, <3>4 DEF OutputOK
    <3> QED
      BY <1>3, <2>2, <3>3, <3>5 DEF ExecInv
  <2>4. CASE Head(s2c) # "output"
    <3>1. buf' = buf /\ readCh' = readCh /\ loop' = "done" /\ exitCode' = Head(s2c)
      BY <1>4, <2>4 DEF ReadLoop
    <3>2. /\ s2c' = <<>> /\ HasExit(s2c) /\ Outputs(s2c) = 0
          /\ exitCode' = s2c[Len(s2c)] /\ exitCode' \in Codes
      BY <1>1, <2>1, <2>4, <3>1, TailShape
    <3>3. s2c' \in Seq(Messages) /\ Shape(s2c') /\ ~HasExit(s2c') /\ Outputs(s2c') = 0
      BY <3>2, EmptyShape
    <3>4. ExecTypes'
      BY <1>1, <1>2, <2>1, <3>1, <3>2, <3>3 DEF ExecTypes
    <3>5. /\ bridge >= 3 /\ copier = "idle" /\ unread = 0 /\ exitCode' = process
          /\ got + buf = emitted
      BY <1>1, <3>2 DEF OutputOK, Accounted, ExecTypes
    <3>6. ExitOK'
      BY <1>2, <2>1, <3>1, <3>2, <3>5 DEF ExitOK
    <3>7. OutputOK'
      BY <1>1, <1>2, <2>1, <3>1, <3>3, <3>5 DEF OutputOK, Accounted, ExecTypes
    <3> QED
      BY <1>3, <2>2, <3>4, <3>6, <3>7 DEF ExecInv
  <2> QED
    BY <2>3, <2>4
<1>5. CASE ReadLoopEnds
  <2>1. loop' = "done" /\ UNCHANGED <<buf, readCh, exitCode, app, got, s2c>>
    BY <1>5 DEF ReadLoopEnds
  <2> QED
    BY <1>1, <1>2, <1>3, <2>1 DEF ExecInv, ExecTypes, OutputOK, Accounted, ExitOK, EndOK
<1>6. CASE AppSteps
  <2>1. /\ UNCHANGED <<loop, exitCode, s2c>> /\ readCh' \in 0 .. 1
        /\ app' \in {"read", "checked", "select", "eof"}
        /\ buf' \in Nat /\ got' \in Nat /\ got' + buf' = got + buf
        /\ app' = "eof" => app = "eof" \/ sdkClosed \/ (loop = "done" /\ buf' = 0)
        /\ app = "eof" => buf' = buf
    BY <1>1, <1>6 DEF AppSteps, TakeBuffered, EnterSelect, Select, ExecTypes
  <2>2. ExecTypes' /\ EndOK'
    BY <1>1, <1>2, <2>1 DEF ExecTypes, EndOK
  <2>3. ExitOK'
    BY <1>1, <1>2, <2>1 DEF ExitOK
  <2>4. Accounted' = Accounted
    BY <1>1, <1>2, <2>1 DEF Accounted, ExecTypes
  <2>5. OutputOK'
    BY <1>1, <1>2, <2>1, <2>4 DEF OutputOK
  <2> QED
    BY <1>3, <2>2, <2>3, <2>5 DEF ExecInv
<1> QED
  BY <1>4, <1>5, <1>6 DEF LoopSteps

\* The inductive invariant of the exec session.
THEOREM ExecInvariance == ExecSpec => []ExecInv
<1>1. ExecInit => ExecInv
  <2> SUFFICES ASSUME ExecInit PROVE ExecInv
    OBVIOUS
  <2>1. c2s \in Seq({"input", "resize"}) /\ s2c = <<>>
    BY DEF ExecInit
  <2>2. s2c \in Seq(Messages) /\ Shape(s2c) /\ ~HasExit(s2c) /\ Outputs(s2c) = 0
    BY <2>1, EmptyShape
  <2>3. ExecTypes
    <3>1. /\ process = "running" /\ unread = 0 /\ emitted = 0 /\ copier = "idle"
          /\ cancelled = FALSE /\ bridge = 1 /\ reader = "reading" /\ queue = 1
          /\ queueClosed = FALSE /\ crashed = FALSE /\ link = "up" /\ sent = 0
          /\ loop = "reading" /\ buf = 0 /\ readCh = 0 /\ exitCode = "unset"
          /\ sdkClosed = FALSE /\ app = "read" /\ got = 0
      BY DEF ExecInit
    <3>2. 0 \in 0 .. MaxOutputs /\ 0 \in 0 .. MaxInputs
      BY ExecAssumption
    <3>3. bridge \in 1 .. 6 /\ queue \in 0 .. 1 /\ readCh \in 0 .. 1
      BY <3>1
    <3>4. unread \in Nat /\ buf \in Nat /\ got \in Nat
      BY <3>1
    <3>5. cancelled \in BOOLEAN /\ queueClosed \in BOOLEAN /\ crashed \in BOOLEAN /\ sdkClosed \in BOOLEAN
      BY <3>1, Zenon
    <3>6. emitted \in 0 .. MaxOutputs /\ sent \in 0 .. MaxInputs
      BY <3>1, <3>2
    <3> QED
      BY <2>1, <2>2, <3>1, <3>3, <3>4, <3>5, <3>6, Zenon DEF ExecTypes
  <2>4. OutputOK
    BY <2>2 DEF ExecInit, OutputOK, Accounted
  <2> QED
    BY <2>3, <2>4 DEF ExecInit, ExecInv, CleanUpOK, CopierOK, ExitOK, EndOK
<1>2. ExecInv /\ [ExecNext]_execVars => ExecInv'
  <2> SUFFICES ASSUME ExecInv, [ExecNext]_execVars PROVE ExecInv'
    OBVIOUS
  <2>1. CASE UNCHANGED execVars
    <3>1. ExecTypes' /\ CleanUpOK'
      BY <2>1 DEF execVars, serverVars, clientVars, ExecInv, ExecTypes, CleanUpOK
    <3> QED
      BY <2>1, <3>1, QuietStep DEF execVars, serverVars, clientVars
  <2> QED
    BY <2>1, ReaderStep, OutputStep, BridgeStep, LossStep, ClientStep DEF ExecNext, ServerSteps
<1> QED
  BY <1>1, <1>2, PTL DEF ExecSpec

\* The session keeps its types, and no output is read that was not written.
THEOREM ExecTypeCorrect == ExecSpec => []ExecTypeOK
<1>1. ExecInv => ExecTypeOK
  <2> SUFFICES ASSUME ExecInv PROVE ExecTypeOK
    OBVIOUS
  <2>1. ExecTypes /\ Accounted <= emitted /\ Outputs(s2c) \in Nat
    BY OutputsType DEF ExecInv, ExecTypes, OutputOK
  <2>2. unread \in 0 .. emitted /\ buf + got <= emitted
    BY <2>1 DEF Accounted, ExecTypes
  <2>3. Len(Bridge) = 6
    BY <2>1, BridgeNumbers DEF ExecTypes
  <2> QED
    BY <2>1, <2>2, <2>3 DEF ExecTypes, ExecTypeOK, Messages
<1> QED
  BY <1>1, ExecInvariance, PTL

\* A caller of Read that sees the end of a session whose exit message arrived
\* has all the output of the process, and Wait its exit code.
THEOREM EndIsComplete == ExecSpec => []EndMeansAllRead
<1>1. ExecInv => EndMeansAllRead
  BY DEF ExecInv, ExecTypes, ExitOK, EndOK, EndMeansAllRead, Wait
<1> QED
  BY <1>1, ExecInvariance, PTL

\* The exit message is never written while the copier may still write.
THEOREM SocketHasOneWriter == ExecSpec => []OneWriter
<1>1. ExecInv => OneWriter
  BY BridgeNumbers DEF ExecInv, ExecTypes, CopierOK, OneWriter, At
<1> QED
  BY <1>1, ExecInvariance, PTL

\* A resize can only bring the process down between sizeQueue.Close and
\* ws.Close of its own session.
THEOREM CrashIsLate == ExecSpec => []CrashOnlyInCleanUp
<1>1. ExecInv => CrashOnlyInCleanUp
  BY BridgeNumbers DEF ExecInv, ExecTypes, CleanUpOK, CrashOnlyInCleanUp
<1> QED
  BY <1>1, ExecInvariance, PTL
-----------------------------------------------------------------------------
(* The three parts as they are explored together. *)

\* Each part behaves as its own specification says, whatever the area.
THEOREM SessionsImplementParts == Spec => ShutdownSpec /\ RelaySpec /\ ExecSpec
<1>1. Init => ShutdownInit /\ RelayInit /\ ExecInit
  BY DEF Init
<1>2. [Next]_mcVars => [ShutdownNext]_shutdownVars /\ [RelayNext]_relayVars /\ [ExecNext]_execVars
  <2> SUFFICES ASSUME [Next]_mcVars
               PROVE  [ShutdownNext]_shutdownVars /\ [RelayNext]_relayVars /\ [ExecNext]_execVars
    OBVIOUS
  <2>1. CASE InShutdown(ShutdownNext)
    BY <2>1 DEF InShutdown
  <2>2. CASE InRelay(RelayNext)
    BY <2>2 DEF InRelay
  <2>3. CASE InExec(ExecNext)
    BY <2>3 DEF InExec
  <2>4. CASE UNCHANGED mcVars
    BY <2>4 DEF mcVars
  <2> QED
    BY <2>1, <2>2, <2>3, <2>4 DEF Next
<1> QED
  BY <1>1, <1>2, PTL DEF Spec, ShutdownSpec, RelaySpec, ExecSpec

\* All three keep their types, and the counter of the drain manager is the
\* number of tracked sessions.
THEOREM SessionsTypeCorrect == Spec => []TypeOK
<1>1. ShutdownTypeOK /\ RelayTypeOK /\ ExecTypeOK => TypeOK
  BY DEF TypeOK
<1> QED
  BY <1>1, SessionsImplementParts, ShutdownTypeCorrect, RelayTypeCorrect, ExecTypeCorrect, PTL
=============================================================================
