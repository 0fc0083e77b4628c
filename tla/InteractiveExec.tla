-------------------------- MODULE InteractiveExec ---------------------------
(***************************************************************************)
(* An interactive exec session from the command line to the container and  *)
(* back: ExecSession of the Go SDK, the WebSocket, SandboxService's bridge *)
(* (a goroutine that reads the socket, the exec stream with its copiers,   *)
(* the terminal size queue, the deferred clean-up) and the process.        *)
(***************************************************************************)
EXTENDS Naturals, Sequences

CONSTANTS
    MaxOutputs,     \* bound: pieces of output the process writes
    MaxInputs       \* bound: messages the client sends

ASSUME ExecAssumption == MaxOutputs \in Nat /\ MaxInputs \in Nat

VARIABLES
    process,    \* "running", or the exit code of the container's process
    unread,     \* output the process has written and the copier has not taken
    emitted,    \* pieces of output written so far
    copier,     \* client-go's stdout copier, inside or outside wsOutputWriter.Write
    cancelled,  \* the context of the exec stream
    bridge,     \* SandboxService.ExecInteractive and its deferred calls, in order
    reader,     \* the goroutine that reads the socket
    queue,      \* SizeQueue.resizeChan, of capacity one
    queueClosed,
    crashed,    \* the process of the API server has panicked
    link,       \* the connection: "up", "down", "closed" by the server
    c2s, s2c,   \* messages under way in the two directions
    sent,       \* messages the client has sent
    loop,       \* readLoop of the SDK's ExecSession
    buf,        \* ExecSession.readBuf
    readCh,     \* the one-place signal channel
    exitCode,   \* "unset", or what the exit message carried
    sdkClosed,  \* ExecSession.Close has been called
    app,        \* the caller of Read
    got         \* pieces of output Read has returned

serverVars == <<process, unread, emitted, copier, cancelled, bridge, reader, queue, queueClosed, crashed>>
clientVars == <<sent, loop, buf, readCh, exitCode, sdkClosed, app, got>>
execVars   == <<serverVars, clientVars, link, c2s, s2c>>

\* Exit codes of the process; "one" is also what a failed stream is reported as.
Codes == {"zero", "one", "three"}
Bridge == <<"streaming", "exitMessage", "closeStdin", "closeQueue", "closeSocket", "over">>

ExecTypeOK ==
    /\ process \in {"running"} \cup Codes
    /\ emitted \in 0 .. MaxOutputs /\ unread \in 0 .. emitted
    /\ copier \in {"idle", "writing"}
    /\ bridge \in 1 .. Len(Bridge)
    /\ reader \in {"reading", "stdin", "push", "drop", "send", "done"}
    /\ queue \in 0 .. 1 /\ link \in {"up", "down", "closed"}
    /\ c2s \in Seq({"input", "resize"}) /\ s2c \in Seq({"output"} \cup Codes)
    /\ loop \in {"reading", "done"} /\ app \in {"read", "checked", "select", "eof"}
    /\ readCh \in 0 .. 1 /\ exitCode \in {"unset"} \cup Codes
    /\ buf + got <= emitted /\ sent \in 0 .. MaxInputs
    /\ {cancelled, queueClosed, crashed, sdkClosed} \subseteq BOOLEAN

ExecInit ==
    /\ process = "running" /\ unread = 0 /\ emitted = 0 /\ copier = "idle"
    /\ cancelled = FALSE /\ bridge = 1 /\ reader = "reading"
    /\ queue = 1 /\ queueClosed = FALSE         \* the initial size is pushed first
    /\ crashed = FALSE
    /\ link = "up" /\ c2s = <<>> /\ s2c = <<>>
    /\ sent = 0 /\ loop = "reading" /\ buf = 0 /\ readCh = 0 /\ exitCode = "unset"
    /\ sdkClosed = FALSE /\ app = "read" /\ got = 0

At(step) == ~crashed /\ Bridge[bridge] = step

-----------------------------------------------------------------------------
(* The container's process, as long as the stream is attached to it, and the *)
(* network.                                                                  *)

ProcessWrites ==
    /\ At("streaming") /\ process = "running" /\ emitted < MaxOutputs
    /\ emitted' = emitted + 1 /\ unread' = unread + 1
    /\ UNCHANGED <<process, copier, cancelled, bridge, reader, queue, queueClosed, crashed,
                   clientVars, link, c2s, s2c>>

ProcessExits(code) ==
    /\ At("streaming") /\ process = "running"
    /\ process' = code
    /\ UNCHANGED <<unread, emitted, copier, cancelled, bridge, reader, queue, queueClosed, crashed,
                   clientVars, link, c2s, s2c>>

\* The process reads its input when it likes, if ever.
ProcessReadsStdin ==
    /\ At("streaming") /\ process = "running" /\ reader = "stdin"
    /\ reader' = "reading"
    /\ UNCHANGED <<process, unread, emitted, copier, cancelled, bridge, queue, queueClosed, crashed,
                   clientVars, link, c2s, s2c>>

\* The connection breaks; what is under way is lost.
LinkBreaks ==
    /\ link = "up"
    /\ link' = "down" /\ c2s' = <<>> /\ s2c' = <<>>
    /\ UNCHANGED <<serverVars, clientVars>>

-----------------------------------------------------------------------------
(* SandboxService.ExecInteractive: the goroutine that reads the socket. *)

ReaderTo(state) ==
    /\ reader' = state
    /\ UNCHANGED <<process, unread, emitted, copier, bridge, clientVars, link, s2c>>

SocketReadFails ==
    /\ ~crashed /\ reader = "reading"
    /\ link # "up" \/ sdkClosed
    /\ cancelled' = TRUE
    /\ ReaderTo("done")
    /\ UNCHANGED <<queue, queueClosed, crashed, c2s>>

SocketRead ==
    /\ ~crashed /\ reader = "reading"
    /\ link = "up" /\ c2s # <<>>
    /\ c2s' = Tail(c2s)
    /\ ReaderTo(IF Head(c2s) = "input" THEN "stdin" ELSE "push")
    /\ UNCHANGED <<cancelled, queue, queueClosed, crashed>>

\* The write end of the stdin pipe is closed under a blocked Write.
StdinWriteFails ==
    /\ ~crashed /\ reader = "stdin"
    /\ bridge > 3
    /\ cancelled' = TRUE
    /\ ReaderTo("done")
    /\ UNCHANGED <<queue, queueClosed, crashed, c2s>>

PushWithoutDropping ==
    /\ ~crashed
    /\ \/ /\ reader = "push" /\ queueClosed
          /\ crashed' = TRUE
          /\ ReaderTo("done") /\ UNCHANGED queue
       \/ /\ reader = "push" /\ ~queueClosed /\ queue = 0
          /\ queue' = 1
          /\ ReaderTo("reading") /\ UNCHANGED crashed
    /\ UNCHANGED <<cancelled, queueClosed, c2s>>

\* SizeQueue.Push: send if there is room, else drop the old size and send.  A
\* send on a closed channel panics, and nothing recovers in this goroutine.
Push ==
    /\ ~crashed
    /\ \/ /\ reader \in {"push", "send"} /\ queueClosed
          /\ crashed' = TRUE
          /\ ReaderTo("done") /\ UNCHANGED queue
       \/ /\ reader \in {"push", "send"} /\ ~queueClosed /\ queue = 0
          /\ queue' = 1
          /\ ReaderTo("reading") /\ UNCHANGED crashed
       \/ /\ reader = "push" /\ ~queueClosed /\ queue = 1
          /\ ReaderTo("drop") /\ UNCHANGED <<crashed, queue>>
       \/ /\ reader = "drop"
          /\ queue' = 0
          /\ ReaderTo("send") /\ UNCHANGED crashed
    /\ UNCHANGED <<cancelled, queueClosed, c2s>>

\* SizeQueue.Next, called by the exec stream, but only when there is a terminal.
Next_ ==
    /\ ~crashed /\ queue = 1 /\ At("streaming")
    /\ queue' = 0
    /\ UNCHANGED <<process, unread, emitted, copier, cancelled, bridge, reader, queueClosed, crashed,
                   clientVars, link, c2s, s2c>>

-----------------------------------------------------------------------------
(* SandboxService.ExecInteractive: the stream, then the deferred calls. *)

\* wsOutputWriter.Write, entered and left; a broken connection loses the data.
CopierTakes ==
    /\ ~crashed /\ copier = "idle" /\ unread > 0 /\ ~cancelled
    /\ unread' = unread - 1 /\ copier' = "writing"
    /\ UNCHANGED <<process, emitted, cancelled, bridge, reader, queue, queueClosed, crashed,
                   clientVars, link, c2s, s2c>>

CopierWrites ==
    /\ ~crashed /\ copier = "writing"
    /\ copier' = "idle"
    /\ s2c' = IF link = "up" THEN Append(s2c, "output") ELSE s2c
    /\ UNCHANGED <<process, unread, emitted, cancelled, bridge, reader, queue, queueClosed, crashed,
                   clientVars, link, c2s>>

StreamReturnsEarly ==
    /\ At("streaming")
    /\ process \in Codes \/ cancelled
    /\ bridge' = bridge + 1
    /\ UNCHANGED <<process, unread, emitted, copier, cancelled, reader, queue, queueClosed, crashed,
                   clientVars, link, c2s, s2c>>

\* StreamWithContext returns when the process has ended and its output has been
\* copied, or when the context is cancelled, whatever its copiers are doing.
StreamReturns ==
    /\ At("streaming")
    /\ \/ process \in Codes /\ unread = 0 /\ copier = "idle"
       \/ cancelled
    /\ bridge' = bridge + 1
    /\ UNCHANGED <<process, unread, emitted, copier, cancelled, reader, queue, queueClosed, crashed,
                   clientVars, link, c2s, s2c>>

\* The exit code of the process, or 1 when the stream failed.
ExitMessage ==
    /\ At("exitMessage")
    /\ bridge' = bridge + 1
    /\ s2c' = IF link = "up" THEN Append(s2c, IF cancelled THEN "one" ELSE process) ELSE s2c
    /\ UNCHANGED <<process, unread, emitted, copier, cancelled, reader, queue, queueClosed, crashed,
                   clientVars, link, c2s>>

DeferredInCodeOrder ==
    /\ ~crashed /\ Bridge[bridge] \in {"closeStdin", "closeQueue"}
    /\ cancelled' = TRUE
    /\ queueClosed' = TRUE
    /\ bridge' = bridge + 1
    /\ UNCHANGED <<process, unread, emitted, copier, reader, queue, crashed, clientVars, link, c2s, s2c>>

\* cancel() with stdinWriter.Close(), then sizeQueue.Close(): last deferred first.
Deferred ==
    /\ ~crashed /\ Bridge[bridge] \in {"closeStdin", "closeQueue"}
    /\ cancelled' = TRUE
    /\ queueClosed' = (queueClosed \/ Bridge[bridge] = "closeQueue")
    /\ bridge' = bridge + 1
    /\ UNCHANGED <<process, unread, emitted, copier, reader, queue, crashed, clientVars, link, c2s, s2c>>

\* The handler's ws.Close().  Closing a socket with unread input resets the
\* connection, and the client may lose what was under way to it.
CloseSocket ==
    /\ At("closeSocket")
    /\ bridge' = bridge + 1
    /\ link' = IF link = "up" THEN "closed" ELSE link
    /\ s2c' \in {s2c} \cup (IF c2s # <<>> THEN {<<>>} ELSE {})
    /\ c2s' = <<>>
    /\ UNCHANGED <<process, unread, emitted, copier, cancelled, reader, queue, queueClosed, crashed, clientVars>>

\* A panic takes the whole process, and every connection, down.
ConnectionsDieWithProcess ==
    /\ crashed /\ link = "up"
    /\ link' = "down" /\ c2s' = <<>> /\ s2c' = <<>>
    /\ UNCHANGED <<serverVars, clientVars>>

-----------------------------------------------------------------------------
(* The SDK's ExecSession. *)

\* Write and Resize, from two goroutines of the command line.
ClientSends(msg) ==
    /\ link = "up" /\ ~sdkClosed /\ sent < MaxInputs
    /\ sent' = sent + 1 /\ c2s' = Append(c2s, msg)
    /\ UNCHANGED <<serverVars, loop, buf, readCh, exitCode, sdkClosed, app, got, link, s2c>>

ReadLoopUnbuffered ==
    /\ loop = "reading" /\ s2c # <<>> /\ ~sdkClosed
    /\ s2c' = Tail(s2c)
    /\ \/ /\ Head(s2c) = "output"
          /\ buf' = buf + 1 /\ readCh' = IF app = "select" THEN 1 ELSE readCh
          /\ UNCHANGED <<loop, exitCode>>
       \/ /\ Head(s2c) # "output"
          /\ exitCode' = Head(s2c) /\ loop' = "done"
          /\ UNCHANGED <<buf, readCh>>
    /\ UNCHANGED <<serverVars, sent, sdkClosed, app, got, link, c2s>>

\* readLoop, one message: the signal is sent without blocking.
ReadLoop ==
    /\ loop = "reading" /\ s2c # <<>> /\ ~sdkClosed
    /\ s2c' = Tail(s2c)
    /\ \/ /\ Head(s2c) = "output"
          /\ buf' = buf + 1 /\ readCh' = 1
          /\ UNCHANGED <<loop, exitCode>>
       \/ /\ Head(s2c) # "output"
          /\ exitCode' = Head(s2c) /\ loop' = "done"
          /\ UNCHANGED <<buf, readCh>>
    /\ UNCHANGED <<serverVars, sent, sdkClosed, app, got, link, c2s>>

ReadLoopEnds ==
    /\ loop = "reading"
    /\ sdkClosed \/ (link # "up" /\ s2c = <<>>)
    /\ loop' = "done"
    /\ UNCHANGED <<serverVars, sent, buf, readCh, exitCode, sdkClosed, app, got, link, c2s, s2c>>

\* Read: what is buffered, or wait for a signal, the end of the loop, or Close.
TakeBuffered ==
    /\ app = "read"
    /\ IF buf > 0 THEN got' = got + buf /\ buf' = 0 /\ UNCHANGED app
                  ELSE app' = "checked" /\ UNCHANGED <<got, buf>>
    /\ UNCHANGED <<serverVars, sent, loop, readCh, exitCode, sdkClosed, link, c2s, s2c>>

EnterSelect ==
    /\ app = "checked"
    /\ app' = "select"
    /\ UNCHANGED <<serverVars, sent, loop, buf, readCh, exitCode, sdkClosed, got, link, c2s, s2c>>

SelectWithoutDrain ==
    /\ app = "select"
    /\ \/ /\ readCh = 1
          /\ readCh' = 0 /\ app' = "read"
       \/ /\ loop = "done" \/ sdkClosed
          /\ app' = "eof" /\ UNCHANGED readCh
    /\ UNCHANGED <<serverVars, sent, loop, exitCode, sdkClosed, link, c2s, s2c, got, buf>>

Select ==
    /\ app = "select"
    /\ \/ /\ readCh = 1
          /\ readCh' = 0 /\ app' = "read"
          /\ UNCHANGED <<got, buf>>
       \/ /\ loop = "done"
          /\ got' = got + buf /\ buf' = 0
          /\ app' = IF buf > 0 THEN "read" ELSE "eof"
          /\ UNCHANGED readCh
       \/ /\ sdkClosed
          /\ app' = "eof"
          /\ UNCHANGED <<readCh, got, buf>>
    /\ UNCHANGED <<serverVars, sent, loop, exitCode, sdkClosed, link, c2s, s2c>>

SDKClose ==
    /\ ~sdkClosed
    /\ sdkClosed' = TRUE
    /\ link' = IF link = "up" THEN "down" ELSE link
    /\ c2s' = <<>> /\ s2c' = <<>>
    /\ UNCHANGED <<serverVars, sent, loop, buf, readCh, exitCode, app, got>>

\* Wait: a session that ended without an exit message reads as code 0.
Wait == IF exitCode = "unset" THEN "zero" ELSE exitCode

ServerSteps ==
    \/ SocketReadFails \/ SocketRead \/ StdinWriteFails \/ Push \/ Next_
    \/ CopierTakes \/ CopierWrites \/ StreamReturns \/ ExitMessage \/ Deferred \/ CloseSocket

ReaderSteps == SocketReadFails \/ SocketRead \/ StdinWriteFails \/ Push
BridgeSteps == StreamReturns \/ ExitMessage \/ Deferred \/ CloseSocket
LoopSteps   == ReadLoop \/ ReadLoopEnds
AppSteps    == TakeBuffered \/ EnterSelect \/ Select

ExecNext ==
    \/ ProcessWrites \/ (\E code \in {"zero", "three"} : ProcessExits(code)) \/ ProcessReadsStdin \/ LinkBreaks
    \/ ServerSteps \/ ConnectionsDieWithProcess
    \/ \E msg \in {"input", "resize"} : ClientSends(msg)
    \/ LoopSteps \/ AppSteps \/ SDKClose

ExecSpec == ExecInit /\ [][ExecNext]_execVars

-----------------------------------------------------------------------------
(* Properties. *)

\* When Read reports the end of a session whose exit message arrived, the caller
\* has everything the process wrote, and Wait the code it exited with: the
\* message follows the last output through the copier, the socket, readLoop's
\* buffer and Read (sdk/go/exec_session.go, service.ExecInteractive).
EndMeansAllRead ==
    app = "eof" /\ exitCode # "unset" /\ ~sdkClosed => got = emitted /\ Wait = process

\* Buffered output is never slept on: the one-place channel keeps the signal
\* of a readLoop that ran between Read's look at the buffer and its select.
OutputReachesCaller == buf > 0 ~> buf = 0 \/ sdkClosed

\* A client that is gone gives everything back: the bridge runs to its end and
\* the reading goroutine finishes, even with resizes in flight.  The one way out
\* is a process that never reads the input the goroutine is writing to it: the
\* loss of the client is then not even noticed while the process runs.
BridgeIsReclaimed ==
    \/ [](link # "up" => <>(crashed \/ (Bridge[bridge] = "over" /\ reader = "done")))
    \/ <>[](reader = "stdin" /\ process = "running")

\* The socket has one writer while the client is there: the exit message never
\* overtakes, or collides with, the copier of the process's output.
OneWriter == At("exitMessage") /\ link = "up" => copier = "idle" /\ unread = 0

\* The panic of a resize pushed into the closed queue can only come from the
\* clean-up, between sizeQueue.Close and ws.Close, when this session's exit
\* message has been written.
CrashOnlyInCleanUp == crashed => Bridge[bridge] \in {"closeSocket", "over"}

=============================================================================
