----------------------------- MODULE ApiStreams -----------------------------
(***************************************************************************)
(* The Container Manager's HTTP/WebSocket adapter (services/container-    *)
(* manager/pkg/api/api.go) for one container created through it.         *)
(*                                                                         *)
(* HandleCreateContainer opens a Run stream to the Manager, waits for     *)
(* Created, registers a containerStream in s.streams and starts            *)
(* manageStream, the one goroutine that reads the stream: it records      *)
(* output and forwards it on buffered broadcast channels (dropping when   *)
(* full), sends the exit code on the one-slot exitCh and, when the stream *)
(* ends, closes the broadcast channels and deletes the registry entry.    *)
(* Concurrent HTTP handlers look the entry up: HandleWaitContainer reads  *)
(* exitCh, HandleWebSocket (the web console) selects over the broadcast   *)
(* channels and exitCh, HandleTerminateContainer sends Terminate on the   *)
(* stream.                                                                 *)
(*                                                                         *)
(* The Manager's end of the stream is abstracted to what this client      *)
(* receives: Created or an error, output lines, then Exit followed by the *)
(* end of the stream, or an error status. The adapter never sends         *)
(* Heartbeat, so the Manager's heartbeat timeout (service.go:117) always  *)
(* ends a stream whose workload is still running.                          *)
(***************************************************************************)
EXTENDS Naturals, Sequences

CONSTANTS
    Codes,        \* exit codes the Manager may report
    Waiters,      \* concurrent GET /api/containers/{id}/wait requests
    Sessions,     \* concurrent /api/containers/{id}/stdio WebSocket sessions
    Terminators,  \* concurrent DELETE /api/containers/{id} requests
    MaxOut,       \* bound on output lines the workload produces
    BcastCap,     \* capacity of stdoutBroadcast (100 in the code)
    None

ASSUME MaxOut \in Nat /\ BcastCap \in Nat \ {0} /\ None \notin Codes

VARIABLES
    grpc,    \* messages of the Run stream not yet received by the adapter
    mgr,     \* the Manager's Run handler: idle, running, exited, killed, failed
    outs,    \* output lines the Manager has sent
    create,  \* HandleCreateContainer: idle, sent, registered, failed
    reg,     \* s.streams[containerID] is present
    ms,      \* manageStream: none, recv, closing, deleting, done
    csExit,  \* cs.exitCode
    exitCh,  \* cs.exitCh (capacity 1)
    bcast,   \* lines buffered in cs.stdoutBroadcast
    closed,  \* cs.cancel() has run and the broadcast channels are closed
    wpc,     \* HandleWaitContainer per request: idle, select, then its answer
             \* (exit, notfound, timeout)
    wres,    \* the exit code a wait request answered, or None
    spc,     \* HandleWebSocket per session: idle, running, done
    wr,      \* the session's output goroutine: none, loop, ret
    rd,      \* the session's input goroutine: none, loop, ret
    serr,    \* values sent on the session's errCh and not yet received
    shown,   \* the exit code the session sent to the browser, or None
    gone,    \* the browser closed the WebSocket
    tpc,     \* HandleTerminateContainer per request
    termReq  \* a Terminate sent on the stream reached the Manager

mgrVars  == <<grpc, mgr, outs, termReq>>
csVars   == <<create, reg, ms, csExit, exitCh, bcast, closed>>
sessVars == <<spc, wr, rd, serr, shown, gone>>
vars == <<mgrVars, csVars, wpc, wres, sessVars, tpc>>

Msg(k)     == [kind |-> k, code |-> None]
ExitMsg(c) == [kind |-> "exit", code |-> c]
Messages   == {Msg(k) : k \in {"created", "out", "eof", "err"}} \cup {ExitMsg(c) : c \in Codes}

\* A Send on the stream succeeds while the Manager's handler still reads it
\* and the adapter has not cancelled the stream's context.
StreamOpen == mgr = "running" /\ ~closed

Init ==
    /\ grpc = <<>> /\ mgr = "idle" /\ outs = 0 /\ termReq = FALSE
    /\ create = "idle" /\ reg = FALSE /\ ms = "none" /\ csExit = None
    /\ exitCh = <<>> /\ bcast = 0 /\ closed = FALSE
    /\ wpc = [w \in Waiters |-> "idle"] /\ wres = [w \in Waiters |-> None]
    /\ spc = [s \in Sessions |-> "idle"] /\ wr = [s \in Sessions |-> "none"]
    /\ rd = [s \in Sessions |-> "none"] /\ serr = [s \in Sessions |-> 0]
    /\ shown = [s \in Sessions |-> None] /\ gone = [s \in Sessions |-> FALSE]
    /\ tpc = [t \in Terminators |-> "idle"]

-----------------------------------------------------------------------------
(* The Manager's Run handler, as the adapter sees it.                      *)

\* Run receives the Create: Created, or an error status (invalid request,
\* duplicate container_id, capacity, Start failure).
MgrCreate ==
    /\ create = "sent" /\ mgr = "idle"
    /\ \/ mgr' = "running" /\ grpc' = Append(grpc, Msg("created"))
       \/ mgr' = "failed" /\ grpc' = Append(grpc, Msg("err"))
    /\ UNCHANGED <<outs, termReq, csVars, wpc, wres, sessVars, tpc>>

\* The main loop forwards a line of the runner's stdout.
MgrOutput ==
    /\ mgr = "running" /\ outs < MaxOut
    /\ grpc' = Append(grpc, Msg("out")) /\ outs' = outs + 1
    /\ UNCHANGED <<mgr, termReq, csVars, wpc, wres, sessVars, tpc>>

\* Run reaches done: through a Terminate on the stream (errCh nil) or, 60 s
\* after the workload exited, through the sweeper closing the broadcast
\* channels; the adapter never heartbeats, so only the Terminate comes
\* before the 30 s heartbeat timeout.  done: sends Exit and Run returns.
MgrExit ==
    /\ mgr = "running" /\ termReq
    /\ \E c \in Codes : grpc' = grpc \o <<ExitMsg(c), Msg("eof")>>
    /\ mgr' = "exited"
    /\ UNCHANGED <<outs, termReq, csVars, wpc, wres, sessVars, tpc>>

\* No Heartbeat arrives for 30 s: Run returns DeadlineExceeded and its
\* deferred TerminateContainer stops the workload; no Exit is sent.
MgrHeartbeatTimeout ==
    /\ mgr = "running"
    /\ grpc' = Append(grpc, Msg("err")) /\ mgr' = "killed"
    /\ UNCHANGED <<outs, termReq, csVars, wpc, wres, sessVars, tpc>>

-----------------------------------------------------------------------------
(* HandleCreateContainer and manageStream.                                 *)

\* client.Run opens the stream and Send(Create) succeeds, or either fails
\* and the handler cancels and answers an error.
CreateOpen ==
    /\ create = "idle"
    /\ create' \in {"sent", "failed"}
    /\ UNCHANGED <<mgrVars, reg, ms, csExit, exitCh, bcast, closed, wpc, wres, sessVars, tpc>>

\* stream.Recv: Created registers cs and starts manageStream; an error or
\* another event makes the handler cancel and answer an error.
CreateRecv ==
    /\ create = "sent" /\ grpc # <<>>
    /\ grpc' = Tail(grpc)
    /\ IF Head(grpc).kind = "created"
          THEN create' = "registered" /\ reg' = TRUE /\ ms' = "recv"
          ELSE create' = "failed" /\ UNCHANGED <<reg, ms>>
    /\ UNCHANGED <<mgr, outs, termReq, csExit, exitCh, bcast, closed, wpc, wres, sessVars, tpc>>

\* An output event: appended to cs.stdout and offered to stdoutBroadcast
\* with a non-blocking send.
MsOutput ==
    /\ ms = "recv" /\ grpc # <<>> /\ Head(grpc).kind = "out"
    /\ grpc' = Tail(grpc)
    /\ bcast' = IF bcast < BcastCap THEN bcast + 1 ELSE bcast
    /\ UNCHANGED <<mgr, outs, termReq, create, reg, ms, csExit, exitCh, closed, wpc, wres, sessVars, tpc>>

\* Exit: record cs.exitCode, offer it to exitCh without blocking, return.
MsExit ==
    /\ ms = "recv" /\ grpc # <<>> /\ Head(grpc).kind = "exit"
    /\ grpc' = Tail(grpc)
    /\ csExit' = Head(grpc).code
    /\ exitCh' = IF exitCh = <<>> THEN <<Head(grpc).code>> ELSE exitCh
    /\ ms' = "closing"
    /\ UNCHANGED <<mgr, outs, termReq, create, reg, bcast, closed, wpc, wres, sessVars, tpc>>

\* Recv returns io.EOF or an error status: return.
MsEnd ==
    /\ ms = "recv" /\ grpc # <<>> /\ Head(grpc).kind \in {"eof", "err"}
    /\ grpc' = Tail(grpc) /\ ms' = "closing"
    /\ UNCHANGED <<mgr, outs, termReq, create, reg, csExit, exitCh, bcast, closed, wpc, wres, sessVars, tpc>>

MsRecv == MsOutput \/ MsExit \/ MsEnd

\* The deferred function: cancel the stream and close the three broadcast
\* channels, then delete the entry under streamsMu.
\* Mutant: the deferred function deletes the entry but neither cancels the
\* stream nor closes the channels.
MsCloseNoClose ==
    /\ ms = "closing" /\ ms' = "deleting"
    /\ UNCHANGED <<mgrVars, create, reg, csExit, exitCh, bcast, closed, wpc, wres, sessVars, tpc>>

MsClose ==
    /\ ms = "closing" /\ closed' = TRUE /\ ms' = "deleting"
    /\ UNCHANGED <<mgrVars, create, reg, csExit, exitCh, bcast, wpc, wres, sessVars, tpc>>

MsDelete ==
    /\ ms = "deleting" /\ reg' = FALSE /\ ms' = "done"
    /\ UNCHANGED <<mgrVars, create, csExit, exitCh, bcast, closed, wpc, wres, sessVars, tpc>>

-----------------------------------------------------------------------------
(* HandleWaitContainer.                                                    *)

\* Look cs up under streamsMu.RLock: "container not found" if absent.
WaitLookup(w) ==
    /\ wpc[w] = "idle"
    /\ wpc' = [wpc EXCEPT ![w] = IF reg THEN "select" ELSE "notfound"]
    /\ UNCHANGED <<mgrVars, csVars, wres, sessVars, tpc>>

\* select: receive the code from exitCh ...
WaitExit(w) ==
    /\ wpc[w] = "select" /\ exitCh # <<>>
    /\ wres' = [wres EXCEPT ![w] = Head(exitCh)] /\ exitCh' = <<>>
    /\ wpc' = [wpc EXCEPT ![w] = "exit"]
    /\ UNCHANGED <<mgrVars, create, reg, ms, csExit, bcast, closed, sessVars, tpc>>

\* ... or time.After(timeout) (120 s by default) fires first.
WaitTimeout(w) ==
    /\ wpc[w] = "select"
    /\ wpc' = [wpc EXCEPT ![w] = "timeout"]
    /\ UNCHANGED <<mgrVars, csVars, wres, sessVars, tpc>>

Waiter(w) == WaitLookup(w) \/ WaitExit(w) \/ WaitTimeout(w)

-----------------------------------------------------------------------------
(* HandleWebSocket: the console of an existing container.                  *)

Connected(s) == spc[s] = "running" /\ ~gone[s]

\* Look cs up; if absent write an error and return, else start the input
\* and output goroutines and block on errCh.
SessLookup(s) ==
    /\ spc[s] = "idle"
    /\ IF reg THEN /\ spc' = [spc EXCEPT ![s] = "running"]
                   /\ wr' = [wr EXCEPT ![s] = "loop"] /\ rd' = [rd EXCEPT ![s] = "loop"]
              ELSE spc' = [spc EXCEPT ![s] = "done"] /\ UNCHANGED <<wr, rd>>
    /\ UNCHANGED <<mgrVars, csVars, wpc, wres, serr, shown, gone, tpc>>

\* Output goroutine, case stdoutBroadcast with a line: WriteJSON, which
\* fails once the browser or the handler has closed the connection.
WrLine(s) ==
    /\ wr[s] = "loop" /\ bcast > 0
    /\ bcast' = bcast - 1
    /\ IF Connected(s) THEN UNCHANGED <<wr, serr>>
                       ELSE wr' = [wr EXCEPT ![s] = "ret"] /\ serr' = [serr EXCEPT ![s] = @ + 1]
    /\ UNCHANGED <<mgrVars, create, reg, ms, csExit, exitCh, closed, wpc, wres, spc, rd, shown, gone, tpc>>

\* Case of a closed broadcast channel (!ok): return without writing to
\* errCh. Once closed, the empty stderr and message channels are always
\* ready, so this case is open even while stdout still holds lines.
WrClosed(s) ==
    /\ wr[s] = "loop" /\ closed
    /\ wr' = [wr EXCEPT ![s] = "ret"]
    /\ UNCHANGED <<mgrVars, csVars, wpc, wres, spc, rd, serr, shown, gone, tpc>>

\* Case exitCh: write container:exit, send nil on errCh, return.
WrExit(s) ==
    /\ wr[s] = "loop" /\ exitCh # <<>>
    /\ exitCh' = <<>>
    /\ shown' = [shown EXCEPT ![s] = IF Connected(s) THEN Head(exitCh) ELSE None]
    /\ wr' = [wr EXCEPT ![s] = "ret"] /\ serr' = [serr EXCEPT ![s] = @ + 1]
    /\ UNCHANGED <<mgrVars, create, reg, ms, csExit, bcast, closed, wpc, wres, spc, rd, gone, tpc>>

\* Variant with a plausible bug: the input goroutine returns on a failed
\* ReadJSON without sending the error on errCh.
RdFailNoSignal(s) ==
    /\ rd[s] = "loop" /\ ~Connected(s)
    /\ rd' = [rd EXCEPT ![s] = "ret"]
    /\ UNCHANGED <<mgrVars, csVars, wpc, wres, spc, wr, serr, shown, gone, tpc>>

\* Input goroutine: ReadJSON fails once the browser or the handler closed
\* the connection: send the error on errCh and return.
RdFail(s) ==
    /\ rd[s] = "loop" /\ ~Connected(s)
    /\ rd' = [rd EXCEPT ![s] = "ret"] /\ serr' = [serr EXCEPT ![s] = @ + 1]
    /\ UNCHANGED <<mgrVars, csVars, wpc, wres, spc, wr, shown, gone, tpc>>

\* The browser sends stdin, close_stdin or terminate and stream.Send fails
\* because the stream has ended: send the error on errCh and return. (A
\* Send that succeeds changes no state of this model.)
RdSendFail(s) ==
    /\ rd[s] = "loop" /\ Connected(s) /\ ~StreamOpen
    /\ rd' = [rd EXCEPT ![s] = "ret"] /\ serr' = [serr EXCEPT ![s] = @ + 1]
    /\ UNCHANGED <<mgrVars, csVars, wpc, wres, spc, wr, shown, gone, tpc>>

\* The browser sends terminate and stream.Send(Terminate{force, 5})
\* succeeds.
RdTerminate(s) ==
    /\ rd[s] = "loop" /\ Connected(s) /\ StreamOpen /\ ~termReq
    /\ termReq' = TRUE
    /\ UNCHANGED <<grpc, mgr, outs, csVars, wpc, wres, sessVars, tpc>>

\* The handler receives from errCh, returns and its deferred conn.Close
\* closes the connection.
SessEnd(s) ==
    /\ spc[s] = "running" /\ serr[s] > 0
    /\ spc' = [spc EXCEPT ![s] = "done"] /\ serr' = [serr EXCEPT ![s] = @ - 1]
    /\ UNCHANGED <<mgrVars, csVars, wpc, wres, wr, rd, shown, gone, tpc>>

Session(s) ==
    \/ SessLookup(s) \/ WrLine(s) \/ WrClosed(s) \/ WrExit(s)
    \/ RdFail(s) \/ RdSendFail(s) \/ SessEnd(s)

\* The user closes the console.
BrowserClose(s) ==
    /\ Connected(s) /\ gone' = [gone EXCEPT ![s] = TRUE]
    /\ UNCHANGED <<mgrVars, csVars, wpc, wres, spc, wr, rd, serr, shown, tpc>>

-----------------------------------------------------------------------------
(* HandleTerminateContainer.                                               *)

TermLookup(t) ==
    /\ tpc[t] = "idle"
    /\ tpc' = [tpc EXCEPT ![t] = IF reg THEN "send" ELSE "notfound"]
    /\ UNCHANGED <<mgrVars, csVars, wpc, wres, sessVars>>

\* stream.Send(Terminate{force, 5}): success, or "failed to send terminate".
TermSend(t) ==
    /\ tpc[t] = "send"
    /\ tpc' = [tpc EXCEPT ![t] = IF StreamOpen THEN "ok" ELSE "failed"]
    /\ termReq' = (termReq \/ StreamOpen)
    /\ UNCHANGED <<grpc, mgr, outs, csVars, wpc, wres, sessVars>>

Terminator(t) == TermLookup(t) \/ TermSend(t)

-----------------------------------------------------------------------------

Manager == MgrCreate \/ MgrOutput \/ MgrExit \/ MgrHeartbeatTimeout
Adapter == CreateOpen \/ CreateRecv \/ MsRecv \/ MsClose \/ MsDelete

\* Every handler has returned and the stream is over (a session goroutine
\* may stay blocked for good: a leaked goroutine, not a stopped server).
Finished ==
    /\ create \in {"failed", "registered"} /\ ms \in {"none", "done"}
    /\ \A w \in Waiters : wpc[w] \in {"exit", "notfound", "timeout"}
    /\ \A s \in Sessions : spc[s] = "done" /\ rd[s] # "loop"
    /\ \A t \in Terminators : tpc[t] \in {"ok", "notfound", "failed"}
    /\ UNCHANGED vars

AdapterNext ==
    \/ Manager \/ Adapter
    \/ \E w \in Waiters : Waiter(w)
    \/ \E s \in Sessions : Session(s) \/ RdTerminate(s) \/ BrowserClose(s)
    \/ \E t \in Terminators : Terminator(t)

Next == AdapterNext \/ Finished

Spec == Init /\ [][Next]_vars

\* The adapter's goroutines, the Manager's handler (whose heartbeat timer
\* always fires, since this client never sends Heartbeat) and the wait
\* timeout run whenever they can; the browser and the HTTP callers get no
\* fairness.
FairSpec ==
    /\ Spec
    /\ WF_vars(Manager) /\ WF_vars(Adapter)
    /\ \A w \in Waiters : WF_vars(WaitExit(w) \/ WaitTimeout(w))
    /\ \A s \in Sessions : WF_vars(Session(s) /\ spc[s] # "idle")
    /\ \A t \in Terminators : WF_vars(TermSend(t))

-----------------------------------------------------------------------------

\* A container registered by HandleCreateContainer is always released:
\* manageStream reads the stream to its end (the Manager always ends it, if
\* only by the heartbeat timeout), never blocks on a broadcast or exitCh
\* send that no one receives, closes the channels and deletes the entry.
StreamEntryReleased == (create = "registered") ~> (~reg /\ closed)

\* Once the user closes a web console, HandleWebSocket returns and neither
\* of its goroutines stays in its loop: the input goroutine's failed
\* ReadJSON sends on errCh, which the handler needs because the output
\* goroutine's closed-channel case returns without sending, and the output
\* goroutine leaves through a failed write, exitCh or the closed channels
\* of the stream the Manager always ends.
SessionReleased ==
    \A s \in Sessions :
        gone[s] ~> (spc[s] = "done" /\ wr[s] # "loop" /\ rd[s] # "loop")

\* A web console whose browser is still connected and whose output
\* goroutine has stopped has shown the browser the exit code the Manager
\* reported for the container (HandleWebSocket's output select, competing
\* with manageStream's close and with HandleWaitContainer for exitCh).
ConsoleShowsExit ==
    \A s \in Sessions :
        (wr[s] = "ret" /\ Connected(s) /\ csExit # None) => shown[s] = csExit

=============================================================================
