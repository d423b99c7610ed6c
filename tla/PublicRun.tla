----------------------------- MODULE PublicRun -----------------------------
(***************************************************************************)
(* The public WebSocket API's run relay (publicapi.Server.HandleRun) as    *)
(* the client of the Container Manager's Run stream (RunStream).           *)
(*                                                                         *)
(* For each stream s a browser talks to one HandleRun handler (hpc) over a *)
(* WebSocket.  The handler opens the gRPC stream, sends Create and starts  *)
(* two goroutines: the reader (rd) relays the browser's messages as       *)
(* RunRequests, the writer (wr) relays the server's RunResponses to the    *)
(* browser.  The first goroutine to fail or                                *)
(* finish puts a value on errCh (capacity 2); the handler then CloseSends, *)
(* and its deferred cancel and conn.Close end the stream and the socket.   *)
(*                                                                         *)
(* The gRPC stream is a FIFO in each direction: req (RunRequests) and resp *)
(* (RunResponses, ended by EOF or an error status).  A RunStream step that *)
(* receives a request takes it from req; a RunStream step that sends a     *)
(* response appends it to resp (Emitted).  Heartbeat messages change no    *)
(* state either side keeps: the server's heartbeat timeout stays the       *)
(* environment action HeartbeatTimeout of RunStream.                       *)
(***************************************************************************)
EXTENDS RunStream

CONSTANTS
    MaxBrowserMsgs,  \* messages a browser sends after its create
    Window           \* RunResponses in flight before the Manager's Send blocks

VARIABLES
    hpc,     \* HandleRun: "read_first", "open", "relay", "closing", "done"
    rd,      \* reader goroutine: "off", "loop", "ret"
    wr,      \* writer goroutine: "off", "loop", "ret"
    herr,    \* values buffered in the handler's errCh
    req,     \* RunRequests sent and not yet received by the Manager
    resp,    \* RunResponses sent and not yet received by the writer
    sent,    \* browser messages after the create
    bgone,   \* the browser closed the WebSocket
    shown    \* the exit code written to the browser, or None

relayVars == <<hpc, rd, wr, herr, req, resp, sent, bgone, shown>>
allVars == <<vars, relayVars>>

Requests == {"create", "create_id", "close_stdin", "terminate", "eof"}
Resp(k, c) == [kind |-> k, code |-> c]
Responses == {Resp(k, None) : k \in {"created", "out", "eof", "err"}}
             \cup {Resp("exit", c) : c \in Codes}

RelayInit ==
    /\ Init
    /\ hpc = [s \in Streams |-> "read_first"]
    /\ rd = [s \in Streams |-> "off"]
    /\ wr = [s \in Streams |-> "off"]
    /\ herr = [s \in Streams |-> 0]
    /\ req = [s \in Streams |-> <<>>]
    /\ resp = [s \in Streams |-> <<>>]
    /\ sent = [s \in Streams |-> 0]
    /\ bgone = [s \in Streams |-> FALSE]
    /\ shown = [s \in Streams |-> None]

-----------------------------------------------------------------------------
(* The Manager's side: RunStream steps joined to the two FIFOs             *)

\* The responses a RunStream step sends on stream t: Created, a stdout
\* line (LoopForward while the stream is up), Exit, and the end of the
\* stream when the handler returns (nil after done:, an error otherwise).
Emitted(t) ==
    LET created == pc[t] = "send_created" /\ pc'[t] = "loop"
        line    == out'[t] < out[t] /\ ~dropped[t]
        exit    == exitSent'[t] # exitSent[t]
        ended   == pc[t] # "returned" /\ pc'[t] = "returned"
    IN  (IF created THEN <<Resp("created", None)>> ELSE <<>>)
        \o (IF line THEN <<Resp("out", None)>> ELSE <<>>)
        \o (IF exit THEN <<Resp("exit", exitSent'[t])>> ELSE <<>>)
        \o (IF ended THEN <<Resp(IF pc[t] = "wait" THEN "eof" ELSE "err", None)>>
            ELSE <<>>)

\* Nothing reaches a client that has canceled the stream.  gRPC flow control
\* blocks a Send while the client's receive window (Window messages) is
\* full, until the writer reads or the client cancels; the final status
\* travels in trailers, outside the window.
DataMsgs(q) == Len(SelectSeq(q, LAMBDA r : r.kind \notin {"eof", "err"}))
Emit ==
    /\ \A t \in Streams : ~dropped[t] => DataMsgs(resp[t] \o Emitted(t)) <= Window
    /\ resp' = [t \in Streams |-> IF dropped[t] THEN resp[t] ELSE resp[t] \o Emitted(t)]

\* A RunStream step that receives no request.
ServerStep(A) ==
    /\ A /\ Emit
    /\ UNCHANGED <<hpc, rd, wr, herr, req, sent, bgone, shown>>

\* The recv goroutine's stream.Recv returns the request at the head of req.
Takes(s, msgs) ==
    /\ req[s] # <<>> /\ Head(req[s]) \in msgs
    /\ req' = [req EXCEPT ![s] = Tail(@)]

ServerRecv(s, A, msgs) ==
    /\ A /\ Takes(s, msgs) /\ Emit
    /\ UNCHANGED <<hpc, rd, wr, herr, sent, bgone, shown>>

\* The first Recv: the relay's Create, with container_id when the browser
\* gave one.  RecvFirst's error branch is taken once the stream is
\* canceled before the Create arrives.
FirstRecv(s) ==
    \/ /\ RecvFirst(s) /\ pc'[s] = "create"
       /\ Takes(s, {IF cid'[s] = Given THEN "create_id" ELSE "create"})
       /\ Emit /\ UNCHANGED <<hpc, rd, wr, herr, sent, bgone, shown>>
    \/ /\ dropped[s] /\ RecvFirst(s) /\ pc'[s] # "create"
       /\ ServerStep(TRUE) /\ UNCHANGED req

ServerHandler(s) ==
    \/ FirstRecv(s)
    \/ ServerStep(CreateContainer(s) \/ StartLaunch(s) \/ StartRunning(s)
                  \/ SendCreated(s) \/ LoopForward(s) \/ LoopClosed(s)
                  \/ LoopErr(s) \/ LoopCtxDone(s) \/ WaitExit(s) \/ WaitMiss(s)
                  \/ DeferTerminate(s) \/ \E t \in BOOLEAN : DeferWait(s, t))

ServerGoroutines(s) ==
    \/ ServerStep(Goroutines(s))
    \/ ServerRecv(s, RecvCloseStdin(s), {"close_stdin"})
    \/ ServerRecv(s, RecvAfterCloseStdin(s), {"close_stdin"})
    \/ ServerRecv(s, RecvTerminate(s), {"terminate"})
    \/ ServerRecv(s, RecvEOF(s), {"eof"})

ServerEnv(s) == ServerStep(HeartbeatTimeout(s))

-----------------------------------------------------------------------------
(* HandleRun and its two goroutines                                        *)

\* The WebSocket is open: the browser has not closed it and the deferred
\* conn.Close has not run.
ConnOpen(s) == ~bgone[s] /\ hpc[s] # "done"

\* stream.Send fails once the client's context is canceled, and may fail
\* (or be accepted and lost) once the Manager's handler has returned or the
\* Manager has died.
SendMayFail(s) == dropped[s] \/ pc[s] = "returned" \/ panicked

SignalErr(s) == herr' = [herr EXCEPT ![s] = @ + 1]
RdReturn(s) == rd' = [rd EXCEPT ![s] = "ret"]
WrReturn(s) == wr' = [wr EXCEPT ![s] = "ret"]

\* conn.ReadJSON of the first message.  A create (with or without
\* containerId) whose config toProto accepts goes on; a read error, another
\* type or a config without an image is answered with an error message and
\* the handler returns before any gRPC stream exists.
RelayFirst(s) ==
    /\ hpc[s] = "read_first"
    /\ \/ /\ ~bgone[s]
          /\ hpc' = [hpc EXCEPT ![s] = "open"]
       \/ hpc' = [hpc EXCEPT ![s] = "done"]
    /\ UNCHANGED <<vars, rd, wr, herr, req, resp, sent, bgone, shown>>

\* client.Run and stream.Send(Create); on success errCh is made and both
\* goroutines start.  Either call failing ends the handler with an error
\* message; the Manager never receives the Create.
RelayOpen(s) ==
    /\ hpc[s] = "open"
    /\ \/ /\ \E m \in IF GivenIds THEN {"create_id"} ELSE {"create", "create_id"} : req' = [req EXCEPT ![s] = <<m>>]
          /\ hpc' = [hpc EXCEPT ![s] = "relay"]
          /\ rd' = [rd EXCEPT ![s] = "loop"] /\ wr' = [wr EXCEPT ![s] = "loop"]
       \/ /\ hpc' = [hpc EXCEPT ![s] = "done"]
          /\ UNCHANGED <<req, rd, wr>>
    /\ UNCHANGED <<vars, herr, resp, sent, bgone, shown>>

\* Reader: the browser sends close_stdin or terminate, relayed as the
\* RunRequest of that type; a failed Send goes to errCh and the reader
\* returns.  Stdin and heartbeat messages are relayed the same way but
\* change no state the model keeps before close_stdin; after it, stdin
\* panics the Manager exactly as a second close_stdin does, which the
\* model keeps.
RdRelay(s, m) ==
    /\ rd[s] = "loop" /\ ConnOpen(s) /\ sent[s] < MaxBrowserMsgs
    /\ sent' = [sent EXCEPT ![s] = @ + 1]
    /\ \/ SendMayFail(s) /\ SignalErr(s) /\ RdReturn(s) /\ UNCHANGED req
       \/ ~dropped[s] /\ req' = [req EXCEPT ![s] = Append(@, m)] /\ UNCHANGED <<herr, rd>>
    /\ UNCHANGED <<vars, hpc, wr, resp, bgone, shown>>

\* Reader: ReadJSON fails once the browser or the handler closed the socket.
RdFail(s) ==
    /\ rd[s] = "loop" /\ ~ConnOpen(s)
    /\ SignalErr(s) /\ RdReturn(s)
    /\ UNCHANGED <<vars, hpc, wr, req, resp, sent, bgone, shown>>

\* Fault variant of WrRecv: after writing Exit the writer returns without
\* errCh <- nil.
WrRecvExitNoSignal(s) ==
    LET r == Head(resp[s]) IN
    /\ wr[s] = "loop" /\ resp[s] # <<>>
    /\ resp' = [resp EXCEPT ![s] = Tail(@)]
    /\ IF r.kind \in {"created", "out"} /\ ConnOpen(s)
       THEN UNCHANGED <<wr, herr>>
       ELSE IF r.kind = "exit" /\ ConnOpen(s) THEN WrReturn(s) /\ UNCHANGED herr
            ELSE SignalErr(s) /\ WrReturn(s)
    /\ shown' = IF r.kind = "exit" /\ ConnOpen(s) THEN [shown EXCEPT ![s] = r.code] ELSE shown
    /\ UNCHANGED <<vars, hpc, rd, req, sent, bgone>>

\* Writer: stream.Recv returns the next response.  Created and output are
\* written to the socket (a failed write ends the writer with errCh <- err);
\* Exit is written and then errCh <- nil (or the write error); EOF gives
\* errCh <- nil and an error status errCh <- err.  Every case but a
\* successful Created or output write returns.
WrRecv(s) ==
    LET r == Head(resp[s]) IN
    /\ wr[s] = "loop" /\ resp[s] # <<>>
    /\ resp' = [resp EXCEPT ![s] = Tail(@)]
    /\ IF r.kind \in {"created", "out"} /\ ConnOpen(s)
       THEN UNCHANGED <<wr, herr>>
       ELSE SignalErr(s) /\ WrReturn(s)
    /\ shown' = IF r.kind = "exit" /\ ConnOpen(s) THEN [shown EXCEPT ![s] = r.code] ELSE shown
    /\ UNCHANGED <<vars, hpc, rd, req, sent, bgone>>

\* Writer: Recv fails because the stream's context is canceled or the
\* connection to the Manager is gone.
WrBroken(s) ==
    /\ wr[s] = "loop" /\ (dropped[s] \/ panicked)
    /\ SignalErr(s) /\ WrReturn(s)
    /\ UNCHANGED <<vars, hpc, rd, req, resp, sent, bgone, shown>>

\* <-errCh, then stream.CloseSend: the Manager's Recv will return io.EOF.
RelayEnd(s) ==
    /\ hpc[s] = "relay" /\ herr[s] > 0
    /\ herr' = [herr EXCEPT ![s] = @ - 1]
    /\ req' = [req EXCEPT ![s] = Append(@, "eof")]
    /\ hpc' = [hpc EXCEPT ![s] = "closing"]
    /\ UNCHANGED <<vars, rd, wr, resp, sent, bgone, shown>>

\* The deferred cancel() and conn.Close(): the stream's context is done.
RelayCancel(s) ==
    /\ hpc[s] = "closing"
    /\ hpc' = [hpc EXCEPT ![s] = "done"]
    /\ dropped' = [dropped EXCEPT ![s] = TRUE]
    /\ UNCHANGED <<cvars, pc, cid, rpc, hb, errCh, stdinClosed, cleanupDone, exitSent>>
    /\ UNCHANGED <<termBy, panicked, rd, wr, herr, req, resp, sent, bgone, shown>>

\* The user closes the page.
BrowserLeave(s) ==
    /\ ~bgone[s]
    /\ bgone' = [bgone EXCEPT ![s] = TRUE]
    /\ UNCHANGED <<vars, hpc, rd, wr, herr, req, resp, sent, shown>>

Relay(s) ==
    \/ RelayOpen(s) \/ RelayEnd(s) \/ RelayCancel(s)
    \/ RdFail(s) \/ WrRecv(s) \/ WrBroken(s)

Browser(s) ==
    \/ RelayFirst(s) \/ BrowserLeave(s)
    \/ \E m \in {"close_stdin", "terminate"} : RdRelay(s, m)

-----------------------------------------------------------------------------
\* Every relay has returned and its Manager stream is over or was never
\* opened; nothing more happens.
RelayIdle ==
    /\ \A s \in Streams : hpc[s] = "done" /\ pc[s] \in {"recv_first", "returned"}
                          /\ rd[s] # "loop" /\ wr[s] # "loop"
    /\ UNCHANGED allVars

\* The Manager process has died of a panic; only the relays run on.
RelayCrashed == panicked /\ \A s \in Streams : hpc[s] = "done" /\ rd[s] # "loop" /\ wr[s] # "loop"
                /\ UNCHANGED allVars

RelayNext ==
    \/ /\ ~panicked
       /\ \/ \E s \in Streams : ServerHandler(s) \/ ServerGoroutines(s) \/ ServerEnv(s)
          \/ \E id \in Ids : ServerStep(Containers(id))
          \/ ServerStep(SweepExited)
    \/ \E s \in Streams : Relay(s) \/ Browser(s)
    \/ RelayIdle \/ RelayCrashed

\* The Manager's goroutines, timers and sweeper (RunStream's fairness) and
\* the recv goroutine's handling of a request that has arrived; the relay
\* handler and its goroutines, and ReadJSON failing on a closed socket.
\* The browser (what it sends, when it leaves) and the heartbeat lapse get
\* none.
RelayFairness ==
    /\ \A s \in Streams :
          /\ WF_allVars(~panicked /\ ServerHandler(s))
          /\ WF_allVars(~panicked /\ ServerGoroutines(s))
          /\ WF_allVars(Relay(s))
          /\ WF_allVars(RelayFirst(s) /\ bgone[s])
    /\ \A id \in Ids : WF_allVars(~panicked /\ ServerStep(Monitor(id)))
                       /\ WF_allVars(~panicked /\ ServerStep(WaiterReap(id)))
                       /\ WF_allVars(~panicked /\ ServerStep(CleanupDue(id)))
    /\ WF_allVars(~panicked /\ ServerStep(SweepExited))

RelaySpec == RelayInit /\ [][RelayNext]_allVars /\ RelayFairness

-----------------------------------------------------------------------------
(* Properties                                                              *)

RelayTypeOK ==
    /\ TypeOK
    /\ hpc \in [Streams -> {"read_first", "open", "relay", "closing", "done"}]
    /\ rd \in [Streams -> {"off", "loop", "ret"}] /\ wr \in [Streams -> {"off", "loop", "ret"}]
    /\ herr \in [Streams -> 0..2]
    /\ req \in [Streams -> Seq(Requests)] /\ resp \in [Streams -> Seq(Responses)] /\ \A s \in Streams : DataMsgs(resp[s]) <= Window
    /\ sent \in [Streams -> 0..MaxBrowserMsgs] /\ bgone \in [Streams -> BOOLEAN]
    /\ shown \in [Streams -> Codes \cup {None}]

\* Once the Manager's stream has ended (or the Manager died) or the browser
\* has left, HandleRun returns and neither of its goroutines is left
\* blocked: the end reaches the writer or the reader, errCh has room for
\* both, and the handler's CloseSend, cancel and conn.Close release the
\* other one.
RelayReleased ==
    \A s \in Streams :
        (hpc[s] # "read_first" /\ (pc[s] = "returned" \/ panicked \/ bgone[s]))
            ~> (hpc[s] = "done" /\ rd[s] # "loop" /\ wr[s] # "loop")
=============================================================================
