----------------------------- MODULE RunStream -----------------------------
(***************************************************************************)
(* The Container Manager's Run stream (service.Run), its workload registry *)
(* (manager.Manager) and the per-workload process wrapper                  *)
(* (container.Container).                                                  *)
(*                                                                         *)
(* Each stream s has three threads: the handler (pc), the recv goroutine   *)
(* (rpc) and the heartbeat goroutine (hb).  Each workload ID has a         *)
(* Container with its state, its runner process, the monitor goroutine    *)
(* and the one-slot exitCh.  A Container's broadcast channels are read     *)
(* only by the stream whose CreateContainer made it, so they are kept per  *)
(* stream: an ID reused after removal gets new channels.  The cleanup      *)
(* sweeper removes workloads whose CleanupAfter has passed.  Time passing, *)
(* the process exiting and the client's behaviour are environment actions.*)
(***************************************************************************)
EXTENDS Integers, Sequences, FiniteSets, TLC

CONSTANTS
    Streams,         \* Run streams; a stream with no container_id gets ID = itself
    Given,           \* a container_id clients may supply (shared by all)
    MaxContainers,   \* maxContainers of the Manager
    OutCap,          \* slots of a broadcast channel (100 in the code)
    GivenIds,        \* every client supplies container_id Given (else each may)
    Behaviours,      \* what clients may do, a subset of ClientBehaviours
    None

Ids == Streams \cup {Given}
ClientBehaviours ==
    {"CloseStdin", "StdinAfterClose", "Terminate", "HalfClose", "HeartbeatLapse", "Drop"}
Codes == {0, 1}                       \* exit code zero / non-zero
Final == {"EXITED", "FAILED", "TERMINATED"}
ContainerStates == {"NONE", "CREATED", "RUNNING"} \cup Final

VARIABLES
    reg,          \* IDs in manager.containers
    cstate,       \* Container.state.State
    proc,         \* the runner process: "none", "running", "exited"
    pcode,        \* the code the process exited with
    mon,          \* monitor goroutine: "none", "waiting", "sleeping", "done"
    mcode,        \* the exit code monitor's cmd.Wait produced
    exitCh,       \* Container.exitCh (capacity 1): a code or None
    cleanupAt,    \* CleanupAfter: "none", "set", "due"
    closed,       \* broadcast channels closed by Close(), per creating stream
    out,          \* lines buffered in stdoutBroadcast, per creating stream
    waiter,       \* a Terminate's extra cmd.Wait goroutine: none, blocked, reaped
    owner,        \* the stream whose CreateContainer created the ID's container
    pc,           \* Run handler of each stream
    cid,          \* the handler's containerID variable
    rpc,          \* recv goroutine
    hb,           \* heartbeat goroutine: "off", "on", "ended"
    errCh,        \* errCh (capacity 2)
    stdinClosed,  \* stdinCh closed by CloseStdin
    cleanupDone,  \* the handler's cleanupDone flag
    dropped,      \* the stream's context is canceled
    exitSent,     \* code sent in an Exit message, or None
    termBy,       \* streams that called TerminateContainer on each ID
    panicked      \* the Manager process crashed on a Go panic

cvars == <<reg, cstate, proc, pcode, mon, mcode, exitCh, cleanupAt, closed, out, waiter, owner>>
svars == <<pc, cid, rpc, hb, errCh, stdinClosed, cleanupDone, dropped, exitSent>>
vars == <<cvars, svars, termBy, panicked>>

\* The ID the handler works on: the supplied one, or the generated one.
IdOf(s) == IF cid[s] = None THEN s ELSE cid[s]
CtxDone(s) == dropped[s] \/ pc[s] = "returned"

-----------------------------------------------------------------------------
(* Container.Terminate as steps of a calling thread.  The first step takes *)
(* stateMu and decides; a running process is signalled and waited for.    *)

\* A cmd.Wait has reaped the process, monitor's or the one a Terminate
\* started: os.Process is done, so Signal and Kill fail with "process
\* already finished", and every other cmd.Wait on it returns.
Reaped(id) == proc[id] = "exited" /\ (mon[id] \in {"sleeping", "done"} \/ waiter[id] = "reaped")

\* Outcome of the first step: "nil", "err" or "wait".
TermOutcome(id) ==
    CASE id \notin reg                          -> "err"   \* GetContainer fails
      [] cstate[id] \in {"CREATED"} \cup Final  -> "nil"
      [] Reaped(id)                             -> "err"   \* SIGTERM fails
      [] OTHER                                  -> "wait"

\* The container's state after the first step.
TermState(id) ==
    IF id \in reg /\ cstate[id] \in {"CREATED"} \cup Final
    THEN [cstate EXCEPT ![id] = "TERMINATED"] ELSE cstate

-----------------------------------------------------------------------------
Init ==
    /\ reg = {}
    /\ cstate = [i \in Ids |-> "NONE"]
    /\ proc = [i \in Ids |-> "none"]
    /\ pcode = [i \in Ids |-> 0]
    /\ mon = [i \in Ids |-> "none"]
    /\ mcode = [i \in Ids |-> 0]
    /\ exitCh = [i \in Ids |-> None]
    /\ cleanupAt = [i \in Ids |-> "none"]
    /\ closed = [s \in Streams |-> FALSE]
    /\ out = [s \in Streams |-> 0]
    /\ waiter = [i \in Ids |-> "none"]
    /\ owner = [i \in Ids |-> None]
    /\ pc = [s \in Streams |-> "recv_first"]
    /\ cid = [s \in Streams |-> None]
    /\ rpc = [s \in Streams |-> "off"]
    /\ hb = [s \in Streams |-> "off"]
    /\ errCh = [s \in Streams |-> <<>>]
    /\ stdinClosed = [s \in Streams |-> FALSE]
    /\ cleanupDone = [s \in Streams |-> FALSE]
    /\ dropped = [s \in Streams |-> FALSE]
    /\ exitSent = [s \in Streams |-> None]
    /\ termBy = [i \in Ids |-> {}]
    /\ panicked = FALSE

Goto(s, l) == pc' = [pc EXCEPT ![s] = l]

\* The handler returns an error: the deferred terminate runs if containerID
\* is set and cleanupDone is not.
ReturnErr(s) == Goto(s, IF cid[s] # None /\ ~cleanupDone[s] THEN "defer" ELSE "returned")

-----------------------------------------------------------------------------
(* Run: first message and CreateContainer                                  *)

\* stream.Recv of the first message: a Create (with or without
\* container_id) or anything else / a receive error.
RecvFirst(s) ==
    /\ pc[s] = "recv_first"
    /\ \/ /\ ~dropped[s] /\ ~GivenIds /\ Goto(s, "create") /\ UNCHANGED cid
       \/ /\ ~dropped[s]
          /\ cid' = [cid EXCEPT ![s] = Given] /\ Goto(s, "create")
       \/ /\ ReturnErr(s) /\ UNCHANGED cid
    /\ UNCHANGED <<cvars, rpc, hb, errCh, stdinClosed, cleanupDone, dropped, exitSent, termBy, panicked>>

\* manager.CreateContainer: cap and duplicate checks and the insert, under mu.
CreateContainer(s) ==
    LET id == IdOf(s) IN
    /\ pc[s] = "create"
    /\ IF Cardinality(reg) >= MaxContainers \/ id \in reg
       THEN ReturnErr(s) /\ UNCHANGED <<cvars, termBy>>
       ELSE /\ reg' = reg \cup {id}
            /\ cstate' = [cstate EXCEPT ![id] = "CREATED"]
            /\ proc' = [proc EXCEPT ![id] = "none"]
            /\ mon' = [mon EXCEPT ![id] = "none"]
            /\ exitCh' = [exitCh EXCEPT ![id] = None]
            /\ cleanupAt' = [cleanupAt EXCEPT ![id] = "none"]
            /\ closed' = [closed EXCEPT ![s] = FALSE]
            /\ out' = [out EXCEPT ![s] = 0]
            /\ waiter' = [waiter EXCEPT ![id] = "none"]
            /\ owner' = [owner EXCEPT ![id] = s]
            /\ termBy' = [termBy EXCEPT ![id] = {}]
            /\ Goto(s, "start")
            /\ UNCHANGED <<pcode, mcode>>
    /\ UNCHANGED <<cid, rpc, hb, errCh, stdinClosed, cleanupDone, dropped, exitSent, panicked>>

\* Start fails: CreateContainer deletes the ID and returns the error.
Unregister(s) == reg' = reg \ {IdOf(s)}

\* Container.Start up to cmd.Start: the state must still be CREATED; the
\* runner process is launched (or exec fails).
StartLaunch(s) ==
    LET id == IdOf(s) IN
    /\ pc[s] = "start"
    /\ IF cstate[id] = "CREATED"
       THEN \/ /\ proc' = [proc EXCEPT ![id] = "running"]
               /\ Goto(s, "start_run")
               /\ UNCHANGED reg
            \/ /\ Unregister(s) /\ ReturnErr(s) /\ UNCHANGED proc
       ELSE Unregister(s) /\ ReturnErr(s) /\ UNCHANGED proc
    /\ UNCHANGED <<cstate, pcode, mcode, mon, exitCh, cleanupAt, closed, out, waiter, owner>>
    /\ UNCHANGED <<cid, rpc, hb, errCh, stdinClosed, cleanupDone, dropped, exitSent, termBy, panicked>>

\* State := RUNNING, then the spec is written to the runner's stdin (EPIPE
\* once the runner has exited) and readOutput and monitor are started.
StartRunning(s) ==
    LET id == IdOf(s) IN
    /\ pc[s] = "start_run"
    /\ cstate' = [cstate EXCEPT ![id] = "RUNNING"]
    /\ IF proc[id] = "running"
       THEN /\ mon' = [mon EXCEPT ![id] = "waiting"]
            /\ Goto(s, "send_created")
            /\ UNCHANGED reg
       ELSE Unregister(s) /\ ReturnErr(s) /\ UNCHANGED mon
    /\ UNCHANGED <<proc, pcode, mcode, exitCh, cleanupAt, closed, out, waiter, owner>>
    /\ UNCHANGED <<cid, rpc, hb, errCh, stdinClosed, cleanupDone, dropped, exitSent, termBy, panicked>>

\* containerID = id; Send(Created); subscribe and start the goroutines.
SendCreated(s) ==
    /\ pc[s] = "send_created"
    /\ cid' = [cid EXCEPT ![s] = IdOf(s)]
    /\ IF dropped[s]
       THEN Goto(s, "defer") /\ UNCHANGED <<rpc, hb>>
       ELSE /\ Goto(s, "loop")
            /\ rpc' = [rpc EXCEPT ![s] = "recv"]
            /\ hb' = [hb EXCEPT ![s] = "on"]
    /\ UNCHANGED <<cvars, errCh, stdinClosed, cleanupDone, dropped, exitSent, termBy, panicked>>

-----------------------------------------------------------------------------
(* Run: the main select loop and the done: label                           *)

\* A stdout line is forwarded; Send fails once the stream is gone.
LoopForward(s) ==
    /\ pc[s] = "loop" /\ out[s] > 0
    /\ out' = [out EXCEPT ![s] = @ - 1]
    /\ IF dropped[s] THEN ReturnErr(s) ELSE UNCHANGED pc
    /\ UNCHANGED <<reg, cstate, proc, pcode, mcode, mon, exitCh, cleanupAt, closed, waiter, owner>>
    /\ UNCHANGED <<cid, rpc, hb, errCh, stdinClosed, cleanupDone, dropped, exitSent, termBy, panicked>>

\* stdoutCh/stderrCh/msgCh closed (Close) -> done.
LoopClosed(s) ==
    /\ pc[s] = "loop" /\ closed[s] /\ out[s] = 0
    /\ Goto(s, "wait")
    /\ UNCHANGED <<cvars, cid, rpc, hb, errCh, stdinClosed, cleanupDone, dropped, exitSent, termBy, panicked>>

\* err := <-errCh: a non-nil error is returned, nil goes to done.
LoopErr(s) ==
    /\ pc[s] = "loop" /\ errCh[s] # <<>>
    /\ errCh' = [errCh EXCEPT ![s] = Tail(@)]
    /\ IF Head(errCh[s]) = "err" THEN ReturnErr(s) ELSE Goto(s, "wait")
    /\ UNCHANGED <<cvars, cid, rpc, hb, stdinClosed, cleanupDone, dropped, exitSent, termBy, panicked>>

\* <-stream.Context().Done() -> done.
LoopCtxDone(s) ==
    /\ pc[s] = "loop" /\ dropped[s]
    /\ Goto(s, "wait")
    /\ UNCHANGED <<cvars, cid, rpc, hb, errCh, stdinClosed, cleanupDone, dropped, exitSent, termBy, panicked>>

\* done: WaitContainer(id, 10) takes the code from exitCh; Exit is sent
\* (lost if the stream is gone); cleanupDone = true; return nil.
WaitExit(s) ==
    LET id == cid[s] IN
    /\ pc[s] = "wait" /\ id \in reg /\ exitCh[id] # None
    /\ exitCh' = [exitCh EXCEPT ![id] = None]
    /\ exitSent' = IF dropped[s] THEN exitSent ELSE [exitSent EXCEPT ![s] = exitCh[id]]
    /\ cleanupDone' = [cleanupDone EXCEPT ![s] = TRUE]
    /\ Goto(s, "returned")
    /\ UNCHANGED <<reg, cstate, proc, pcode, mcode, mon, cleanupAt, closed, out, waiter, owner>>
    /\ UNCHANGED <<cid, rpc, hb, errCh, stdinClosed, dropped, termBy, panicked>>

\* done: WaitContainer fails (ID gone) or times out after 10 s; no Exit;
\* cleanupDone = true; return nil.
WaitMiss(s) ==
    LET id == cid[s] IN
    /\ pc[s] = "wait" /\ (id \notin reg \/ exitCh[id] = None)
    /\ cleanupDone' = [cleanupDone EXCEPT ![s] = TRUE]
    /\ Goto(s, "returned")
    /\ UNCHANGED <<cvars, cid, rpc, hb, errCh, stdinClosed, dropped, exitSent, termBy, panicked>>

-----------------------------------------------------------------------------
(* The deferred terminate: TerminateContainer(containerID, true, 5)        *)

RecordTerm(s, id) == termBy' = IF id \in reg THEN [termBy EXCEPT ![id] = @ \cup {s}] ELSE termBy

\* Terminate waits on the process with a second cmd.Wait goroutine.
StartWaiter(id) == waiter' = [waiter EXCEPT ![id] = "blocked"]

DeferTerminate(s) ==
    LET id == cid[s] IN
    /\ pc[s] = "defer"
    /\ cstate' = TermState(id)
    /\ RecordTerm(s, id)
    /\ IF TermOutcome(id) = "wait"
       THEN Goto(s, "defer_wait") /\ StartWaiter(id) /\ UNCHANGED cleanupDone
       ELSE /\ Goto(s, "returned") /\ UNCHANGED waiter
            /\ cleanupDone' = [cleanupDone EXCEPT ![s] = TRUE]
    /\ UNCHANGED <<reg, proc, pcode, mcode, mon, exitCh, cleanupAt, closed, out, owner>>
    /\ UNCHANGED <<cid, rpc, hb, errCh, stdinClosed, dropped, exitSent, panicked>>

\* Kill after the timeout fails when the process has been reaped.
KillFails(id, timedOut) == timedOut /\ Reaped(id)

\* Fault variant of TermFinish: the timeout marks TERMINATED without Kill.
TermFinishNoKill(id, timedOut) ==
    /\ timedOut \/ Reaped(id)
    /\ cstate' = [cstate EXCEPT ![id] = "TERMINATED"]
    /\ UNCHANGED <<proc, pcode>>

\* The wait goroutine's done channel closes once the process is reaped, or
\* the timeout fires first and Kill is sent (the process dies with a
\* non-zero status); unless Kill failed, the state becomes TERMINATED.
TermFinish(id, timedOut) ==
    /\ timedOut \/ Reaped(id)
    /\ IF timedOut /\ proc[id] = "running"
       THEN /\ proc' = [proc EXCEPT ![id] = "exited"]
            /\ pcode' = [pcode EXCEPT ![id] = 1]
       ELSE UNCHANGED <<proc, pcode>>
    /\ cstate' = IF KillFails(id, timedOut) THEN cstate
                 ELSE [cstate EXCEPT ![id] = "TERMINATED"]

DeferWait(s, timedOut) ==
    /\ pc[s] = "defer_wait"
    /\ TermFinish(cid[s], timedOut)
    /\ Goto(s, "returned")
    /\ cleanupDone' = [cleanupDone EXCEPT ![s] = TRUE]
    /\ UNCHANGED <<reg, mon, mcode, exitCh, cleanupAt, closed, out, waiter, owner>>
    /\ UNCHANGED <<cid, rpc, hb, errCh, stdinClosed, dropped, exitSent, termBy, panicked>>

-----------------------------------------------------------------------------
(* The recv goroutine                                                      *)

SendErr(s, e) == errCh' = [errCh EXCEPT ![s] = Append(@, e)]
EndRecv(s) == rpc' = [rpc EXCEPT ![s] = "ended"]

\* CloseStdin: close(stdinCh).  Stdin before it goes to the stdin forwarder
\* and WriteStdin, whose errors are ignored: no state the model keeps.
RecvCloseStdin(s) ==
    /\ rpc[s] = "recv" /\ ~CtxDone(s) /\ ~stdinClosed[s] /\ "CloseStdin" \in Behaviours
    /\ stdinClosed' = [stdinClosed EXCEPT ![s] = TRUE]
    /\ UNCHANGED <<cvars, pc, cid, rpc, hb, errCh, cleanupDone, dropped, exitSent, termBy, panicked>>

\* Stdin (send on the closed stdinCh) or a second CloseStdin (close of a
\* closed channel) after CloseStdin: a runtime panic ends the process.
RecvAfterCloseStdin(s) ==
    /\ rpc[s] = "recv" /\ ~CtxDone(s) /\ stdinClosed[s] /\ "StdinAfterClose" \in Behaviours
    /\ panicked' = TRUE
    /\ UNCHANGED <<cvars, svars, termBy>>

\* Fault variant of RecvTerminate: after a failed TerminateContainer the
\* goroutine does not return and keeps receiving.
RecvTerminateKeepRecv(s) ==
    LET id == cid[s] IN
    /\ rpc[s] = "recv" /\ ~CtxDone(s) /\ "Terminate" \in Behaviours
    /\ cstate' = TermState(id)
    /\ RecordTerm(s, id)
    /\ CASE TermOutcome(id) = "wait" ->
              /\ rpc' = [rpc EXCEPT ![s] = "term_wait"] /\ StartWaiter(id)
              /\ UNCHANGED <<errCh, cleanupDone>>
         [] TermOutcome(id) = "nil" ->
              /\ EndRecv(s) /\ SendErr(s, "nil") /\ UNCHANGED waiter
              /\ cleanupDone' = [cleanupDone EXCEPT ![s] = TRUE]
         [] OTHER ->
              /\ SendErr(s, "err") /\ UNCHANGED <<rpc, waiter, cleanupDone>>
    /\ UNCHANGED <<reg, proc, pcode, mcode, mon, exitCh, cleanupAt, closed, out, owner>>
    /\ UNCHANGED <<pc, cid, hb, stdinClosed, dropped, exitSent, panicked>>

\* Terminate{force, timeout}: TerminateContainer; on nil cleanupDone = true
\* and errCh <- nil, on error errCh <- err; the goroutine returns.
RecvTerminate(s) ==
    LET id == cid[s] IN
    /\ rpc[s] = "recv" /\ ~CtxDone(s) /\ "Terminate" \in Behaviours
    /\ cstate' = TermState(id)
    /\ RecordTerm(s, id)
    /\ CASE TermOutcome(id) = "wait" ->
              /\ rpc' = [rpc EXCEPT ![s] = "term_wait"] /\ StartWaiter(id)
              /\ UNCHANGED <<errCh, cleanupDone>>
         [] TermOutcome(id) = "nil" ->
              /\ EndRecv(s) /\ SendErr(s, "nil") /\ UNCHANGED waiter
              /\ cleanupDone' = [cleanupDone EXCEPT ![s] = TRUE]
         [] OTHER ->
              /\ EndRecv(s) /\ SendErr(s, "err") /\ UNCHANGED <<waiter, cleanupDone>>
    /\ UNCHANGED <<reg, proc, pcode, mcode, mon, exitCh, cleanupAt, closed, out, owner>>
    /\ UNCHANGED <<pc, cid, hb, stdinClosed, dropped, exitSent, panicked>>

RecvTerminateWait(s, timedOut) ==
    /\ rpc[s] = "term_wait"
    /\ TermFinish(cid[s], timedOut)
    /\ EndRecv(s)
    /\ IF KillFails(cid[s], timedOut)
       THEN SendErr(s, "err") /\ UNCHANGED cleanupDone
       ELSE SendErr(s, "nil") /\ cleanupDone' = [cleanupDone EXCEPT ![s] = TRUE]
    /\ UNCHANGED <<reg, mon, mcode, exitCh, cleanupAt, closed, out, waiter, owner>>
    /\ UNCHANGED <<pc, cid, hb, stdinClosed, dropped, exitSent, termBy, panicked>>

\* stream.Recv returns io.EOF (the client half-closes): errCh <- nil.
RecvEOF(s) ==
    /\ rpc[s] = "recv" /\ ~CtxDone(s) /\ "HalfClose" \in Behaviours
    /\ SendErr(s, "nil")
    /\ EndRecv(s)
    /\ UNCHANGED <<cvars, pc, cid, hb, stdinClosed, cleanupDone, dropped, exitSent, termBy, panicked>>

\* stream.Recv fails once the stream context is done: errCh <- err.
RecvCtxErr(s) ==
    /\ rpc[s] = "recv" /\ CtxDone(s)
    /\ SendErr(s, "err")
    /\ EndRecv(s)
    /\ UNCHANGED <<cvars, pc, cid, hb, stdinClosed, cleanupDone, dropped, exitSent, termBy, panicked>>

\* The heartbeat goroutine's 5 s tick finds lastHeartbeat older than 30 s:
\* the client sent no Heartbeat for that long.  (A Heartbeat message only
\* moves lastHeartbeat, so the model keeps whether this tick comes.)  Once
\* the context is done the goroutine may return instead; either way the
\* loop has its own path out.
HeartbeatTimeout(s) ==
    /\ hb[s] = "on" /\ ~CtxDone(s) /\ "HeartbeatLapse" \in Behaviours
    /\ SendErr(s, "err")
    /\ hb' = [hb EXCEPT ![s] = "ended"]
    /\ UNCHANGED <<cvars, pc, cid, rpc, stdinClosed, cleanupDone, dropped, exitSent, termBy, panicked>>

-----------------------------------------------------------------------------
(* Container goroutines and the Manager's sweeper                          *)

\* readOutput: a line goes to stdoutBroadcast, dropped when it is full.
ReadOutput(id) ==
    /\ proc[id] = "running" /\ out[owner[id]] < OutCap
    /\ out' = [out EXCEPT ![owner[id]] = @ + 1]
    /\ UNCHANGED <<reg, cstate, proc, pcode, mcode, mon, exitCh, cleanupAt, closed, waiter, owner>>
    /\ UNCHANGED <<svars, termBy, panicked>>

\* The Wait goroutine of a Terminate reaps the exited process before
\* monitor's cmd.Wait does (both wait on the same exec.Cmd, a data race).
WaiterReap(id) ==
    /\ waiter[id] = "blocked" /\ proc[id] = "exited" /\ mon[id] = "waiting"
    /\ waiter' = [waiter EXCEPT ![id] = "reaped"]
    /\ UNCHANGED <<reg, cstate, proc, pcode, mcode, mon, exitCh, cleanupAt, closed, out, owner>>
    /\ UNCHANGED <<svars, termBy, panicked>>

\* monitor: cmd.Wait returns and the exit code is taken from the ExitError;
\* when a Terminate's Wait reaped the process first, monitor's Wait gets an
\* error that is not an ExitError and monitor takes exit code 1.  Then it
\* sleeps 50 ms.
MonitorWait(id) ==
    /\ mon[id] = "waiting" /\ proc[id] = "exited"
    /\ mcode' = [mcode EXCEPT ![id] = IF waiter[id] = "reaped" THEN 1 ELSE pcode[id]]
    /\ mon' = [mon EXCEPT ![id] = "sleeping"]
    /\ UNCHANGED <<reg, cstate, proc, pcode, exitCh, cleanupAt, closed, out, waiter, owner>>
    /\ UNCHANGED <<svars, termBy, panicked>>

\* Fault variant of MonitorRecord: CleanupAfter is never set.
MonitorRecordNoCleanup(id) ==
    /\ mon[id] = "sleeping"
    /\ cstate' = [cstate EXCEPT ![id] = IF mcode[id] = 0 THEN "EXITED" ELSE "FAILED"]
    /\ exitCh' = [exitCh EXCEPT ![id] = IF @ = None THEN mcode[id] ELSE @]
    /\ mon' = [mon EXCEPT ![id] = "done"]
    /\ UNCHANGED <<reg, proc, pcode, mcode, cleanupAt, closed, out, waiter, owner>>
    /\ UNCHANGED <<svars, termBy, panicked>>

\* Under stateMu: FinishedAt, ExitCode, CleanupAfter = now + 60 and the
\* state EXITED or FAILED; then a non-blocking send on exitCh.
MonitorRecord(id) ==
    /\ mon[id] = "sleeping"
    /\ cstate' = [cstate EXCEPT ![id] = IF mcode[id] = 0 THEN "EXITED" ELSE "FAILED"]
    /\ exitCh' = [exitCh EXCEPT ![id] = IF @ = None THEN mcode[id] ELSE @]
    /\ cleanupAt' = [cleanupAt EXCEPT ![id] = "set"]
    /\ mon' = [mon EXCEPT ![id] = "done"]
    /\ UNCHANGED <<reg, proc, pcode, mcode, closed, out, waiter, owner>>
    /\ UNCHANGED <<svars, termBy, panicked>>

\* cleanupExitedContainers: under mu, every container whose CleanupAfter
\* has passed is Closed (channels closed) and deleted.
SweepExited ==
    LET due == {id \in reg : cleanupAt[id] = "due"} IN
    /\ due # {}
    /\ reg' = reg \ due
    /\ closed' = [t \in Streams |-> closed[t] \/ \E id \in due : owner[id] = t]
    /\ UNCHANGED <<cstate, proc, pcode, mcode, mon, exitCh, cleanupAt, out, waiter, owner>>
    /\ UNCHANGED <<svars, termBy, panicked>>

-----------------------------------------------------------------------------
(* Environment: the runner process, time and the client                    *)

ProcessExit(id) ==
    /\ proc[id] = "running"
    /\ \E code \in Codes :
          /\ proc' = [proc EXCEPT ![id] = "exited"]
          /\ pcode' = [pcode EXCEPT ![id] = code]
    /\ UNCHANGED <<reg, cstate, mon, mcode, exitCh, cleanupAt, closed, out, waiter, owner>>
    /\ UNCHANGED <<svars, termBy, panicked>>

\* 60 s pass after monitor set CleanupAfter.
CleanupDue(id) ==
    /\ cleanupAt[id] = "set"
    /\ cleanupAt' = [cleanupAt EXCEPT ![id] = "due"]
    /\ UNCHANGED <<reg, cstate, proc, pcode, mcode, mon, exitCh, closed, out, waiter, owner>>
    /\ UNCHANGED <<svars, termBy, panicked>>

\* The connection drops (client gone, network break).
Drop(s) ==
    /\ pc[s] # "returned" /\ ~dropped[s] /\ "Drop" \in Behaviours
    /\ dropped' = [dropped EXCEPT ![s] = TRUE]
    /\ UNCHANGED <<cvars, pc, cid, rpc, hb, errCh, stdinClosed, cleanupDone, exitSent, termBy, panicked>>

-----------------------------------------------------------------------------
Handler(s) ==
    \/ RecvFirst(s) \/ CreateContainer(s) \/ StartLaunch(s) \/ StartRunning(s)
    \/ SendCreated(s) \/ LoopForward(s) \/ LoopClosed(s) \/ LoopErr(s)
    \/ LoopCtxDone(s) \/ WaitExit(s) \/ WaitMiss(s) \/ DeferTerminate(s)
    \/ \E t \in BOOLEAN : DeferWait(s, t)

Goroutines(s) == RecvCtxErr(s) \/ \E t \in BOOLEAN : RecvTerminateWait(s, t)

Client(s) ==
    \/ RecvCloseStdin(s) \/ RecvAfterCloseStdin(s) \/ RecvTerminate(s)
    \/ RecvEOF(s) \/ HeartbeatTimeout(s) \/ Drop(s)

Monitor(id) == MonitorWait(id) \/ MonitorRecord(id)

Containers(id) == Monitor(id) \/ WaiterReap(id) \/ ReadOutput(id) \/ ProcessExit(id) \/ CleanupDue(id)

\* Every stream has ended; the Manager waits for new streams.
Idle == /\ \A s \in Streams : pc[s] = "returned"
        /\ UNCHANGED vars

\* The Manager process has died of a panic: nothing runs any more.
Crashed == panicked /\ UNCHANGED vars

Next ==
    \/ /\ ~panicked
       /\ \/ \E s \in Streams : Handler(s) \/ Goroutines(s) \/ Client(s)
          \/ \E id \in Ids : Containers(id)
          \/ SweepExited
          \/ Idle
    \/ Crashed

\* Goroutines are scheduled fairly, timers fire (CleanupAfter passes) and
\* the sweeper's ticker runs; the client (including whether it keeps
\* heartbeating) and the runner process are not constrained.
Fairness ==
    /\ \A s \in Streams : WF_vars(Handler(s)) /\ WF_vars(Goroutines(s))
    /\ \A id \in Ids : WF_vars(Monitor(id)) /\ WF_vars(WaiterReap(id)) /\ WF_vars(CleanupDue(id))
    /\ WF_vars(SweepExited)

Spec == Init /\ [][Next]_vars
FairSpec == Spec /\ Fairness

-----------------------------------------------------------------------------
(* Properties                                                              *)

TypeOK ==
    /\ reg \subseteq Ids
    /\ cstate \in [Ids -> ContainerStates]
    /\ proc \in [Ids -> {"none", "running", "exited"}] /\ pcode \in [Ids -> Codes]
    /\ mon \in [Ids -> {"none", "waiting", "sleeping", "done"}] /\ mcode \in [Ids -> Codes]
    /\ exitCh \in [Ids -> Codes \cup {None}]
    /\ cleanupAt \in [Ids -> {"none", "set", "due"}]
    /\ closed \in [Streams -> BOOLEAN] /\ out \in [Streams -> 0..OutCap]
    /\ waiter \in [Ids -> {"none", "blocked", "reaped"}] /\ owner \in [Ids -> Streams \cup {None}]
    /\ cid \in [Streams -> Ids \cup {None}]
    /\ \A s \in Streams : errCh[s] \in Seq({"nil", "err"}) /\ Len(errCh[s]) <= 2
    /\ Behaviours \subseteq ClientBehaviours
    /\ exitSent \in [Streams -> Codes \cup {None}]
    /\ termBy \in [Ids -> SUBSET Streams]

\* A registered workload in state TERMINATED has no running runner process:
\* Terminate marks it only after its Wait goroutine saw the process reaped
\* or, on the timeout, after Kill succeeded, and Kill fails once monitor's
\* or that goroutine's cmd.Wait has reaped it.  This holds for a workload
\* only its own stream terminates; the deferred terminate of a second
\* stream with the same container_id breaks it during Start
\* (NoForeignTerminate, RunStreamForeign.cfg).
TerminatedMeansStopped ==
    \A id \in reg : cstate[id] = "TERMINATED" => proc[id] # "running"

\* Once the Run handler has returned, the workload it created is not running
\* ("CRITICAL: Ensure container is ALWAYS terminated when stream ends").
StreamEndStopsWorkload ==
    \A s \in Streams :
        pc[s] = "returned" /\ cid[s] # None /\ owner[cid[s]] = s => proc[cid[s]] # "running"

\* TerminateContainer is only ever applied to a workload by the stream that
\* created it.
NoForeignTerminate == \A id \in Ids : termBy[id] \subseteq {owner[id]}

\* No client message sequence crashes the Manager.
NoPanic == ~panicked

\* The Exit message carries the exit code of the runner process.
ExitCodeTruthful ==
    \A s \in Streams : exitSent[s] # None => exitSent[s] = pcode[cid[s]]

\* A stream whose runner has exited ends (or the whole Manager has died):
\* the sweeper closes the broadcast channels, the loop leaves and the
\* handler returns.
ExitedStreamEnds ==
    \A s \in Streams :
        (pc[s] = "loop" /\ proc[cid[s]] = "exited") ~> (pc[s] = "returned" \/ panicked)
=============================================================================
