---------------------------- MODULE OrphanSweep ----------------------------
(***************************************************************************)
(* The orphan cleaner (cmd/cleanup-orphans) run while an Isolation Runner *)
(* is alive.  The cleaner lists every container labelled                   *)
(* managed-by=isolation-runner once and then acts on that snapshot: a     *)
(* container that is not running is force-removed, a running one older    *)
(* than maxAge (24 h) is stopped and then force-removed, a recent running *)
(* one is kept.  Between the list and the act the runner goes on: the     *)
(* snapshot of a created container may be a running one by the time the  *)
(* cleaner removes it.                                                     *)
(*                                                                         *)
(* The runner's steps are those of IsolationRunner; the cleaner is one    *)
(* more process beside Docker, the operator and the workload.  It gets no *)
(* fairness: an operator may never run it.                                *)
(***************************************************************************)
EXTENDS IsolationRunner

VARIABLE
    orphan  \* the cleaner: idle, its decision for the runner's container, done

sweepVars == <<vars, orphan>>

SweepInit == Init /\ orphan = "idle"

\* ContainerList(All, label filter): a container that exists is in the
\* list; one not running is to be cleaned, a running one only if its
\* creation-timestamp is older than maxAge (either may hold).
OrphanList ==
    /\ orphan = "idle"
    /\ orphan' \in CASE container \in {"created", "exited"} -> {"remove"}
                     [] container = "running"             -> {"stop", "done"}
                     [] OTHER                             -> {"done"}
    /\ UNCHANGED vars

\* ContainerStop with a 5 s timeout; a container that is gone by now makes
\* it fail and the cleaner skips to the next container.
OrphanStop ==
    /\ orphan = "stop"
    /\ \/ container # "removed" /\ DockerStop /\ orphan' = "remove"
       \/ container = "removed" /\ orphan' = "done" /\ UNCHANGED <<container, ccode>>
    /\ UNCHANGED <<fw, pc, attempts, earlyExit, chain, chainSet, tracked, sg, sig,
                   exitCode, teardown>>

\* ContainerRemove with Force: whatever the container's state is now, it
\* is killed if running and removed.
OrphanRemove ==
    /\ orphan = "remove"
    /\ orphan' = "done"
    /\ DockerRemove
    /\ UNCHANGED <<fw, pc, attempts, ccode, earlyExit, chain, chainSet, tracked,
                   sg, sig, exitCode, teardown>>

Sweep == OrphanList \/ OrphanStop \/ OrphanRemove

SweepNext == (Next /\ UNCHANGED orphan) \/ Sweep

\* The runner's goroutines keep their fairness; the cleaner has none.
SweepSpec ==
    /\ SweepInit /\ [][SweepNext]_sweepVars
    /\ WF_sweepVars(Runner /\ UNCHANGED orphan)
    /\ WF_sweepVars(StopContainer /\ UNCHANGED orphan)

SweepTypeOK == TypeOK /\ orphan \in {"idle", "remove", "stop", "done"}
=============================================================================
