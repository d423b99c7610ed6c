--------------------------- MODULE IsolationRunner ---------------------------
(***************************************************************************)
(* One Isolation Runner process and the resources it acquires for its     *)
(* workload: the Docker container, the Bastion's iptables chain and the   *)
(* ResourceTracker (cmd/isolation-runner/main.go run() and main(),        *)
(* pkg/lifecycle, the container Manager and the Bastion chain RPCs).      *)
(*                                                                         *)
(* The main goroutine is a program counter `pc` over the steps of run();  *)
(* each step is one action with one disjunct per outcome of the calls it  *)
(* makes.  Docker (the workload exiting, AutoRemove), the operator        *)
(* (SIGTERM, SIGKILL) and the failures of Docker and Bastion calls are     *)
(* environment actions.  A failure is possible only if it is in Faults.   *)
(***************************************************************************)
EXTENDS Naturals, FiniteSets, Firewall

CONSTANTS
    WorkloadCodes,  \* exit codes the workload itself may exit with
    StopCode,       \* exit code of a container stopped by ContainerStop
    AutoCleanup,    \* config.Execution.AutoCleanup: HostConfig.AutoRemove
    MaxAttempts,    \* GetContainerIP polls at most this often (10 in the code)
    Faults,         \* the call failures the environment may produce
    Configs,        \* the network sections of config.Config the input may carry
    Destinations,   \* IPv4 addresses the workload may send to
    DPorts,         \* destination ports it may send to
    None

ASSUME MaxAttempts \in Nat \ {0} /\ AutoCleanup \in BOOLEAN

AllFaults == {"input", "setup", "start", "inspect", "noip", "isolation",
              "setupChainLost", "applyRules", "cleanupChain", "remove", "kill", "stop"}

ASSUME Faults \subseteq AllFaults

VARIABLES
    pc,         \* main goroutine: step of run(), or how the process ended
    attempts,   \* GetContainerIP attempts made so far
    container,  \* Docker's view of the workload container
    ccode,      \* the exit code Docker recorded for the container
    earlyExit,  \* Manager.earlyExitCode
    chain,      \* Bastion/iptables state of the workload's chain ISO-<hex>
    chainSet,   \* run()'s local chainName is non-empty
    tracked,    \* ResourceTracker.resources that are non-empty
    sg,         \* the signal goroutine of run() (lines 147-154)
    sig,        \* whether the one SIGTERM/SIGINT of a behaviour was sent
    exitCode,   \* run()'s exitCode once chosen, passed to os.Exit
    teardown,   \* none before the normal-path teardown; then ok or failed
    netcfg,     \* cfg.Network as read from stdin
    rules       \* the IPv4 rules of the workload's chain, in order

fw == <<netcfg, rules>>

vars == <<pc, attempts, container, ccode, earlyExit, chain, chainSet,
          tracked, sg, sig, exitCode, teardown, netcfg, rules>>

Steps == {"read", "setupContainer", "track", "start", "getIP", "setupChain",
          "applyRules", "notify", "wait", "cleanupChain", "remove", "returned"}

\* exited: os.Exit; signalled: killed by a SIGTERM no handler caught;
\* killed: SIGKILL (the Manager's forced Terminate).
Ended == {"exited", "signalled", "killed"}

ContainerStates == {"none", "created", "running", "exited", "removed"}

\* jump: SetupChain created the chains and the FORWARD jump, no rules yet;
\* partial: ApplyRules failed part way; applied: the full policy is in place.
ChainStates == {"none", "jump", "partial", "applied"}

\* getExitCode (main.go 192-224) applied to the error each failing step
\* returns, from its message: Docker/daemon errors give 125, bastion and
\* network errors 3, an early non-zero exit and "no IP address assigned"
\* match no keyword and fall through to ExitConfigError.
ErrCode == [input |-> 1, setup |-> 125, start |-> 125, inspect |-> 125,
            early |-> 1, noip |-> 1, isolation |-> 3]

Fail(f) == f \in Faults

Alive == pc \in Steps

Init ==
    /\ pc = "read"
    /\ attempts = 0
    /\ container = "none"
    /\ ccode = 0
    /\ earlyExit = None
    /\ chain = "none"
    /\ chainSet = FALSE
    /\ tracked = {}
    /\ sg = "none"
    /\ sig = FALSE
    /\ exitCode = None
    /\ teardown = "none"
    /\ netcfg = None
    /\ rules = <<>>

\* run() returns early with the exit code of error e.
ReturnError(e) == pc' = "returned" /\ exitCode' = ErrCode[e]

\* Manager.CreateContainer's ContainerCreate: a created, unstarted container.
CreateContainer == container' = "created"

\* Manager.StartContainer's ContainerStart.
DockerStart == container' = "running"

\* Server.SetupChain: iptables.SetupChain creates the chain in both tables
\* and the FORWARD jump for the container IP; chainIPs records the IP.
InstallChain == chain' = "jump"

\* Server.ApplyRules: iptables.ApplyRules appends the rules of `out` in
\* order and returns on the first failing check (out.ok false: the rules
\* before it stay) or failing iptables command (any prefix stays).
ApplyPolicy(out, ok) ==
    \/ ok /\ out.ok /\ chain' = "applied" /\ rules' = out.rules
    \/ ~ok /\ ~out.ok /\ chain' = "partial" /\ rules' = out.rules
    \/ /\ ~ok /\ out.ok /\ Fail("applyRules")
       /\ chain' = "partial"
       /\ \E k \in 0..Len(out.rules) : rules' = SubSeq(out.rules, 1, k)

\* What SetupNetworkIsolation makes of each configuration: whether
\* ValidateNetworkConfig accepts it, and the Bastion's compilation of
\* buildNetworkPolicy applied to the config as ValidateNetworkConfig left
\* it.  Both depend on the configuration alone.
NetworkPolicyOf ==
    [c \in Configs |->
        LET checked == ValidateNetworkConfig(c)
        IN [valid |-> checked.ok,
            out   |-> IptablesApplyRules(BuildNetworkPolicy(checked.cfg))]]

Compiled == NetworkPolicyOf[netcfg].out

\* Server.CleanupChain: delete the FORWARD jump using chainIPs, flush and
\* delete both chains, ignoring each command's error; drop the chainIPs entry.
RemoveChain == chain' = "none" /\ rules' = <<>>

\* ResourceTracker.TrackNetwork/TrackContainer/TrackChain and the
\* matching Untrack calls, each under the tracker's mutex.
Track(rs) == tracked' = tracked \cup rs
Untrack(rs) == tracked' = tracked \ rs

\* Manager.RemoveContainer: a forced ContainerRemove.
DockerRemove == container' = "removed"

\* Manager.StopContainer: ContainerStop with a 5 s grace period, then
\* SIGKILL; stopping a container that is not running changes nothing.
\* ContainerStop may also fail (daemon error, the caller's 10 s deadline)
\* and leave the workload running; StopContainer returns that error.
DockerStop ==
    \/ /\ container = "running"
       /\ container' = "exited" /\ ccode' = StopCode
    \/ container # "running" /\ UNCHANGED <<container, ccode>>
    \/ Fail("stop") /\ container = "running" /\ UNCHANGED <<container, ccode>>

\* Manager.WaitForExit: the recorded early exit code if any, else
\* ContainerWait(not-running)'s status code; for a removed container
\* ContainerWait errors and run() uses 1.
WaitResult ==
    IF earlyExit # None THEN earlyExit
    ELSE IF container = "exited" THEN ccode ELSE 1

----------------------------------------------------------------------------
(* Steps of run() *)

\* config.ReadInputFromStdin; on error run returns 1 with a nil tracker.
ReadInput ==
    /\ pc = "read"
    /\ \/ /\ pc' = "setupContainer"
          /\ \E c \in Configs : netcfg' = c
          /\ UNCHANGED exitCode
       \/ Fail("input") /\ ReturnError("input") /\ UNCHANGED netcfg
    /\ UNCHANGED <<rules, attempts, container, ccode, earlyExit, chain, chainSet,
                   tracked, sg, sig, teardown>>

\* lifecycle.SetupContainer: NewManager, CheckGVisor, bastion.Connect,
\* SetupNetworkViaBastion (always the default bridge, not via the Bastion),
\* ValidateImageSpec, then CreateContainer (pull, ContainerCreate).  Every
\* failure happens before ContainerCreate succeeds, so nothing is left.
SetupContainer ==
    /\ pc = "setupContainer"
    /\ \/ pc' = "track" /\ CreateContainer /\ UNCHANGED exitCode
       \/ Fail("setup") /\ ReturnError("setup") /\ UNCHANGED container
    /\ UNCHANGED <<fw, attempts, ccode, earlyExit, chain, chainSet, tracked, sg,
                   sig, teardown>>

\* NewResourceTracker, TrackNetwork("bridge", false), TrackContainer.
TrackResources ==
    /\ pc = "track"
    /\ pc' = "start"
    /\ Track({"network", "container"})
    /\ UNCHANGED <<fw, attempts, container, ccode, earlyExit, chain, chainSet, sg,
                   sig, exitCode, teardown>>

\* Manager.StartContainer (ContainerStart), then AttachStreams and
\* StartStdinForwarder, whose errors are only warnings.  A failed start
\* returns with the tracker, leaving the created container; starting a
\* container someone else removed fails with "No such container".
StartContainer ==
    /\ pc = "start"
    /\ \/ /\ container = "created"
          /\ pc' = "getIP"
          /\ DockerStart
          /\ UNCHANGED exitCode
       \/ /\ Fail("start") \/ container = "removed"
          /\ ReturnError("start") /\ UNCHANGED container
    /\ UNCHANGED <<fw, attempts, ccode, earlyExit, chain, chainSet, tracked, sg,
                   sig, teardown>>

\* Variants with a plausible bug: the retry bound off by one, and every
\* inspect error taken for the "No such container" skip.
GetContainerIPOffByOne ==
    /\ pc = "getIP"
    /\ attempts' = attempts + 1
    /\ \/ /\ container = "removed"
          /\ pc' = "notify"
          /\ UNCHANGED <<earlyExit, exitCode>>
       \/ /\ container = "exited"
          /\ earlyExit' = ccode
          /\ IF ccode = 0 THEN pc' = "notify" /\ UNCHANGED exitCode
                          ELSE ReturnError("early")
       \/ /\ container = "running"
          /\ \/ pc' = "setupChain" /\ UNCHANGED exitCode
             \/ /\ Fail("noip")
                /\ IF attempts + 1 <= MaxAttempts
                   THEN UNCHANGED <<pc, exitCode>>
                   ELSE ReturnError("noip")
          /\ UNCHANGED earlyExit
       \/ /\ container # "removed"
          /\ Fail("inspect")
          /\ ReturnError("inspect")
          /\ UNCHANGED earlyExit
    /\ UNCHANGED <<fw, container, ccode, chain, chainSet, tracked, sg, sig,
                   teardown>>

GetContainerIPSkipAnyError ==
    /\ pc = "getIP"
    /\ attempts' = attempts + 1
    /\ \/ /\ container = "removed"
          /\ pc' = "notify"
          /\ UNCHANGED <<earlyExit, exitCode>>
       \/ /\ container = "exited"
          /\ earlyExit' = ccode
          /\ IF ccode = 0 THEN pc' = "notify" /\ UNCHANGED exitCode
                          ELSE ReturnError("early")
       \/ /\ container = "running"
          /\ \/ pc' = "setupChain" /\ UNCHANGED exitCode
             \/ /\ Fail("noip")
                /\ IF attempts + 1 < MaxAttempts
                   THEN UNCHANGED <<pc, exitCode>>
                   ELSE ReturnError("noip")
          /\ UNCHANGED earlyExit
       \/ /\ container # "removed"
          /\ Fail("inspect")
          /\ pc' = "notify"
          /\ UNCHANGED <<earlyExit, exitCode>>
    /\ UNCHANGED <<fw, container, ccode, chain, chainSet, tracked, sg, sig,
                   teardown>>

\* One attempt of Manager.GetContainerIP (ContainerInspect), with run()'s
\* handling of its result (main.go 105-123).  "No such container" and
\* "container completed before network setup" skip network isolation.
GetContainerIP ==
    /\ pc = "getIP"
    /\ attempts' = attempts + 1
    /\ \/ /\ container = "removed"
          /\ pc' = "notify"
          /\ UNCHANGED <<earlyExit, exitCode>>
       \/ /\ container = "exited"
          /\ earlyExit' = ccode
          /\ IF ccode = 0 THEN pc' = "notify" /\ UNCHANGED exitCode
                          ELSE ReturnError("early")
       \/ /\ container = "running"
          /\ \/ pc' = "setupChain" /\ UNCHANGED exitCode
             \/ /\ Fail("noip")
                /\ IF attempts + 1 < MaxAttempts
                   THEN UNCHANGED <<pc, exitCode>>
                   ELSE ReturnError("noip")
          /\ UNCHANGED earlyExit
       \/ /\ container # "removed"
          /\ Fail("inspect")
          /\ ReturnError("inspect")
          /\ UNCHANGED earlyExit
    /\ UNCHANGED <<fw, container, ccode, chain, chainSet, tracked, sg, sig,
                   teardown>>

\* SetupNetworkIsolation up to SetupChain: ValidateNetworkConfig (which
\* changes cfg.Network in place, and whose error ends the call), then
\* bastion.Connect and the SetupChain RPC (Server.SetupChain,
\* iptables.SetupChain creates both chains and the FORWARD jump, rolling
\* back on its own failure).  The client may also get an error after the
\* server has installed the chain (30 s RPC deadline).
SetupChain ==
    /\ pc = "setupChain"
    /\ \/ ~NetworkPolicyOf[netcfg].valid /\ ReturnError("isolation") /\ UNCHANGED chain
       \/ /\ NetworkPolicyOf[netcfg].valid
          /\ \/ pc' = "applyRules" /\ InstallChain /\ UNCHANGED exitCode
             \/ Fail("isolation") /\ ReturnError("isolation") /\ UNCHANGED chain
             \/ Fail("setupChainLost") /\ ReturnError("isolation") /\ InstallChain
    /\ UNCHANGED <<fw, attempts, container, ccode, earlyExit, chainSet, tracked,
                   sg, sig, teardown>>

\* Variant with a plausible bug: chainName declared with := inside the
\* else branch, so run()'s chainName stays empty.
ApplyRulesShadowedChainName ==
    /\ pc = "applyRules"
    /\ \/ /\ ApplyPolicy(Compiled, TRUE)
          /\ pc' = "notify"
          /\ Track({"chain"})
          /\ UNCHANGED <<exitCode, chainSet>>
       \/ /\ ApplyPolicy(Compiled, FALSE)
          /\ ReturnError("isolation")
          /\ UNCHANGED <<chainSet, tracked>>
    /\ UNCHANGED <<netcfg, attempts, container, ccode, earlyExit, sg, sig,
                   teardown>>

\* The ApplyRules RPC (iptables.ApplyRules appends the rules one by one and
\* returns on the first error, leaving the chain part-filled), then
\* run()'s TrackChain and ContainerReady on success.
ApplyRules ==
    /\ pc = "applyRules"
    /\ \/ /\ ApplyPolicy(Compiled, TRUE)
          /\ pc' = "notify"
          /\ chainSet' = TRUE
          /\ Track({"chain"})
          /\ UNCHANGED exitCode
       \/ /\ ApplyPolicy(Compiled, FALSE)
          /\ ReturnError("isolation")
          /\ UNCHANGED <<chainSet, tracked>>
    /\ UNCHANGED <<netcfg, attempts, container, ccode, earlyExit, sg, sig,
                   teardown>>

\* signal.Notify(sigChan, SIGINT, SIGTERM) and the goroutine that waits
\* on sigChan.  Before this a SIGTERM kills the process.
Notify ==
    /\ pc = "notify"
    /\ pc' = "wait"
    /\ sg' = "waiting"
    /\ UNCHANGED <<fw, attempts, container, ccode, earlyExit, chain, chainSet,
                   tracked, sig, exitCode, teardown>>

\* run() blocks in Manager.WaitForExit until the container is no longer
\* running (none of its calls has a deadline), then keeps the exit code.
WaitForExit ==
    /\ pc = "wait"
    /\ container # "running"
    /\ pc' = "cleanupChain"
    /\ exitCode' = WaitResult
    /\ UNCHANGED <<fw, attempts, container, ccode, earlyExit, chain, chainSet,
                   tracked, sg, sig, teardown>>

\* If chainName is set: CleanupNetworkIsolation (Connect, CleanupChain RPC;
\* the server removes the FORWARD jump with the IP it recorded, flushes
\* and deletes both chains; failures are only warnings), then UntrackChain.
CleanupNetworkIsolation ==
    /\ pc = "cleanupChain"
    /\ pc' = "remove"
    /\ \/ /\ chainSet
          /\ \/ RemoveChain /\ teardown' = "ok"
             \/ /\ Fail("cleanupChain")
                /\ teardown' = "failed"
                /\ UNCHANGED <<chain, rules>>
          /\ Untrack({"chain"})
       \/ ~chainSet /\ teardown' = "ok" /\ UNCHANGED <<chain, rules, tracked>>
    /\ UNCHANGED <<netcfg, attempts, container, ccode, earlyExit, chainSet, sg, sig,
                   exitCode>>

\* Manager.RemoveContainer (forced; "No such container" and "removal
\* already in progress" count as success; other errors are warnings),
\* UntrackContainer, UntrackNetwork, ContainerExit, return.
RemoveContainer ==
    /\ pc = "remove"
    /\ pc' = "returned"
    /\ \/ DockerRemove /\ UNCHANGED teardown
       \/ Fail("remove") /\ container # "removed" /\ teardown' = "failed"
          /\ UNCHANGED container
    /\ Untrack({"container", "network"})
    /\ UNCHANGED <<fw, attempts, ccode, earlyExit, chain, chainSet, sg, sig,
                   exitCode>>

\* main(): exitCode, tracker = run(); os.Exit(exitCode).  os.Exit ends the
\* process at once: the deferred CleanupAll never runs.
MainExit ==
    /\ pc = "returned"
    /\ pc' = "exited"
    /\ UNCHANGED <<fw, attempts, container, ccode, earlyExit, chain, chainSet,
                   tracked, sg, sig, exitCode, teardown>>

\* The signal goroutine: <-sigChan, then Manager.StopContainer
\* (ContainerStop with a 5 s timeout, then SIGKILL) under a 10 s context;
\* its error is ignored and the goroutine ends either way.
StopContainer ==
    /\ sg = "signalled"
    /\ Alive
    /\ sg' = "done"
    /\ DockerStop
    /\ UNCHANGED <<fw, pc, attempts, earlyExit, chain, chainSet, tracked, sig,
                   exitCode, teardown>>

----------------------------------------------------------------------------
(* Environment *)

\* The workload's main process exits with code c.
WorkloadExit(c) ==
    /\ container = "running"
    /\ container' = "exited"
    /\ ccode' = c
    /\ UNCHANGED <<fw, pc, attempts, earlyExit, chain, chainSet, tracked, sg, sig,
                   exitCode, teardown>>

\* Docker removes an exited container created with AutoRemove.
AutoRemove ==
    /\ AutoCleanup
    /\ container = "exited"
    /\ container' = "removed"
    /\ UNCHANGED <<fw, pc, attempts, ccode, earlyExit, chain, chainSet, tracked,
                   sg, sig, exitCode, teardown>>

\* A SIGTERM reaches the runner (the Manager's graceful Terminate or an
\* operator).  Before signal.Notify its default action ends the process;
\* after it, the buffered sigChan wakes the signal goroutine.
Signal ==
    /\ ~sig
    /\ Alive
    /\ sig' = TRUE
    /\ \/ sg = "none" /\ pc' = "signalled" /\ UNCHANGED sg
       \/ sg = "waiting" /\ sg' = "signalled" /\ UNCHANGED pc
    /\ UNCHANGED <<fw, attempts, container, ccode, earlyExit, chain, chainSet,
                   tracked, exitCode, teardown>>

\* SIGKILL (the Manager's forced Terminate): the process ends at once.
Kill ==
    /\ Fail("kill")
    /\ Alive
    /\ pc' = "killed"
    /\ UNCHANGED <<fw, attempts, container, ccode, earlyExit, chain, chainSet,
                   tracked, sg, sig, exitCode, teardown>>

\* The process has ended and Docker has nothing left to do.
Terminated ==
    /\ pc \in Ended
    /\ UNCHANGED vars

Runner ==
    \/ ReadInput \/ SetupContainer \/ TrackResources \/ StartContainer
    \/ GetContainerIP \/ SetupChain \/ ApplyRules \/ Notify
    \/ WaitForExit \/ CleanupNetworkIsolation \/ RemoveContainer \/ MainExit

Environment ==
    \/ \E c \in WorkloadCodes : WorkloadExit(c)
    \/ AutoRemove \/ Signal \/ Kill

Next == Runner \/ StopContainer \/ Environment \/ Terminated

Spec == Init /\ [][Next]_vars

\* The runner's goroutines are scheduled by the Go runtime and keep running
\* while they can; the workload, Docker and signals get no fairness.
FairSpec == Spec /\ WF_vars(Runner) /\ WF_vars(StopContainer)

----------------------------------------------------------------------------
(* Properties *)

TypeOK ==
    /\ pc \in Steps \cup Ended
    /\ attempts \in 0..MaxAttempts
    /\ container \in ContainerStates
    /\ ccode \in WorkloadCodes \cup {0, StopCode}
    /\ earlyExit \in WorkloadCodes \cup {StopCode, None}
    /\ chain \in ChainStates
    /\ chainSet \in BOOLEAN
    /\ tracked \subseteq {"network", "container", "chain"}
    /\ sg \in {"none", "waiting", "signalled", "done"}
    /\ sig \in BOOLEAN
    /\ exitCode \in {None, 1, StopCode} \cup WorkloadCodes \cup
                     {ErrCode[e] : e \in DOMAIN ErrCode}
    /\ teardown \in {"none", "ok", "failed"}
    /\ netcfg \in Configs \cup {None}
    /\ \A i \in DOMAIN rules : /\ rules[i].action \in {"ACCEPT", "DROP"}
                              /\ rules[i].proto \in {"all", "tcp", "udp"}

\* INV: while run() supervises a running workload (from signal.Notify on),
\* the workload's chain holds the full policy.  GetContainerIP's errors
\* skip network isolation only for "No such container" and a clean early
\* exit, and SetupNetworkIsolation's errors end run(); a running container
\* is never supervised unfiltered or behind a half-applied chain.
SupervisedWorkloadFiltered ==
    (pc \in {"notify", "wait"} /\ container = "running") => chain = "applied"

\* INV: when run() has taken its normal path to os.Exit and neither
\* CleanupChain nor RemoveContainer failed, the container is removed and
\* the chain is gone: the local chainName that gates CleanupNetworkIsolation
\* is set whenever ApplyRules succeeded.
CompletedRunLeavesNothing ==
    (pc = "exited" /\ teardown = "ok") => container = "removed" /\ chain = "none"

\* A packet the workload may send.
Packets == [dst : Destinations, proto : {"tcp", "udp"}, port : DPorts]

Supervised == pc \in {"notify", "wait"} /\ container = "running"

\* Docker's embedded resolver, the one loopback address DNS may reach.
EmbeddedDNS(pk) == pk.dst = <<127, 0, 0, 11>> /\ pk.port = 53

\* INV: while run() supervises a running workload, its chain drops every
\* packet to a cloud metadata service, to link-local and to loopback
\* (but the embedded resolver), whatever the configuration asked: the
\* block_metadata flag is forced on by EnforceSecurityRules before the
\* policy is built, and the Bastion puts these drops ahead of the DNS,
\* whitelist and blacklist rules (spec 4.3 step 2, scenario 3).
MetadataUnreachable ==
    Supervised =>
        \A pk \in Packets :
            /\ \/ NetContains(LinkLocal, pk.dst)
               \/ NetContains(LocalhostIPv4, pk.dst)
               \/ pk.dst \in {<<168, 63, 129, 16>>, <<100, 100, 100, 200>>}
            /\ ~EmbeddedDNS(pk)
            => Verdict(rules, pk) = "DROP"

\* Whether the configuration's whitelist, as the user wrote it, allows pk:
\* its CIDR contains the destination and it has no ports or a port or
\* port range that contains the destination port.
Whitelisted(pk) ==
    \E i \in DOMAIN netcfg.whitelist :
        LET e == netcfg.whitelist[i]
        IN /\ NetContains(e.cidr, pk.dst)
           /\ \/ e.ports = <<>>
              \/ \E j \in DOMAIN e.ports :
                    pk.port \in e.ports[j].lo ..
                                (IF e.ports[j].form = "range" THEN e.ports[j].hi
                                                             ELSE e.ports[j].lo)

\* INV: under a deny policy the running workload's chain lets through
\* only what the whitelist allows, or DNS when allow_dns is set: the
\* runner's conversion of port strings (buildNetworkPolicy) and the
\* Bastion's per-port tcp/udp rules never widen an entry, and no packet
\* falls off the end of the chain back to Docker's FORWARD rules.
DenyAcceptsOnlyWhitelisted ==
    (Supervised /\ ToLower(netcfg.policy) = "deny") =>
        \A pk \in Packets :
            Verdict(rules, pk) # "DROP" =>
                \/ netcfg.allowDns /\ pk.port = 53
                \/ Whitelisted(pk)

\* Destinations the Bastion drops ahead of every whitelist entry: the
\* bridge subnets (step 1) and the metadata, link-local and loopback
\* drops (step 2).
DroppedAhead(pk) ==
    \/ \E i \in DOMAIN DockerBridgeSubnets : NetContains(DockerBridgeSubnets[i], pk.dst)
    \/ NetContains(LinkLocal, pk.dst)
    \/ NetContains(LocalhostIPv4, pk.dst)
    \/ pk.dst \in {<<168, 63, 129, 16>>, <<100, 100, 100, 200>>}

\* The whitelist allows pk through an entry with no ports or with the
\* single port pk.port.
WhitelistedExactly(pk) ==
    \E i \in DOMAIN netcfg.whitelist :
        LET e == netcfg.whitelist[i]
        IN /\ NetContains(e.cidr, pk.dst)
           /\ \/ e.ports = <<>>
              \/ \E j \in DOMAIN e.ports : e.ports[j].form = "single" /\ e.ports[j].lo = pk.port

\* INV: under a deny policy the supervised workload reaches, over tcp and
\* udp, every destination a whitelist entry with no ports or with a single
\* port allows, unless the Bastion's bridge or security drops come first:
\* buildNetworkPolicy's Sscanf keeps a single port, and applyNetworkRule
\* emits an ACCEPT for both protocols of it ahead of the default DROP.
\* (A port range loses all but its first port in Sscanf: see
\* PortRangeReachable below.)
WhitelistReachable ==
    (Supervised /\ ToLower(netcfg.policy) = "deny") =>
        \A pk \in Packets :
            WhitelistedExactly(pk) /\ ~DroppedAhead(pk) => Verdict(rules, pk) = "ACCEPT"

\* INV: the same for every port of a whitelisted "a-b" range, as spec
\* section 3 allows ranges; buildNetworkPolicy's fmt.Sscanf("%d") keeps
\* only "a".
PortRangeReachable ==
    (Supervised /\ ToLower(netcfg.policy) = "deny") =>
        \A pk \in Packets :
            Whitelisted(pk) /\ ~DroppedAhead(pk) => Verdict(rules, pk) = "ACCEPT"

\* PROP: a SIGTERM always ends the runner process under fair scheduling of
\* its goroutines, whatever the workload does: before signal.Notify by the
\* default action, after it through the signal goroutine's StopContainer,
\* which must make WaitForExit return so that run() tears down and exits.
\* Spec section 4: SIGINT/SIGTERM cause a graceful stop, SIGKILL on expiry.
SignalEndsRunner == sig ~> pc \in Ended

\* A container nobody will remove: Docker deletes an exited container
\* created with AutoRemove by itself, any other one stays.
ContainerLeft ==
    container \in {"created", "running"} \/ (container = "exited" /\ ~AutoCleanup)

\* INV: whenever the process ends through os.Exit, on an error return from
\* run() as on the normal path, nothing the runner created is left: no
\* container that neither run() nor Docker's AutoRemove will delete, no
\* chain.  main() defers CleanupAll "to ensure cleanup always runs, even
\* on panic"; spec 4.5 says the tracker releases whatever remains on any
\* exit path.
RunnerLeavesNothing ==
    pc = "exited" => ~ContainerLeft /\ chain = "none"

\* INV: while run() supervises a running workload, every packet to a
\* mandatory-block range (127/8, 169.254.169.254, 169.254/16, 224/4,
\* 240/4, 255.255.255.255, 0/8) but the embedded resolver is dropped.
\* Spec section 3: these ranges are always blocked, and "0.0.0.0/0" is
\* accepted in a whitelist "only because the emitted rules still drop the
\* mandatory ranges ahead of the allow"; network_security.go says the
\* same at ValidateWhitelistEntry.
MandatoryAlwaysDropped ==
    Supervised =>
        \A pk \in Packets :
            /\ \E j \in DOMAIN MandatoryBlockedRanges :
                  NetContains(MandatoryBlockedRanges[j], pk.dst)
            /\ ~EmbeddedDNS(pk)
            => Verdict(rules, pk) = "DROP"

=============================================================================
