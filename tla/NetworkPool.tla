---------------------------- MODULE NetworkPool ----------------------------
(***************************************************************************)
(* The Bastion's bridge-network lease pool (networkpool.Pool).             *)
(*                                                                         *)
(* Every RPC handler (Acquire, Release) and the periodic cleanup loop is a *)
(* process with a program counter; a step is the code between two points  *)
(* where another goroutine can interleave: taking or dropping              *)
(* state.mu, a call to the container engine, and the three steps of        *)
(* persist() (marshal under RLock, write the shared .tmp file, rename it   *)
(* over the state file).  The engine's networks, the state file and the    *)
(* .tmp file are variables, so a Bastion restart (Crash) reloads the pool  *)
(* from what is on disk, pruned by what the engine still has.              *)
(*                                                                         *)
(* A client is one workload calling AcquireNetwork/ReleaseNetwork with its *)
(* own container ID; holds[c] is the network it was told it holds.         *)
(***************************************************************************)
EXTENDS Integers, Sequences, FiniteSets, SequencesExt, FiniteSetsExt, Functions, TLC

CONSTANTS
    Clients,      \* workload (container) IDs that call the pool
    Cleaner,      \* the cleanupLoop goroutine
    NetNames,     \* names "iso-net-<uuid8>"; each createNetwork takes a fresh one
    Subnets,      \* candidate /24 indices 0..K-1 of the subnet allocator
    Explicit,     \* subnets a caller may name in subnet_range
    Foreign,      \* engine networks the pool does not own, by their IPAM subnet
    Auto,         \* "no subnet_range": the allocator picks one
    NoHolder,     \* CurrentContainer == nil
    None,         \* no network / no file
    MaxRetries,   \* maxRetries in createNetwork (3)
    MaxCrashes,   \* bound on Bastion restarts
    MaxAcquires,  \* bound on Acquire calls per client
    EngineCanFail \* whether engine create/remove calls may fail

ASSUME MaxRetries \in Nat \ {0} /\ MaxCrashes \in Nat /\ MaxAcquires \in Nat /\ EngineCanFail \in BOOLEAN
ASSUME Subnets \subseteq Nat /\ Explicit \subseteq Subnets
\* A foreign network's subnet is a CIDR: the candidates it overlaps, and
\* whether its string is exactly generateSubnet's "a.b.c.0/24" for the one
\* candidate it covers (any other CIDR, a /23 or a /25, is a different
\* string that still overlaps).
ASSUME Foreign \subseteq [covers: SUBSET Subnets, exact: BOOLEAN]
ASSUME \A f \in Foreign : f.exact => Cardinality(f.covers) = 1

\* A request's config hash is SHA-256(subnet_range || min_ips || driver);
\* the runner fixes min_ips and driver, so the hash is determined by the
\* subnet option and we use the option itself as the (injective) hash.
Hashes == {Auto} \cup Explicit
Procs  == Clients \cup {Cleaner}

VARIABLES
    nets,     \* state.Networks: name -> entry (domain = names present)
    index,    \* state.ConfigIndex: hash -> sequence of names
    docker,   \* engine networks owned by the pool: name (= network ID) -> subnet
    file,     \* content of network_pool.json, or None
    tmp,      \* content of network_pool.json.tmp, or None
    pc,       \* program counter of each handler / the cleaner
    lv,       \* local variables of each handler
    holds,    \* the network each client was told it holds
    fresh,    \* names no createNetwork has generated yet
    crashes,
    acquires  \* Acquire calls made by each client

vars == <<nets, index, docker, file, tmp, pc, lv, holds, fresh, crashes, acquires>>

Cleanup == {"none", "pending", "expired"}   \* CleanupAt: nil, future, past
Entry == [hash: Hashes, subnet: Subnets, holder: Clients \cup {NoHolder},
          cleanup: Cleanup]
\* f is a map from (part of) S to T.
IsMapInto(f, S, T) == DOMAIN f \subseteq S /\ \A x \in DOMAIN f : f[x] \in T
\* The file's ConfigIndex is never read back (validateNetworks rebuilds
\* it), so a snapshot is the Networks map.
IsSnapshot(x) == IsMapInto(x, NetNames, Entry)
EmptyLocals == [op |-> "none", opt |-> Auto, name |-> None, subnet |-> 0,
                attempt |-> 0, todo |-> {}, snap |-> None]

Without(f, n) == Restrict(f, DOMAIN f \ {n})

-----------------------------------------------------------------------------
(* Helpers of pool.go                                                      *)

\* findAvailableNetwork: the first name of configIndex[h] whose entry exists
\* and has no holder, or None.
FindAvailableNetwork(h) ==
    LET i == SelectInSeq(index[h], LAMBDA n : n \in DOMAIN nets /\ nets[n].holder = NoHolder)
    IN  IF i = 0 THEN None ELSE index[h][i]

\* usedSubnets of allocateSubnet: the subnet strings of the pool's entries
\* and of every engine network's IPAM config.  generateSubnet's string for
\* a candidate is in it only if some network has exactly that /24.
UsedSubnets ==
    Range(docker) \cup {nets[n].subnet : n \in DOMAIN nets}
                  \cup UNION {f.covers : f \in {g \in Foreign : g.exact}}

\* allocateSubnet: the lowest candidate whose string is not used, or None
\* when all are taken.
AllocateSubnet ==
    IF Subnets \subseteq UsedSubnets THEN None ELSE Min(Subnets \ UsedSubnets)

\* The engine refuses a network whose subnet overlaps one it already has.
EngineHasSubnet(s) == s \in Range(docker) \/ \E f \in Foreign : s \in f.covers

\* Fault variant: loaded entries are not checked against the engine.
ValidateNetworksKeepAll(st) == st

\* validateNetworks on a loaded state: drop entries whose engine network is
\* gone; configIndex is rebuilt from the remaining unheld entries, in map
\* iteration order (any order).
ValidateNetworks(st) == Restrict(st, DOMAIN st \cap DOMAIN docker)
PooledOf(st, h) == {n \in DOMAIN st : st[n].holder = NoHolder /\ st[n].hash = h}
RebuiltIndexes(st) ==
    {ix \in [Hashes -> UNION {SetToSeqs(S) : S \in SUBSET NetNames}] :
        \A h \in Hashes : ix[h] \in SetToSeqs(PooledOf(st, h))}

-----------------------------------------------------------------------------
(* Control flow helpers                                                    *)

Goto(p, to) == pc' = [pc EXCEPT ![p] = to]
SetLv(p, l) == lv' = [lv EXCEPT ![p] = l]

\* Return from the handler: a successful Acquire tells the client its network.
Reply(p, ok) ==
    /\ Goto(p, "idle")
    /\ SetLv(p, EmptyLocals)
    /\ holds' = IF p \in Clients /\ ok /\ lv[p].op = "acquire"
                THEN [holds EXCEPT ![p] = lv[p].name] ELSE holds

\* After a mutation the handler calls persist() before replying.
ToPersist(p, l) == /\ Goto(p, "p_snap") /\ SetLv(p, l)

-----------------------------------------------------------------------------
Init ==
    /\ nets = <<>>
    /\ index = [h \in Hashes |-> <<>>]
    /\ docker = <<>>
    /\ file = None
    /\ tmp = None
    /\ pc = [p \in Procs |-> "idle"]
    /\ lv = [p \in Procs |-> EmptyLocals]
    /\ holds = [c \in Clients |-> None]
    /\ fresh = NetNames
    /\ crashes = 0
    /\ acquires = [c \in Clients |-> 0]

-----------------------------------------------------------------------------
(* Acquire                                                                 *)

\* Fault variant: the reused name is left in configIndex.
AcquireReuseKeepIndex(c, h) ==
    LET n == FindAvailableNetwork(h) IN
    /\ pc[c] = "idle" /\ holds[c] = None /\ acquires[c] < MaxAcquires
    /\ acquires' = [acquires EXCEPT ![c] = @ + 1]
    /\ n # None
    /\ nets' = [nets EXCEPT ![n].holder = c, ![n].cleanup = "none"]
    /\ ToPersist(c, [EmptyLocals EXCEPT !.op = "acquire", !.opt = h, !.name = n])
    /\ UNCHANGED <<index, docker, file, tmp, holds, fresh, crashes>>

\* Under state.mu a pooled lease with this hash is reassigned to c.
AcquireReuse(c, h) ==
    LET n == FindAvailableNetwork(h) IN
    /\ pc[c] = "idle" /\ holds[c] = None /\ acquires[c] < MaxAcquires
    /\ acquires' = [acquires EXCEPT ![c] = @ + 1]
    /\ n # None
    /\ nets' = [nets EXCEPT ![n].holder = c, ![n].cleanup = "none"]
    /\ index' = [index EXCEPT ![h] = Remove(@, n)]
    /\ ToPersist(c, [EmptyLocals EXCEPT !.op = "acquire", !.opt = h, !.name = n])
    /\ UNCHANGED <<docker, file, tmp, holds, fresh, crashes>>

\* No pooled lease: drop the lock and call createNetwork with a new name.
AcquireCreate(c, h) ==
    /\ pc[c] = "idle" /\ holds[c] = None /\ acquires[c] < MaxAcquires
    /\ acquires' = [acquires EXCEPT ![c] = @ + 1]
    /\ FindAvailableNetwork(h) = None
    /\ \E n \in fresh :
          /\ fresh' = fresh \ {n}
          /\ Goto(c, "acq_alloc")
          /\ SetLv(c, [EmptyLocals EXCEPT !.op = "acquire", !.opt = h, !.name = n])
    /\ UNCHANGED <<nets, index, docker, file, tmp, holds, crashes>>

\* Top of the retry loop: the caller's subnet, or allocateSubnet.
CreateAllocate(c) ==
    /\ pc[c] = "acq_alloc"
    /\ LET s == IF lv[c].opt = Auto THEN AllocateSubnet ELSE lv[c].opt IN
       IF s = None
       THEN Reply(c, FALSE)
       ELSE /\ Goto(c, "acq_create")
            /\ SetLv(c, [lv[c] EXCEPT !.subnet = s])
            /\ UNCHANGED holds
    /\ UNCHANGED <<nets, index, docker, file, tmp, fresh, crashes, acquires>>

\* NetworkCreate succeeds.
CreateEngineOk(c) ==
    /\ pc[c] = "acq_create"
    /\ ~EngineHasSubnet(lv[c].subnet)
    /\ docker' = (lv[c].name :> lv[c].subnet) @@ docker
    /\ Goto(c, "acq_insert")
    /\ UNCHANGED <<nets, index, file, tmp, lv, holds, fresh, crashes, acquires>>

\* Fault variant: the retry loop runs to attempt < maxRetries.
CreateEngineFailOffByOne(c) ==
    /\ pc[c] = "acq_create"
    /\ EngineHasSubnet(lv[c].subnet) \/ EngineCanFail
    /\ IF EngineHasSubnet(lv[c].subnet) /\ lv[c].opt = Auto
          /\ lv[c].attempt < MaxRetries
       THEN /\ Goto(c, "acq_alloc")
            /\ SetLv(c, [lv[c] EXCEPT !.attempt = @ + 1])
            /\ UNCHANGED holds
       ELSE Reply(c, FALSE)
    /\ UNCHANGED <<nets, index, docker, file, tmp, fresh, crashes, acquires>>

\* NetworkCreate fails: an overlap with auto-allocation is retried while
\* attempts remain; any other failure ends Acquire with an error.  The
\* retry calls allocateSubnet again, which returns the same subnet unless
\* the overlapping network's string is exactly that /24.
CreateEngineFail(c) ==
    /\ pc[c] = "acq_create"
    /\ EngineHasSubnet(lv[c].subnet) \/ EngineCanFail
    /\ IF EngineHasSubnet(lv[c].subnet) /\ lv[c].opt = Auto
          /\ lv[c].attempt < MaxRetries - 1
       THEN /\ Goto(c, "acq_alloc")
            /\ SetLv(c, [lv[c] EXCEPT !.attempt = @ + 1])
            /\ UNCHANGED holds
       ELSE Reply(c, FALSE)
    /\ UNCHANGED <<nets, index, docker, file, tmp, fresh, crashes, acquires>>

\* Under state.mu the new entry, held by c, is inserted.
CreateInsert(c) ==
    /\ pc[c] = "acq_insert"
    /\ nets' = (lv[c].name :> [hash |-> lv[c].opt, subnet |-> lv[c].subnet,
                               holder |-> c, cleanup |-> "none"]) @@ nets
    /\ ToPersist(c, lv[c])
    /\ UNCHANGED <<index, docker, file, tmp, holds, fresh, crashes, acquires>>

-----------------------------------------------------------------------------
(* Release                                                                 *)

\* A workload stops using the network it releases whatever the reply; the
\* request may name any network (ReleaseNetwork is an RPC).
IssueRelease(c, n) == holds' = IF holds[c] = n THEN [holds EXCEPT ![c] = None] ELSE holds

\* Not in the pool, or not owned by c: error, nothing changes.
ReleaseRejected(c, n) ==
    /\ pc[c] = "idle"
    /\ ~(n \in DOMAIN nets /\ nets[n].holder = c)
    /\ IssueRelease(c, n)
    /\ UNCHANGED <<nets, index, docker, file, tmp, pc, lv, fresh, crashes, acquires>>

\* Fault variant: Release does not check that the caller owns the network.
ReleaseToPoolAnyCaller(c, n) ==
    /\ pc[c] = "idle"
    /\ n \in DOMAIN nets
    /\ nets' = [nets EXCEPT ![n].holder = NoHolder, ![n].cleanup = "pending"]
    /\ index' = [index EXCEPT ![nets[n].hash] = Append(@, n)]
    /\ IssueRelease(c, n)
    /\ ToPersist(c, [EmptyLocals EXCEPT !.op = "release", !.name = n])
    /\ UNCHANGED <<docker, file, tmp, fresh, crashes, acquires>>

\* Non-force: the lease goes back to the pool with a TTL and is indexed.
ReleaseToPool(c, n) ==
    /\ pc[c] = "idle"
    /\ n \in DOMAIN nets /\ nets[n].holder = c
    /\ nets' = [nets EXCEPT ![n].holder = NoHolder, ![n].cleanup = "pending"]
    /\ index' = [index EXCEPT ![nets[n].hash] = Append(@, n)]
    /\ IssueRelease(c, n)
    /\ ToPersist(c, [EmptyLocals EXCEPT !.op = "release", !.name = n])
    /\ UNCHANGED <<docker, file, tmp, fresh, crashes, acquires>>

\* Force: the holder is cleared, the lock dropped, the engine network removed.
ReleaseForce(c, n) ==
    /\ pc[c] = "idle"
    /\ n \in DOMAIN nets /\ nets[n].holder = c
    /\ nets' = [nets EXCEPT ![n].holder = NoHolder]
    /\ IssueRelease(c, n)
    /\ Goto(c, "rel_remove")
    /\ SetLv(c, [EmptyLocals EXCEPT !.op = "release", !.name = n, !.opt = nets[n].hash])
    /\ UNCHANGED <<index, docker, file, tmp, fresh, crashes, acquires>>

\* cleanupNetwork: disconnect endpoints and remove the engine network.
ReleaseEngineRemoveOk(c) ==
    /\ pc[c] = "rel_remove"
    /\ lv[c].name \in DOMAIN docker
    /\ docker' = Without(docker, lv[c].name)
    /\ Goto(c, "rel_delete")
    /\ UNCHANGED <<nets, index, file, tmp, lv, holds, fresh, crashes, acquires>>

\* NetworkRemove fails (already gone, or an engine error): Release returns
\* the error; the entry keeps no holder, no CleanupAt and no index slot.
ReleaseEngineRemoveFail(c) ==
    /\ pc[c] = "rel_remove"
    /\ lv[c].name \notin DOMAIN docker \/ EngineCanFail
    /\ Reply(c, FALSE)
    /\ UNCHANGED <<nets, index, docker, file, tmp, fresh, crashes, acquires>>

\* Under state.mu the entry and its index slot are deleted.
ReleaseDelete(c) ==
    /\ pc[c] = "rel_delete"
    /\ nets' = Without(nets, lv[c].name)
    /\ index' = [index EXCEPT ![lv[c].opt] = Remove(@, lv[c].name)]
    /\ ToPersist(c, lv[c])
    /\ UNCHANGED <<docker, file, tmp, holds, fresh, crashes, acquires>>

-----------------------------------------------------------------------------
(* runCleanup, one tick of cleanupLoop                                     *)

\* Under state.mu: every entry whose CleanupAt has passed and has no holder.
CleanupScan ==
    /\ pc[Cleaner] = "idle"
    /\ Goto(Cleaner, "cl_next")
    /\ SetLv(Cleaner, [EmptyLocals EXCEPT !.op = "cleanup", !.todo =
            {[name |-> n, hash |-> nets[n].hash] : n \in {m \in DOMAIN nets :
                nets[m].cleanup = "expired" /\ nets[m].holder = NoHolder}}])
    /\ UNCHANGED <<nets, index, docker, file, tmp, holds, fresh, crashes, acquires>>

\* Lock dropped: cleanupNetwork(item.id) for an item of the list.
CleanupRemoveOk(it) ==
    /\ pc[Cleaner] = "cl_next"
    /\ it \in lv[Cleaner].todo
    /\ it.name \in DOMAIN docker
    /\ docker' = Without(docker, it.name)
    /\ Goto(Cleaner, "cl_delete")
    /\ SetLv(Cleaner, [lv[Cleaner] EXCEPT !.todo = @ \ {it}, !.name = it.name,
                                           !.opt = it.hash])
    /\ UNCHANGED <<nets, index, file, tmp, holds, fresh, crashes, acquires>>

\* cleanupNetwork fails: the item is skipped.
CleanupRemoveFail(it) ==
    /\ pc[Cleaner] = "cl_next"
    /\ it \in lv[Cleaner].todo
    /\ it.name \notin DOMAIN docker \/ EngineCanFail
    /\ SetLv(Cleaner, [lv[Cleaner] EXCEPT !.todo = @ \ {it}])
    /\ UNCHANGED <<nets, index, docker, file, tmp, pc, holds, fresh, crashes, acquires>>

\* Under state.mu: delete the entry and its index slot, whoever holds it now.
CleanupDelete ==
    /\ pc[Cleaner] = "cl_delete"
    /\ nets' = Without(nets, lv[Cleaner].name)
    /\ index' = [index EXCEPT ![lv[Cleaner].opt] = Remove(@, lv[Cleaner].name)]
    /\ Goto(Cleaner, "cl_next")
    /\ UNCHANGED <<docker, file, tmp, lv, holds, fresh, crashes, acquires>>

\* The list is done: LastCleanup is set and the state persisted.
CleanupDone ==
    /\ pc[Cleaner] = "cl_next"
    /\ lv[Cleaner].todo = {}
    /\ ToPersist(Cleaner, lv[Cleaner])
    /\ UNCHANGED <<nets, index, docker, file, tmp, holds, fresh, crashes, acquires>>

-----------------------------------------------------------------------------
(* persist: marshal under RLock, WriteFile(.tmp), Rename(.tmp, file)       *)

PersistSnapshot(p) ==
    /\ pc[p] = "p_snap"
    /\ Goto(p, "p_write")
    /\ SetLv(p, [lv[p] EXCEPT !.snap = nets])
    /\ UNCHANGED <<nets, index, docker, file, tmp, holds, fresh, crashes, acquires>>

PersistWrite(p) ==
    /\ pc[p] = "p_write"
    /\ tmp' = lv[p].snap
    /\ Goto(p, "p_rename")
    /\ UNCHANGED <<nets, index, docker, file, lv, holds, fresh, crashes, acquires>>

\* The rename moves whatever .tmp holds now, which may be another handler's
\* snapshot; if another rename already moved it, this one fails and the
\* handler returns an error after its in-memory change.
PersistRename(p) ==
    /\ pc[p] = "p_rename"
    /\ IF tmp # None
       THEN file' = tmp /\ tmp' = None /\ Reply(p, TRUE)
       ELSE UNCHANGED <<file, tmp>> /\ Reply(p, FALSE)
    /\ UNCHANGED <<nets, index, docker, fresh, crashes, acquires>>

-----------------------------------------------------------------------------
(* Environment                                                             *)

\* Time passes beyond a pooled lease's CleanupAt (defaultTTL).
Expire(n) ==
    /\ n \in DOMAIN nets /\ nets[n].cleanup = "pending"
    /\ nets' = [nets EXCEPT ![n].cleanup = "expired"]
    /\ UNCHANGED <<index, docker, file, tmp, pc, lv, holds, fresh, crashes, acquires>>

\* The Bastion restarts: in-flight handlers are lost; NewWithConfig runs
\* loadState and validateNetworks against the engine's networks.
Restart ==
    /\ crashes < MaxCrashes
    /\ crashes' = crashes + 1
    /\ LET st == ValidateNetworks(IF file = None THEN <<>> ELSE file) IN
       /\ nets' = st
       /\ index' \in RebuiltIndexes(st)
    /\ pc' = [p \in Procs |-> "idle"]
    /\ lv' = [p \in Procs |-> EmptyLocals]
    /\ UNCHANGED <<docker, file, tmp, holds, fresh, acquires>>

-----------------------------------------------------------------------------
Next ==
    \/ \E c \in Clients, h \in Hashes : AcquireReuse(c, h) \/ AcquireCreate(c, h)
    \/ \E c \in Clients :
          \/ CreateAllocate(c) \/ CreateEngineOk(c) \/ CreateEngineFail(c)
          \/ CreateInsert(c)
          \/ ReleaseEngineRemoveOk(c) \/ ReleaseEngineRemoveFail(c)
          \/ ReleaseDelete(c)
    \/ \E c \in Clients, n \in NetNames \ fresh :
          ReleaseRejected(c, n) \/ ReleaseToPool(c, n) \/ ReleaseForce(c, n)
    \/ CleanupScan \/ CleanupDelete \/ CleanupDone
    \/ \E it \in lv[Cleaner].todo : CleanupRemoveOk(it) \/ CleanupRemoveFail(it)
    \/ \E p \in Procs : PersistSnapshot(p) \/ PersistWrite(p) \/ PersistRename(p)
    \/ \E n \in DOMAIN nets : Expire(n)
    \/ Restart

Spec == Init /\ [][Next]_vars


-----------------------------------------------------------------------------
(* Properties                                                              *)

TypeOK ==
    /\ IsMapInto(nets, NetNames, Entry)
    /\ index \in [Hashes -> Seq(NetNames)]
    /\ IsMapInto(docker, NetNames, Subnets)
    /\ file = None \/ IsSnapshot(file)
    /\ tmp = None \/ IsSnapshot(tmp)
    /\ holds \in [Clients -> NetNames \cup {None}]
    /\ fresh \subseteq NetNames /\ crashes \in 0..MaxCrashes
    /\ acquires \in [Clients -> 0..MaxAcquires]
    /\ \A p \in Procs : lv[p].attempt \in 0..MaxRetries - 1

\* ConfigIndex and Networks agree (Acquire's removeString, Release's append,
\* the cleaner's delete, validateNetworks' rebuild): an indexed name is an
\* unheld entry of that hash, indexed once, and every lease released to the
\* pool is indexed, so findAvailableNetwork can hand it out.
IndexConsistent ==
    \A h \in Hashes :
        /\ IsInjective(index[h])
        /\ \A n \in ToSet(index[h]) :
              n \in DOMAIN nets /\ nets[n].hash = h /\ nets[n].holder = NoHolder
        /\ \A n \in DOMAIN nets :
              (nets[n].hash = h /\ nets[n].holder = NoHolder /\ nets[n].cleanup # "none")
                  => Contains(index[h], n)

\* Every pool entry names an engine network that exists, except while the
\* handler that removed that network is about to delete the entry; after a
\* restart validateNetworks drops entries whose network is gone.
RemovalInFlight(n) ==
    \E p \in Procs : pc[p] \in {"rel_delete", "cl_delete"} /\ lv[p].name = n
EntriesBacked == \A n \in DOMAIN nets : n \in DOMAIN docker \/ RemovalInFlight(n)

\* A network Acquire returned to a workload is recorded as held by that
\* workload and by no other, until the workload releases it.
LeaseExclusive ==
    \A c \in Clients : holds[c] \in DOMAIN nets => nets[holds[c]].holder = c

\* The pool as its callers see it: the networks workloads were told they
\* hold, and whether the Bastion has restarted since.
Lease == INSTANCE NetworkLease WITH Networks <- NetNames, lease <- holds,
                                     trusted <- (crashes = 0)

\* The pool implements NetworkLease: until the Bastion restarts, every
\* network Acquire returns (a reused pooled lease or a new one) is held by
\* no other workload, and a workload's lease changes only by its own
\* Acquire or Release.  Release's ownership check, Acquire's removal of the
\* name from ConfigIndex and the cleaner's unheld scan all take part.
LeaseRefined == Lease!Spec

\* A network Acquire returned to a workload stays in the pool and in the
\* engine until the workload releases it.
HeldLeaseBacked ==
    \A c \in Clients : holds[c] # None => holds[c] \in DOMAIN nets \cap DOMAIN docker

\* allocateSubnet hands out a subnet the engine will refuse only when no
\* candidate is free: every candidate is in the pool or overlaps an engine
\* network.  (The comment on createNetwork's retry loop: overlaps are
\* "transient failures and race conditions".)
AllocatesFreeSubnet ==
    [][\A c \in Clients :
         (pc[c] = "acq_alloc" /\ pc'[c] = "acq_create" /\ lv[c].opt = Auto
          /\ EngineHasSubnet(lv'[c].subnet))
         => \A s \in Subnets : EngineHasSubnet(s) \/ s \in {nets[n].subnet : n \in DOMAIN nets}]_vars

\* A pool entry held by a workload is one that workload was told about, or
\* one its Acquire is still working on: Acquire does not leave a holder
\* behind when it returns an error.
HolderKnown ==
    \A n \in DOMAIN nets : LET c == nets[n].holder IN
        c # NoHolder => holds[c] = n \/ (pc[c] # "idle" /\ lv[c].name = n)
=============================================================================
