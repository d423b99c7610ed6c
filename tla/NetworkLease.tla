--------------------------- MODULE NetworkLease ----------------------------
(***************************************************************************)
(* What the Bastion's network pool promises its callers, one atomic step   *)
(* per RPC: AcquireNetwork hands a workload a network that no other        *)
(* workload holds, and ReleaseNetwork gives it back.  The pool keeps its   *)
(* leases in memory and in network_pool.json; a Bastion restart reloads    *)
(* the file, and a lease acked after the last rename of that file is not   *)
(* in it.  The promise is therefore stated up to the first restart: once   *)
(* the pool has restarted (trusted = FALSE) a grant carries no exclusivity *)
(* (the pool_stale_restart run shows why).                                 *)
(*                                                                         *)
(* NetworkPool implements this specification under the mapping            *)
(* lease <- holds, trusted <- (crashes = 0).                               *)
(***************************************************************************)

CONSTANTS
    Clients,   \* workloads that call AcquireNetwork / ReleaseNetwork
    Networks,  \* network IDs
    None       \* "holds no network"

VARIABLES
    lease,     \* the network each workload was told it holds
    trusted    \* the pool has not restarted since it made its grants

leaseVars == <<lease, trusted>>

Init ==
    /\ lease = [c \in Clients |-> None]
    /\ trusted = TRUE

\* The workloads a network is leased to.
HoldersOf(n) == {c \in Clients : lease[c] = n}

\* AcquireNetwork succeeds: a workload without a lease gets one no other
\* workload holds.
Grant(c, n) ==
    /\ lease[c] = None
    /\ trusted => HoldersOf(n) = {}
    /\ lease' = [lease EXCEPT ![c] = n]
    /\ UNCHANGED trusted

\* ReleaseNetwork: the workload stops using its network.
Return(c) ==
    /\ lease[c] # None
    /\ lease' = [lease EXCEPT ![c] = None]
    /\ UNCHANGED trusted

\* The Bastion restarts and rebuilds the pool from network_pool.json.
Forget ==
    /\ trusted
    /\ trusted' = FALSE
    /\ UNCHANGED lease

Next ==
    \/ \E c \in Clients, n \in Networks : Grant(c, n)
    \/ \E c \in Clients : Return(c)
    \/ Forget

Spec == Init /\ [][Next]_leaseVars

\* No two workloads hold the same network while the pool is trusted.
Exclusive ==
    trusted => \A c, d \in Clients : c # d /\ lease[c] # None => lease[c] # lease[d]
=============================================================================
