--------------------------- MODULE ManagerPolicy ---------------------------
(***************************************************************************)
(* The network section of the runner's input as the Container Manager     *)
(* writes it (container.Container.buildConfig), from the pb.NetworkConfig *)
(* of a Run's Create (which the public API's toProto copies field by      *)
(* field), and the chain the workload then ends up behind: the runner's   *)
(* ValidateNetworkConfig and buildNetworkPolicy and the Bastion's         *)
(* ApplyRules, all operators of Firewall.                                 *)
(*                                                                         *)
(* An optional field of a pb.NetworkRule (protocol, destination,          *)
(* portRangeStart, portRangeEnd) or of the pb.NetworkConfig (the default  *)
(* policy) is a set of at most one element, {} standing for nil.  A       *)
(* Create without a network section builds the same config as one with no *)
(* rules, no default policy and no DNS servers.                           *)
(***************************************************************************)
EXTENDS Firewall

\* A pb.NetworkRule.
ApiRule(action, proto, dst, lo, hi) ==
    [action |-> action, proto |-> proto, dst |-> dst, lo |-> lo, hi |-> hi]

\* The value of a set optional field.
The(opt) == CHOOSE x \in opt : TRUE

\* The port strings of a rule: none without portRangeStart, "start-end"
\* when portRangeEnd is set and above start, "start" otherwise.
RulePorts(r) ==
    IF r.lo = {} THEN <<>>
    ELSE IF r.hi # {} /\ The(r.hi) > The(r.lo)
         THEN <<[form |-> "range", lo |-> The(r.lo), hi |-> The(r.hi)]>>
         ELSE <<[form |-> "single", lo |-> The(r.lo), hi |-> The(r.lo)]>>

\* An allow rule as a whitelist entry: its destination, 0.0.0.0/0 when
\* nil, and its ports; the protocol is not carried over.
WhitelistEntryOf(r) ==
    [cidr |-> IF r.dst = {} THEN AllIPv4 ELSE The(r.dst), ports |-> RulePorts(r)]

\* buildConfig's "network": the allow rules become the whitelist, in
\* order, and every other rule is left out; the policy is "deny" unless
\* one is given; DNS is allowed exactly when servers are given;
\* block_metadata is true and the blacklist empty.
BuildNetworkConfig(n) ==
    LET allows == SelectSeq(n.rules, LAMBDA r : r.action = "allow")
    IN [policy        |-> IF n.policy = {} THEN "deny" ELSE The(n.policy),
        blockMetadata |-> TRUE,
        allowDns      |-> n.dns # <<>>,
        dns           |-> n.dns,
        whitelist     |-> [i \in DOMAIN allows |-> WhitelistEntryOf(allows[i])],
        blacklist     |-> <<>>]

\* SetupNetworkIsolation on the runner's side of that config: whether
\* ValidateNetworkConfig accepts it, and what ApplyRules appends for the
\* policy buildNetworkPolicy makes of the validated config.
ChainOf(n) ==
    LET checked == ValidateNetworkConfig(BuildNetworkConfig(n))
    IN [valid |-> checked.ok,
        out   |-> IptablesApplyRules(BuildNetworkPolicy(checked.cfg))]

=============================================================================
