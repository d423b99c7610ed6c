-------------------------- MODULE MCManagerPolicy --------------------------
(***************************************************************************)
(* Every network section of MCApiPolicies checked as the Container        *)
(* Manager hands it on: the state is the Create's network section, chosen *)
(* once; the property compares the chain its workload ends up behind with *)
(* what the rules asked for, packet by packet.                            *)
(***************************************************************************)
EXTENDS ManagerPolicy

VARIABLE api  \* the pb.NetworkConfig of the Run's Create

Pol(policy, rules, dns) == [policy |-> policy, rules |-> rules, dns |-> dns]

\* "deny" with one rule: allow tcp to 8.8.8.0/24 on port 443.
TcpOnly == Pol({"deny"}, <<ApiRule("allow", {"tcp"}, {Cidr(8, 8, 8, 0, 24)}, {443}, {})>>, <<>>)

\* "allow" with one rule: deny everything to 1.1.1.1.
DenyHost == Pol({"allow"}, <<ApiRule("deny", {}, {Host(<<1, 1, 1, 1>>)}, {}, {})>>, <<>>)

\* No policy given (deny), an allow of 10/8 on any protocol and port, and
\* an allow whose portRangeEnd is not above its start (port 22 alone).
PrivateNet == Pol({}, <<ApiRule("allow", {}, {Cidr(10, 0, 0, 0, 8)}, {}, {}),
                         ApiRule("allow", {}, {Host(<<8, 8, 8, 8>>)}, {22}, {22})>>, <<>>)

MCApiPolicies == {TcpOnly, DenyHost, PrivateNet}

Packets == [dst : {<<8, 8, 8, 8>>, <<1, 1, 1, 1>>, <<10, 0, 0, 1>>},
            proto : {"tcp", "udp"}, port : {22, 443}]

Init == api \in MCApiPolicies
Next == UNCHANGED api

\* What a rule asks for: destination (any when nil), protocol (any when
\* nil) and port range (any when nil; the start alone unless the end is
\* above it).
ApiMatches(r, pk) ==
    /\ r.dst = {} \/ NetContains(The(r.dst), pk.dst)
    /\ r.proto = {} \/ pk.proto \in r.proto
    /\ r.lo = {} \/ pk.port \in The(r.lo) .. (IF r.hi # {} /\ The(r.hi) > The(r.lo)
                                              THEN The(r.hi) ELSE The(r.lo))

Asked(action, pk) == \E i \in DOMAIN api.rules : api.rules[i].action = action /\ ApiMatches(api.rules[i], pk)

\* INV: the chain of a workload created with these rules drops every
\* packet no allow rule asks for when the policy is deny, or that a deny
\* rule asks to drop (and no allow rule allows) when it is allow; DNS port
\* 53 is open when DNS servers are given.  buildConfig forwards each rule's
\* action, protocol, destination and port range (the API's NetworkRule
\* carries all four, and toProto copies them).
ApiRulesHonoured ==
    LET chain == ChainOf(api)
    IN \A pk \in Packets :
          /\ chain.valid /\ chain.out.ok
          /\ ~(api.dns # <<>> /\ pk.port = 53)
          /\ ~Asked("allow", pk)
          /\ BuildNetworkConfig(api).policy = "deny" \/ Asked("deny", pk)
          => Verdict(chain.out.rules, pk) = "DROP"

=============================================================================
