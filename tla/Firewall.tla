------------------------------- MODULE Firewall -------------------------------
(***************************************************************************)
(* The network policy of one workload, from the runner's configuration to *)
(* the IPv4 rules of its iptables chain, as pure operators:               *)
(*                                                                         *)
(*   - the runner's security checks (pkg/config/network_security.go):     *)
(*     ValidateWhitelistEntry, EnforceSecurityRules, ValidateNetworkConfig;*)
(*   - lifecycle.buildNetworkPolicy, the config -> protobuf conversion;   *)
(*   - the Bastion's rule compiler iptables.ApplyRules/applyNetworkRule   *)
(*     with its validation package checks;                                *)
(*   - the verdict iptables gives a packet that jumps to the chain.       *)
(*                                                                         *)
(* An IPv4 address is a 4-tuple of octets and a CIDR a record [ip, len];  *)
(* a length past 32 stands for a string net.ParseCIDR rejects.  The       *)
(* container address is always IPv4 (validation.ValidateContainerIP) and  *)
(* its FORWARD jump is in the IPv4 table only, so the ip6tables rules     *)
(* never see its traffic and are left out; so are the IPv6 entries of the *)
(* mandatory list, which overlap no IPv4 network.                         *)
(***************************************************************************)
EXTENDS Naturals, Sequences

LOCAL INSTANCE SequencesExt

Cidr(a, b, c, d, l) == [ip |-> <<a, b, c, d>>, len |-> l]

Host(addr) == [ip |-> addr, len |-> 32]

\* net.ParseCIDR succeeds.
Parses(c) == c.len \in 0..32

\* The network address net.ParseCIDR returns: the bits past the prefix cleared.
Masked(ip, len) ==
    [i \in 1..4 |->
        LET kept == IF len >= 8 * i THEN 8
                    ELSE IF len <= 8 * (i - 1) THEN 0 ELSE len - 8 * (i - 1)
            unit == 2 ^ (8 - kept)
        IN (ip[i] \div unit) * unit]

\* net.IPNet.Contains.
NetContains(n, addr) == Masked(addr, n.len) = Masked(n.ip, n.len)

\* networksOverlap: either network contains the other's network address.
NetworksOverlap(n1, n2) ==
    \/ NetContains(n1, Masked(n2.ip, n2.len))
    \/ NetContains(n2, Masked(n1.ip, n1.len))

\* The literal "0.0.0.0/0" (and the any-destination of an iptables rule).
AllIPv4 == Cidr(0, 0, 0, 0, 0)

LocalhostIPv4 == Cidr(127, 0, 0, 0, 8)
CloudMetadata == Cidr(169, 254, 169, 254, 32)
LinkLocal     == Cidr(169, 254, 0, 0, 16)
Multicast     == Cidr(224, 0, 0, 0, 4)
Reserved240   == Cidr(240, 0, 0, 0, 4)
Broadcast     == Cidr(255, 255, 255, 255, 32)
ZeroConf      == Cidr(0, 0, 0, 0, 8)

MandatoryBlockedRanges ==
    <<LocalhostIPv4, CloudMetadata, LinkLocal, Multicast, Reserved240,
      Broadcast, ZeroConf>>

PrivateRanges ==
    <<Cidr(10, 0, 0, 0, 8), Cidr(172, 16, 0, 0, 12), Cidr(192, 168, 0, 0, 16)>>

----------------------------------------------------------------------------
(* The runner: pkg/config/network_security.go and lifecycle               *)

\* A whitelist port string: "n" (single), "a-b" (range) or one fmt.Sscanf
\* cannot read (junk).
PortSpecOK(p) ==
    CASE p.form = "single" -> p.lo \in 1..65535
      [] p.form = "range"  -> /\ p.lo \in 1..65535
                              /\ p.hi \in 1..65535
                              /\ p.hi > p.lo
      [] p.form = "junk"   -> FALSE

\* ValidateWhitelistEntry: the CIDR parses; the literal "0.0.0.0/0" is
\* accepted at once (its ports unchecked); any other entry must overlap no
\* mandatory range and have valid ports.
ValidateWhitelistEntry(e) ==
    /\ Parses(e.cidr)
    /\ \/ e.cidr = AllIPv4
       \/ /\ \A b \in ToSet(MandatoryBlockedRanges) : ~NetworksOverlap(e.cidr, b)
          /\ \A i \in DOMAIN e.ports : PortSpecOK(e.ports[i])

\* filterPrivateRanges: the private ranges no parsable whitelist entry overlaps.
FilterPrivateRanges(wl) ==
    SelectSeq(PrivateRanges,
              LAMBDA r : ~\E i \in DOMAIN wl :
                            Parses(wl[i].cidr) /\ NetworksOverlap(r, wl[i].cidr))

\* deduplicateBlacklist: the first entry of each CIDR, in order.
DeduplicateBlacklist(bl) ==
    FoldLeft(LAMBDA acc, c : IF c \in ToSet(acc) THEN acc ELSE Append(acc, c),
             <<>>, bl)

\* Variant with a plausible bug: BlockMetadata left as the input set it.
EnforceSecurityRulesNoForce(nc) ==
    IF \A i \in DOMAIN nc.whitelist : ValidateWhitelistEntry(nc.whitelist[i])
    THEN [ok |-> TRUE,
          cfg |-> [nc EXCEPT !.blacklist =
                     DeduplicateBlacklist(nc.blacklist \o MandatoryBlockedRanges
                                          \o FilterPrivateRanges(nc.whitelist))]]
    ELSE [ok |-> FALSE, cfg |-> nc]

\* EnforceSecurityRules: BlockMetadata forced on (before anything can fail),
\* every whitelist entry validated, then the mandatory ranges and the
\* unwhitelisted private ranges appended to the blacklist and deduplicated.
EnforceSecurityRules(nc) ==
    LET forced == [nc EXCEPT !.blockMetadata = TRUE]
    IN IF \A i \in DOMAIN nc.whitelist : ValidateWhitelistEntry(nc.whitelist[i])
       THEN [ok |-> TRUE,
             cfg |-> [forced EXCEPT !.blacklist =
                        DeduplicateBlacklist(nc.blacklist \o MandatoryBlockedRanges
                                             \o FilterPrivateRanges(nc.whitelist))]]
       ELSE [ok |-> FALSE, cfg |-> forced]

\* strings.ToLower on the policy strings a configuration may carry.
ToLower(s) == CASE s = "Deny" -> "deny" [] s = "ALLOW" -> "allow" [] OTHER -> s

\* ValidateNetworkConfig: EnforceSecurityRules (which changes the config in
\* place), then the lower-cased default policy, then no DNS server in a
\* mandatory range.
ValidateNetworkConfig(nc) ==
    LET enforced == EnforceSecurityRules(nc)
    IN [cfg |-> enforced.cfg,
        ok  |-> /\ enforced.ok
                /\ ToLower(nc.policy) \in {"allow", "deny"}
                /\ \A i \in DOMAIN nc.dns, j \in DOMAIN MandatoryBlockedRanges :
                      ~NetContains(MandatoryBlockedRanges[j], nc.dns[i])]

\* fmt.Sscanf(p, "%d", &port) with the error ignored: the leading number of
\* "n" or "a-b", and 0 when there is none.
ScanPort(p) == IF p.form = "junk" THEN 0 ELSE p.lo

\* buildNetworkPolicy: the policy string verbatim, whitelist ports through
\* ScanPort, blacklist entries without ports.
BuildNetworkPolicy(nc) ==
    [policy        |-> nc.policy,
     blockMetadata |-> nc.blockMetadata,
     allowDns      |-> nc.allowDns,
     dns           |-> nc.dns,
     whitelist     |-> [i \in DOMAIN nc.whitelist |->
                          [cidr  |-> nc.whitelist[i].cidr,
                           ports |-> [j \in DOMAIN nc.whitelist[i].ports |->
                                        ScanPort(nc.whitelist[i].ports[j])]]],
     blacklist     |-> [i \in DOMAIN nc.blacklist |->
                          [cidr |-> nc.blacklist[i], ports |-> <<>>]]]

----------------------------------------------------------------------------
(* The Bastion: iptables.ApplyRules and applyNetworkRule                  *)

\* A rule's destination ports, lo..hi; iptables without --dport matches all.
PortSpan(lo, hi) == [lo |-> lo, hi |-> hi]

AnyPort == PortSpan(0, 65535)

Rule(dst, proto, ports, action) ==
    [dst |-> dst, proto |-> proto, ports |-> ports, action |-> action]

\* The IPv4 rules appended and whether the call returned without error;
\* an error leaves the rules appended before it.
Emitted(rs) == [rules |-> rs, ok |-> TRUE]
Failed(rs) == [rules |-> rs, ok |-> FALSE]

\* Steps run in order until the first that returns an error: the rules of
\* the steps up to and including that one, and whether none failed.
Sequential(steps) ==
    LET failing == {i \in DOMAIN steps : ~steps[i].ok}
        last    == IF failing = {} THEN Len(steps) ELSE Min(failing)
    IN [rules |-> FlattenSeq([i \in 1..last |-> steps[i].rules]),
        ok    |-> failing = {}]

\* A loop over s that returns on the first failing element.
EmitEach(Op(_), s) == Sequential([i \in DOMAIN s |-> Op(s[i])])

\* dockerBridgeSubnets' fallback: the default bridge's subnet.
DockerBridgeSubnets == <<Cidr(172, 17, 0, 0, 16)>>

\* validation.ValidateDNSServer: not loopback, not link-local, not a
\* metadata address.
ValidateDNSServer(d) ==
    /\ ~NetContains(LocalhostIPv4, d)
    /\ ~(d[1] = 169 /\ d[2] = 254)
    /\ d \notin {<<169, 254, 169, 254>>, <<168, 63, 129, 16>>, <<100, 100, 100, 200>>}

Accept53(dst) == <<Rule(dst, "udp", PortSpan(53, 53), "ACCEPT"), Rule(dst, "tcp", PortSpan(53, 53), "ACCEPT")>>

\* Step 1: cross-container isolation on the default bridge.
BridgeRules ==
    Emitted([i \in DOMAIN DockerBridgeSubnets |->
                Rule(DockerBridgeSubnets[i], "all", AnyPort, "DROP")])

\* Step 2: the metadata, link-local, localhost and DHCP drops, after an
\* accept of the embedded resolver 127.0.0.11:53 when DNS is allowed.
MetadataRules(p) ==
    IF ~p.blockMetadata THEN Emitted(<<>>)
    ELSE Emitted((IF p.allowDns THEN Accept53(Host(<<127, 0, 0, 11>>)) ELSE <<>>)
                 \o <<Rule(CloudMetadata, "all", AnyPort, "DROP"),
                      Rule(Host(<<168, 63, 129, 16>>), "all", AnyPort, "DROP"),
                      Rule(Host(<<100, 100, 100, 200>>), "all", AnyPort, "DROP"),
                      Rule(LinkLocal, "all", AnyPort, "DROP"),
                      Rule(LocalhostIPv4, "all", AnyPort, "DROP"),
                      Rule(AllIPv4, "udp", PortSpan(67, 68), "DROP")>>)

\* Step 3: port 53 to anywhere, then to each configured server, each
\* server validated first.
DNSRules(p) ==
    IF ~p.allowDns THEN Emitted(<<>>)
    ELSE Sequential(<<Emitted(Accept53(AllIPv4)),
                      EmitEach(LAMBDA d : IF ValidateDNSServer(d)
                                          THEN Emitted(Accept53(Host(d)))
                                          ELSE Failed(<<>>),
                               p.dns)>>)

\* Variant with a plausible bug: the ports of an entry are ignored.
ApplyNetworkRuleAllPorts(r, action) ==
    IF ~Parses(r.cidr) THEN Failed(<<>>)
    ELSE Emitted(<<Rule(r.cidr, "all", AnyPort, action)>>)

\* Variant with a plausible bug: only the tcp rule of each port.
ApplyNetworkRuleTcpOnly(r, action) ==
    IF ~Parses(r.cidr) THEN Failed(<<>>)
    ELSE IF r.ports = <<>> THEN Emitted(<<Rule(r.cidr, "all", AnyPort, action)>>)
    ELSE EmitEach(LAMBDA port :
                    IF port \in 1..65535
                    THEN Emitted(<<Rule(r.cidr, "tcp", PortSpan(port, port), action)>>)
                    ELSE Failed(<<>>),
                  r.ports)

\* applyNetworkRule: ValidateCIDR; one rule without ports, else a tcp and
\* a udp rule per port, each port validated first.
ApplyNetworkRule(r, action) ==
    IF ~Parses(r.cidr) THEN Failed(<<>>)
    ELSE IF r.ports = <<>> THEN Emitted(<<Rule(r.cidr, "all", AnyPort, action)>>)
    ELSE EmitEach(LAMBDA port :
                    IF port \in 1..65535
                    THEN Emitted(<<Rule(r.cidr, "tcp", PortSpan(port, port), action),
                                   Rule(r.cidr, "udp", PortSpan(port, port), action)>>)
                    ELSE Failed(<<>>),
                  r.ports)

\* Steps 4 and 5: the whitelist accepted under deny, the blacklist dropped
\* under allow.
ListRules(p) ==
    IF p.policy = "deny"
    THEN EmitEach(LAMBDA r : ApplyNetworkRule(r, "ACCEPT"), p.whitelist)
    ELSE EmitEach(LAMBDA r : ApplyNetworkRule(r, "DROP"), p.blacklist)

\* iptables.ApplyRules: ValidatePolicyMode (case-sensitive), steps 1-5,
\* then the default verdict.
IptablesApplyRules(p) ==
    IF p.policy \notin {"allow", "deny"} THEN Failed(<<>>)
    ELSE Sequential(<<BridgeRules, MetadataRules(p), DNSRules(p), ListRules(p),
                      Emitted(<<Rule(AllIPv4, "all", AnyPort,
                                     IF p.policy = "deny" THEN "DROP" ELSE "ACCEPT")>>)>>)

----------------------------------------------------------------------------
(* The chain's verdict on a packet from the container                     *)

Matches(r, pk) ==
    /\ NetContains(r.dst, pk.dst)
    /\ r.proto \in {"all", pk.proto}
    /\ pk.port \in r.ports.lo .. r.ports.hi

\* The first matching rule decides; with none the packet returns to FORWARD,
\* where Docker's own rules forward the bridge's traffic.
Verdict(rules, pk) ==
    LET hits == {i \in DOMAIN rules : Matches(rules[i], pk)}
    IN IF hits = {} THEN "RETURN" ELSE rules[Min(hits)].action

================================================================================
