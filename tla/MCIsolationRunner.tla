------------------------- MODULE MCIsolationRunner -------------------------
EXTENDS IsolationRunner

\* Every failure point of run() and its calls.
MCAllFaults == AllFaults

\* Only the ApplyRules RPC fails part way.
MCApplyFault == {"applyRules"}

\* Only ContainerStop fails.
MCStopFault == {"stop"}

\* No call fails.
MCNoFaults == {}

\* A whitelist entry, and its port strings "n", "a-b" and one Sscanf
\* cannot read.
WEntry(c, ps) == [cidr |-> c, ports |-> ps]
PortNum(n) == [form |-> "single", lo |-> n, hi |-> n]
PortRange(a, b) == [form |-> "range", lo |-> a, hi |-> b]

NetCfg(policy, meta, dns, servers, wl, bl) ==
    [policy |-> policy, blockMetadata |-> meta, allowDns |-> dns,
     dns |-> servers, whitelist |-> wl, blacklist |-> bl]

\* "allow" with DNS to 8.8.8.8, block_metadata false in the input and a
\* blacklisted host.
AllowCfg == NetCfg("allow", FALSE, TRUE, <<<<8, 8, 8, 8>>>>, <<>>,
                   <<Cidr(1, 1, 1, 1, 32)>>)

\* "deny" with a whitelisted /24 on a port range and a single port, and a
\* whitelisted private range on every port.
DenyCfg == NetCfg("deny", TRUE, FALSE, <<>>,
                  <<WEntry(Cidr(8, 8, 8, 0, 24), <<PortRange(80, 443), PortNum(22)>>),
                    WEntry(Cidr(10, 0, 0, 0, 8), <<>>)>>, <<>>)

\* "deny" opened to the whole internet with the literal "0.0.0.0/0".
OpenCfg == NetCfg("deny", TRUE, FALSE, <<>>, <<WEntry(AllIPv4, <<>>)>>, <<>>)

\* A localhost whitelist entry (rejected by the runner, spec scenario 2).
LocalhostCfg == NetCfg("deny", TRUE, FALSE, <<>>,
                       <<WEntry(Cidr(127, 0, 0, 1, 32), <<>>)>>, <<>>)

\* A DNS server the runner accepts and the Bastion rejects.
AzureDnsCfg == NetCfg("allow", TRUE, TRUE, <<<<168, 63, 129, 16>>>>, <<>>, <<>>)

\* A policy string the runner lower-cases and the Bastion rejects.
MixedCaseCfg == NetCfg("Deny", TRUE, TRUE, <<>>, <<>>, <<>>)

MCConfigs == {AllowCfg, DenyCfg, OpenCfg, LocalhostCfg, AzureDnsCfg, MixedCaseCfg}

MCOpenConfigs == {OpenCfg}

MCDenyConfigs == {DenyCfg}

\* One address of each class the rules tell apart.
MCDestinations ==
    {<<8, 8, 8, 8>>, <<1, 1, 1, 1>>, <<10, 0, 0, 1>>, <<172, 17, 0, 2>>,
     <<127, 0, 0, 1>>, <<127, 0, 0, 11>>, <<169, 254, 169, 254>>,
     <<168, 63, 129, 16>>, <<224, 0, 0, 1>>}

MCDPorts == {22, 53, 80, 443}

=============================================================================
