--------------------------- MODULE SubnetAllocator --------------------------
(***************************************************************************)
(* The network pool's subnet configuration (DefaultSubnetConfig,          *)
(* SubnetConfigFromEnv) and its candidate generator (generateSubnet), as  *)
(* pure operators.  allocateSubnet walks i = 0 .. MaxSubnets-1 and takes   *)
(* generateSubnet(BaseIP, i); NetworkPool abstracts a candidate to its     *)
(* index i.  Here a candidate is the four octets of the string             *)
(* "%d.%d.%d.0/24" (decimal formatting of each octet is injective, so the  *)
(* tuple stands for the string), and the check is that every candidate    *)
(* is a /24 of the configured range.                                       *)
(***************************************************************************)
EXTENDS Integers

CONSTANTS
    Bases,      \* BASTION_SUBNET_BASE values, as parsed IPv4 octets
    MaskEnvs,   \* BASTION_SUBNET_MASK values after Sscanf("%d"), or Unset
    Unset       \* the variable is empty or does not parse

VARIABLE env    \* the environment the Bastion started with

\* DefaultSubnetConfig: 10.20.0.0, mask 16 and MaxSubnets 65536.
DefaultSubnetConfig == [base |-> <<10, 20, 0, 0>>, mask |-> 16, max |-> 65536]

\* SubnetConfigFromEnv: the base replaces the default's; a mask in 8..24
\* replaces the mask and sets MaxSubnets to 1 << (24 - mask).
SubnetConfigFromEnv(base, maskEnv) ==
    LET withBase == [DefaultSubnetConfig EXCEPT !.base = base] IN
    IF maskEnv # Unset /\ maskEnv \in 8..24
    THEN [withBase EXCEPT !.mask = maskEnv, !.max = 2^(24 - maskEnv)]
    ELSE withBase

\* generateSubnet: octet1 = baseIP[1] + index/256, octet2 = index % 256.
GenerateSubnet(base, index) == <<base[1], base[2] + index \div 256, index % 256, 0>>

\* The address as a 32-bit number, and its network part under a mask.
Addr(o) == ((o[1] * 256 + o[2]) * 256 + o[3]) * 256 + o[4]
NetPart(o, mask) == Addr(o) \div 2^(32 - mask)

Octet == 0..255

Init == env \in [base: Bases, mask: MaskEnvs]
Next == UNCHANGED env

-----------------------------------------------------------------------------
\* Every candidate allocateSubnet may return is a valid dotted quad and a
\* /24 inside BaseIP/SubnetMask, for the configuration the environment
\* gives (subnet_allocation_test checks a few indices of the default).
SubnetsInRange ==
    LET cfg == SubnetConfigFromEnv(env.base, env.mask) IN
    \A i \in 0..cfg.max - 1 :
        LET s == GenerateSubnet(cfg.base, i) IN
        /\ \A k \in 1..4 : s[k] \in Octet
        /\ NetPart(s, cfg.mask) = NetPart(cfg.base, cfg.mask)
=============================================================================
