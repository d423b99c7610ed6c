------------------------- MODULE MCSubnetAllocator -------------------------
(* The default base, a base aligned to a /8, and masks at the edges of the *)
(* accepted range, around the default and unset.                          *)
EXTENDS SubnetAllocator

MCBases == {<<10, 20, 0, 0>>, <<10, 0, 0, 0>>}
MCMaskEnvs == {Unset, 8, 12, 13, 14, 16, 24, 25}
=============================================================================
