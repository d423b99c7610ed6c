------------------------- MODULE MCOrphanSweep -----------------------------
\* The runner with the orphan cleaner beside it, under the constants of
\* MCIsolationRunner.
EXTENDS MCIsolationRunner, OrphanSweep
=============================================================================
