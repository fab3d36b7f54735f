----------------------------- MODULE MCProcmon -----------------------------
EXTENDS Procmon, TLC

Symmetry == Permutations(Helpers)
=============================================================================
