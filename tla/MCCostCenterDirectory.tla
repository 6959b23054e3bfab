------------------------ MODULE MCCostCenterDirectory ------------------------
EXTENDS CostCenterDirectory, TLC

CONSTANTS x1, x2, k1, k2, alice, bob

Symmetry == Permutations({x1, x2}) \union Permutations({k1, k2}) \union Permutations({alice, bob})
==============================================================================
