----------------------------- MODULE MCNetwork -----------------------------
EXTENDS Network, TLC

MacSymmetry == Permutations(Macs)
=============================================================================
