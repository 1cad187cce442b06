----------------------------- MODULE MCFrontend -----------------------------
EXTENDS Frontend, TLC

Symmetry == Permutations(Clicks) \cup Permutations(Tokens)
=============================================================================
