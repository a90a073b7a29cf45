----------------------------- MODULE MCLocation -----------------------------
EXTENDS Location, TLC

\* People, places, clicks and runs are alike.
Symmetry ==
  Permutations(People) \cup Permutations(Places)
    \cup Permutations(Clicks) \cup Permutations(Jobs)
=============================================================================
