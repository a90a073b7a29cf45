---------------------------- MODULE MCMovements ----------------------------
EXTENDS Movements, TLC

Full == {"galt", "size"}

\* Ten units make the last decimal; columns hold altitudes up to 90.
\* A complete request, the same place measured finer, one that the site's
\* own form sends (without w, h, l and re), and one from too high up.
MCRequests == {
  [at |-> 20, alt |-> 40, given |-> Full],
  [at |-> 23, alt |-> 44, given |-> Full],
  [at |-> 20, alt |-> 40, given |-> {"galt"}],
  [at |-> 20, alt |-> 98, given |-> Full]}

\* The example of the documentation has no altitude and finer coordinates.
MCExample == {[at |-> 37, alt |-> 0, given |-> {}]}

Symmetry == Permutations(Handlers)
=============================================================================
