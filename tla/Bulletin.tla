------------------------------ MODULE Bulletin ------------------------------
(***************************************************************************)
(* What the comet channel promises its readers: a board that shows one     *)
(* issue at a time.  A reader sees issues in the order in which they were  *)
(* put up, may miss issues that were replaced, may see one twice in a row  *)
(* and never sees one three times or goes back to an earlier one.          *)
(***************************************************************************)
EXTENDS Naturals, Sequences

CONSTANT Readers

VARIABLES
  issue,   \* the number of the issue on the board
  seen     \* seen[r]: the issues r has seen, in the order it saw them

Init ==
  /\ issue = 0
  /\ seen = [r \in Readers |-> <<>>]

Publish ==
  /\ issue' = issue + 1
  /\ UNCHANGED seen

\* A reader that has seen s may see n next.
MayFollow(s, n) ==
  \A i \in 1 .. Len(s) : s[i] <= n /\ (i < Len(s) => s[i] < n)

See(r) ==
  /\ \E n \in 0 .. issue :
       /\ MayFollow(seen[r], n)
       /\ seen' = [seen EXCEPT ![r] = Append(@, n)]
  /\ UNCHANGED issue

Next == Publish \/ \E r \in Readers : See(r)

Spec == Init /\ [][Next]_<<issue, seen>>
=============================================================================
