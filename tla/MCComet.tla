------------------------------ MODULE MCComet ------------------------------
EXTENDS Comet

CONSTANTS m2

\* m2 is longer than m1, so that writing m1 over it leaves a tail.
MCSize == [m \in Texts |-> IF m = m2 THEN 2 ELSE 1]
=============================================================================
