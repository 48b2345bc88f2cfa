-------------------------- MODULE MCAccessRequests --------------------------
EXTENDS AccessRequests, TLC

\* Handlers only differ in what they are doing.
Symmetry == Permutations(Handler)
=============================================================================
