------------------------------ MODULE MCCcdSync ------------------------------
EXTENDS CcdSync, TLC

CONSTANTS g1, g2

\* Handlers of two users at once, where only writes fail.
ApartScenes ==
    {[groups |-> {g1}, operations |-> AllOperations \ {"member", "toggle", "deleteGroup"},
      faults |-> {"reject", "late"}]}

\* Every operation and fault on one group; and passes and grants on two groups
\* of a server that refuses some writes.
OneUserScenes ==
    {[groups |-> {g1}, operations |-> AllOperations, faults |-> AllFaults],
     [groups |-> {g1, g2}, operations |-> {"pass", "grant"}, faults |-> {"reject", "exit"}]}

\* Users, handlers and the ids of grants only differ in what they stand for.
Symmetry == Permutations(User) \cup Permutations(Handler) \cup Permutations(Grant)
=============================================================================
