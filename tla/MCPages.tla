------------------------------- MODULE MCPages -------------------------------
EXTENDS Pages

CONSTANTS s1, s2, g1, g2, n1, n2

\* The users a text finds: not all, and not neighbours.
FoundUsers == [text \in Search |-> {1, 3}]

\* Each server has a group.
Owners == [g \in {g1, g2} |-> IF g = g1 THEN s1 ELSE s2]

\* Two settings; those of a server differ from those of a new one in both.
NewServer == [k \in Key |-> n1]
ThisServer == [k \in Key |-> n2]
NotValid == {[k \in Key |-> IF k = "net" THEN n1 ELSE n2]}
=============================================================================
