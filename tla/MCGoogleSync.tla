---------------------------- MODULE MCGoogleSync ----------------------------
EXTENDS GoogleSync, TLC

CONSTANTS g1, g2, v1

\* Two Google groups for one VPN group.
SomeMappings == {[google |-> g1, vpn |-> v1], [google |-> g2, vpn |-> v1]}

Symmetry == Permutations(Email) \union Permutations(Sync) \union Permutations(GoogleGroup)
=============================================================================
