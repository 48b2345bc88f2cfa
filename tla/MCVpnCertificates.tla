------------------------- MODULE MCVpnCertificates -------------------------
EXTENDS VpnCertificates, TLC

Symmetry == Permutations(Handler)
=============================================================================
