----------------------------- MODULE MCSessions -----------------------------
EXTENDS Sessions, TLC

Symmetry == Permutations(Session) \cup Permutations(Browser) \cup Permutations(Handler)
=============================================================================
