--------------------------- MODULE MCServerConfig ---------------------------
EXTENDS ServerConfig, TLC

CONSTANTS n1, n2, good, odd, home, away

\* A row like the file, and one unlike it in everything but the path.
AddedSettings ==
    {[net |-> n1, mode |-> "NAT", other |-> good, path |-> home],
     [net |-> n2, mode |-> "ROUTING", other |-> odd, path |-> home]}

\* Whole forms, which OpenVPN refuses or not, and requests that name one setting.
NamedSettings ==
    {[net |-> n2, mode |-> "NAT", other |-> odd, path |-> home],
     [net |-> n1, mode |-> "ROUTING", other |-> good, path |-> home],
     [mode |-> "NAT"], [path |-> away]}

Symmetry == Permutations(Handler)
=============================================================================
