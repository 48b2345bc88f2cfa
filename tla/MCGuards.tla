------------------------------ MODULE MCGuards -------------------------------
EXTENDS Guards, TLC

CONSTANTS email, ip, mfa

Limits == (email :> 2) @@ (ip :> 3) @@ (mfa :> 3)
Windows == (email :> 2) @@ (ip :> 2) @@ (mfa :> 1)

\* Sign-ins from one address, codes of one user; none beside the codes of TotpCodes.
Loads == {{<<email, ip>>}, {<<mfa>>}, {}}

Symmetry == Permutations(Secret) \cup Permutations(Handler)
=============================================================================
