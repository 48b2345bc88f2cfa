\* One user: every operation and fault, and the end of expired grants.
SPECIFICATION FairSpec
CONSTANTS
    g1 = g1
    g2 = g2
    User = {u1}
    Group = {g1, g2}
    Grant = {d1, d2}
    Handler = {h1}
    MaxVersion = 1
    Management = TRUE
    Overlap = FALSE
    Scenes <- OneUserScenes
    NoUser = NoUser
    NoGroup = NoGroup
    NoGrant = NoGrant
INVARIANTS
    TypeOK
    NoDuplicateGrant
PROPERTIES
    EndedStaysEnded
    ExpiryEnforced
