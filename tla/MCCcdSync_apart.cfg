\* Two users whose handlers do not overlap.
SPECIFICATION Spec
CONSTANTS
    g1 = g1
    g2 = g2
    User = {u1, u2}
    Group = {g1}
    Grant = {d1, d2}
    Handler = {h1, h2}
    MaxVersion = 1
    Management = TRUE
    Overlap = FALSE
    Scenes <- ApartScenes
    NoUser = NoUser
    NoGroup = NoGroup
    NoGrant = NoGrant
SYMMETRY Symmetry
INVARIANTS
    FileCurrent
