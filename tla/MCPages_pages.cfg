\* Every page, a few actions of its user on each.
SPECIFICATION FairPagesSpec
CONSTANTS
    s1 = s1
    s2 = s2
    g1 = g1
    g2 = g2
    n1 = n1
    n2 = n2
    Tab = {"request", "users", "user", "sync", "network", "admin", "signin", "profile", "group"}
    VpnServer = {s1, s2}
    OpenLimit = 1
    MaxRows = 2
    MaxPosts = 2
    MaxReloads = 1
    MaxUser = 3
    Search = {"a"}
    Found <- FoundUsers
    MaxCalls = 3
    Member = {g1}
    Network = {n1, n2}
    Settings = n1
    MaxGrants = 2
    First = s1
    Group = {g1, g2}
    Owner <- Owners
    Old = 2
    Admin = {a1, a2}
    Key = {"net", "other"}
    Value = {n1, n2}
    Default <- NewServer
    Saved <- ThisServer
    Invalid <- NotValid
    MaxAccount = 4
    Applicant = {2, 3}
    MaxPresses = 2
    MaxSecrets = 3
    MaxBlocks = 2
    PageSize = 1
    MaxSteps = 3
    MaxActs = 4
INVARIANTS
    FormAgrees
    PendingOnce
    TableIsAnswer
    ShownIsCurrent
    ListsAreCurrent
    UneditedStays
PROPERTIES GetsIn
\* Pages are closed, and the bounds of what their users do are reached.
CHECK_DEADLOCK FALSE
