\* Two networks and settings OpenVPN refuses; requests that may overlap.
SPECIFICATION ConfigSpec
CONSTANTS
    n1 = n1
    n2 = n2
    good = good
    odd = odd
    home = home
    away = away
    Handler = {h1, h2}
    Network = {n1, n2}
    Initial = n1
    Interface = {eth0, eth1}
    Outer = eth1
    Path = {home, away}
    Home = home
    Other = {good, odd}
    Refused = {odd}
    Added <- AddedSettings
    Changes <- NamedSettings
    MaxPuts = 3
    MaxFaults = 1
SYMMETRY Symmetry
INVARIANTS
    KeepsRunning
    SavedIsApplied
    RejectedIsRestored
CHECK_DEADLOCK FALSE
