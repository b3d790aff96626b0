SPECIFICATION Spec
CONSTANTS
    dev = dev
    ops = ops
    ann = ann
    Lists = {dev, ops}
    Addresses = {ann}
    Deliveries = {d1, d2}
    Roles <- MCRoles
    MembersFile <- FileForDev
    Daemon = {d1}
    Thresholds = {2, 3}
    HardWeight = 2
    SoftWeight = 1
    MaxPosts = 2
    MaxRepeats = 2
INVARIANTS
    TypeOK
    DisabledIffThreshold
    LateCopiesBounded
    ScoreIsEarned
PROPERTY OnlyEnableResumes
CHECK_DEADLOCK FALSE
