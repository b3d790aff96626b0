SPECIFICATION FairSpec
CONSTANTS
    dev = dev
    announce = announce
    m1 = m1
    m2 = m2
    w1 = w1
    w2 = w2
    c1 = c1
    c2 = c2
    ann = ann
    bob = bob
    NoPost = NoPost
    Lists = {dev, announce}
    Messages = {m1, m2}
    Members <- SmallMembers
    Subscribers <- MCSubscribers
    Workers <- TwoTasks
    Moderators <- OneCommand
    Posts <- CrossPosts
    Unidentified = {}
    Looped = {}
    Before <- CrossBefore
    After <- CrossAfter
    Protocol = "lmtp"
    MaxHeld = 3
    MaxTries = 2
    MaxCommands = 1
    MaxFaults = 2
INVARIANTS
    TypeOK
    AtMostOnce
    AcceptedAccounted
    DirectXorHeld
PROPERTIES
    ImplementsPostFate
    EveryTransactionEnds
    EveryApprovalEnds
CHECK_DEADLOCK FALSE
