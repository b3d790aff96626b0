SPECIFICATION Spec
CONSTANTS
    dev = dev
    announce = announce
    m1 = m1
    m2 = m2
    w1 = w1
    w2 = w2
    c1 = c1
    c2 = c2
    ann = ann
    bob = bob
    NoPost = NoPost
    Lists = {dev, announce}
    Messages = {m1, m2}
    Members <- SmallMembers
    Subscribers <- MCSubscribers
    Workers <- OneTask
    Moderators <- TwoCommands
    Posts <- HeldPosts
    Unidentified = {}
    Looped = {}
    Before <- HeldBefore
    After <- HeldAfter
    Protocol = "lmtp"
    MaxHeld = 4
    MaxTries = 1
    MaxCommands = 2
    MaxFaults = 0
INVARIANT RejectDiscards
CHECK_DEADLOCK FALSE
