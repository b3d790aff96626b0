SPECIFICATION Spec
CONSTANTS
    dev = dev
    announce = announce
    m1 = m1
    m2 = m2
    w1 = w1
    w2 = w2
    c1 = c1
    c2 = c2
    ann = ann
    bob = bob
    NoPost = NoPost
    Lists = {dev, announce}
    Messages = {m1, m2}
    Members <- SmallMembers
    Subscribers <- MCSubscribers
    Workers <- OneTask
    Moderators <- OneCommand
    Posts <- HeldPosts
    Unidentified = {}
    Looped = {}
    Before <- RejectBefore
    After <- PlainAfter
    Protocol = "smtp"
    MaxHeld = 1
    MaxTries = 2
    MaxCommands = 0
    MaxFaults = 0
INVARIANT RejectedNeverAccepted
CHECK_DEADLOCK FALSE
