SPECIFICATION Spec
CONSTANTS
    dev = dev
    announce = announce
    m1 = m1
    m2 = m2
    w1 = w1
    w2 = w2
    c1 = c1
    c2 = c2
    ann = ann
    bob = bob
    NoPost = NoPost
    Lists = {dev, announce}
    Messages = {m1, m2}
    Members <- SmallMembers
    Subscribers <- MCSubscribers
    Workers <- OneTask
    Moderators <- TwoCommands
    Posts <- QueuePosts
    Unidentified = {m2}
    Looped <- QueueLooped
    Before <- QueueBefore
    After <- QueueAfter
    Protocol = "lmtp"
    MaxHeld = 2
    MaxTries = 2
    MaxCommands = 2
    MaxFaults = 1
INVARIANTS
    OneCopyPerAttempt
    HeldLeavesSettled
    DuplicatesNeedDisturbance
PROPERTIES
    ImplementsPostFate
    IdsNeverReused
CHECK_DEADLOCK FALSE
