CONSTANTS
    dev = dev
    web = web
    ops = ops
    ann = ann
    bob = bob
    NoTag = NoTag
    NoAddress = NoAddress
    Lists = {dev, web, ops}
    People = {ann, bob}
    Symbols = {"dev", "web", "ops", ".org"}
    Tags = {"[dev]", "[ops]"}
    Members <- Web
    ListId <- WebIds
    Tag <- WebTags
    OptionalHeaders = {"List-Help", "List-Archive"}
    Publishes <- Publishing
    MayMunge = {dev, ops}
    MayWithhold = {web}
    MayRefuse = {web}
    Domain <- Domains
    Enforcing = {"a"}
    Starts <- Starters
    Forms <- PostForms
    MaxPosts = 1
    MaxWritten = 2
SPECIFICATION FairSpec
INVARIANTS
    TypeOK
    NeverThroughAgain
    TagsNeverPileUp
    SealsTellIngress
    LinksFollowPath
    AnswersFindTheAuthor
    DmarcTravels
PROPERTY CirculationEnds
CHECK_DEADLOCK FALSE
