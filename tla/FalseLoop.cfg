CONSTANTS
    dev = dev
    web = web
    ops = ops
    ann = ann
    bob = bob
    NoTag = NoTag
    NoAddress = NoAddress
    Lists = {dev, web}
    People = {ann, bob}
    Symbols = {"dev", "web", "ops", ".org"}
    Tags = {"[dev]", "[ops]"}
    Members <- Nested
    ListId <- NestedIds
    Tag <- NestedTags
    OptionalHeaders = {"List-Help", "List-Archive"}
    Publishes <- NestedHeaders
    MayMunge = {}
    MayWithhold = {}
    MayRefuse = {web}
    Domain <- Domains
    Enforcing = {"a"}
    Starts <- AnnOnWeb
    Forms <- PostForms
    MaxPosts = 1
    MaxWritten = 1
SPECIFICATION Spec
INVARIANTS
    OnlyLoopsDiscarded
CHECK_DEADLOCK FALSE
