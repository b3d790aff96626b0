SPECIFICATION FairSpec
CONSTANTS
    dev = dev
    verp = verp
    nobody = nobody
    Addresses = {dev, verp, nobody}
    Class <- MCClass
    Protocols = {"lmtp", "smtp"}
    Window = 3
    MaxLines = 6
INVARIANTS
    TypeOK
    RecipientsAgree
    RepliesBelong
    InStep
PROPERTIES
    TaskEnds
    MessageAnswered
CHECK_DEADLOCK FALSE
