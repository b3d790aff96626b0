SPECIFICATION Spec
CONSTANTS
    dev = dev
    verp = verp
    nobody = nobody
    Addresses = {dev, verp, nobody}
    Class <- MCClass
    Protocols = {"lmtp"}
    Window = 1
    MaxLines = 4
INVARIANT OnlyCompleteMessages
CHECK_DEADLOCK FALSE
