SPECIFICATION Spec
CONSTANTS
    ch1 = ch1
    ch2 = ch2
    me = me
    you = you
    None = None
    Channels = {ch1, ch2}
    Users = {me}
    Others = {you}
    Window = 2
    MaxCommands = 4
    MaxReports = 2
    MaxEvents = 2
INVARIANTS ReceiptNamesItsRequest
CHECK_DEADLOCK FALSE
