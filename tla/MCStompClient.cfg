SPECIFICATION FairSpec
CONSTANTS
    ch1 = ch1
    ch2 = ch2
    me = me
    you = you
    None = None
    Channels = {ch1, ch2}
    Users = {me}
    Others = {you}
    Window = 1
    MaxCommands = 4
    MaxReports = 2
    MaxEvents = 2
INVARIANTS TypeOK ReceiptNamesItsRequest OfflineIsLoggedOut EventsSavedOnce
PROPERTIES LogoutDisconnects
CHECK_DEADLOCK FALSE
