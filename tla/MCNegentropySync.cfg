SPECIFICATION SyncSpec
CONSTANTS
    Relays <- MCRelays
    Reliable = {"reliable"}
    Events = {"a1", "a2", "b"}
    KeyOf <- MCKeyOf
    Version <- MCVersion
    Refused <- MCRefused
    ArgValues <- MCArgValues
    Local = "local"
    MaxChanges = 3
INVARIANTS
    SyncTypeOK
PROPERTIES
    SyncConverges
CHECK_DEADLOCK FALSE
