SPECIFICATION Spec
CONSTANTS
    extA = extA  extB = extB  extC = extC  None = None
    Ext <- Fan3
    ThreadOf <- Mixed3
    Route <- FanLoopRoute
    Policy <- FirstOk3
    Origins = {extA}
    Relays = {extB, extC}
    Streamers = {}
    Handlers = {"send_cmd"}
    SendStates <- Served
    SchemaErrors = TRUE
    InTimeouts = FALSE
    OutTimeouts = FALSE
    MayClose = FALSE
    MaxId = 4
    MaxSend = 4
    MaxPartial = 0
INVARIANTS ResultsGoHome PolicyVerdict
PROPERTIES HandedInOrder
\* Sends, ids and partial results are bounded, so the system comes to rest.
CHECK_DEADLOCK FALSE
