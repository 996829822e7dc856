SPECIFICATION ReturningSpec
CONSTANTS
    extA = extA  extB = extB  extC = extC  None = None
    Ext <- Fan3
    ThreadOf <- Mixed3
    Route <- ChainRoute
    Policy <- LastOk3
    Origins = {extA}
    Relays = {extB}
    Streamers = {extC}
    Handlers = {"none", "send_cmd_ex"}
    SendStates <- Served
    SchemaErrors = TRUE
    InTimeouts = FALSE
    OutTimeouts = FALSE
    MayClose = TRUE
    MaxId = 1
    MaxSend = 2
    MaxPartial = 1
INVARIANTS PolicyVerdict AllHandlersCalled
PROPERTIES ToldOrRefused ClosedDown
\* Sends, ids and partial results are bounded, so the system comes to rest.
CHECK_DEADLOCK FALSE
