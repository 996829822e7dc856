SPECIFICATION ExpiringSpec
CONSTANTS
    extA = extA  extB = extB  extC = extC  None = None
    Ext <- Fan3
    ThreadOf <- Mixed3
    Route <- CrossRoute
    Policy <- LastAndEach
    Origins = {extA, extB}
    Relays = {}
    Streamers = {}
    Handlers = {"send_cmd", "send_cmd_ex"}
    SendStates <- Served
    SchemaErrors = FALSE
    InTimeouts = TRUE
    OutTimeouts = TRUE
    MayClose = TRUE
    MaxId = 2
    MaxSend = 1
    MaxPartial = 0
INVARIANTS TypeOK HandlerContexts GroupsMatchTable PolicyVerdict TablesEmptyAtDestroy
PROPERTIES PromiseKept HandlersTold
\* Sends, ids and partial results are bounded, so the system comes to rest.
CHECK_DEADLOCK FALSE
