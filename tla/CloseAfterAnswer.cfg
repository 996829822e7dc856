SPECIFICATION FairSpec
CONSTANTS
    extA = extA  extB = extB  extC = extC  groupS = groupS  groupT = groupT
    Ext = {extA, extB}
    Thread = {groupS, groupT}
    ThreadOf <- OneEach
    CloseFrom = "answered"
    MaxProxies = 0
PROPERTIES ClosesDown
\* A closed graph, or one that nobody closes, is at rest.
CHECK_DEADLOCK FALSE
