SPECIFICATION FairSpec
CONSTANTS
    extA = extA  extB = extB  extC = extC  groupS = groupS  groupT = groupT
    Ext = {extA, extB, extC}
    Thread = {groupS, groupT}
    ThreadOf <- TwoAndOne
    CloseFrom = "any"
    MaxProxies = 1
INVARIANTS TypeOK ClosesInOrder CloseIsExpected CountsMatch
PROPERTIES LivesInOrder ComesUp StartedCloses
\* A closed graph, or one that nobody closes, is at rest.
CHECK_DEADLOCK FALSE
