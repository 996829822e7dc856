SPECIFICATION Spec
CONSTANTS
    appA = appA  appB = appB  appC = appC  appD = appD
    Client = Client  None = None
    App = {appA, appB, appC, appD}
    Root = appA
    MaxMade = 1
    Graphs <- WithTail
INVARIANTS OneOriginal
\* A graph that is up, or that came to nothing, is at rest.
CHECK_DEADLOCK FALSE
