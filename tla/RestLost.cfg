SPECIFICATION Spec
CONSTANTS
    c1 = c1  c2 = c2  e1 = e1  e2 = e2
    Connections = {c1}
    Engines = {e1}
    App = app
    None = none
    Modes <- Shared
    Races = FALSE
INVARIANTS RestBehindFirst
\* An app that nobody closes comes to rest, and so does one that has ended.
CHECK_DEADLOCK FALSE
