\* Two sessions edit and save a small map while the node runs, dies and starts.
SPECIFICATION FairSpec
CONSTANTS
    Editor = {1, 2}
    Session = {1, 2}
    Number = {0, 1, 3}
    StartGraph <- Street
    DefaultRoute = 2
    MayCrash = TRUE
    MaxRequests = 3
INVARIANTS
    ReloadedMeansSaved
    GraphIsWhole
PROPERTIES
    EditsLikeADrawing
    SavesReachTheNode
CHECK_DEADLOCK FALSE
