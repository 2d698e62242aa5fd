\* One session edits and saves a small map; the node dies of nothing else.
SPECIFICATION Spec
CONSTANTS
    Editor = {1}
    Session = {1}
    Number = {0, 1, 3}
    StartGraph <- Street
    DefaultRoute = 2
    MayCrash = FALSE
    MaxRequests = 2
PROPERTIES
    NodeSurvives
CHECK_DEADLOCK FALSE
