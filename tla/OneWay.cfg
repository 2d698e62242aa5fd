\* An edit and a save that cross: a lane without its way back reaches the node.
SPECIFICATION Spec
CONSTANTS
    Editor = {1}
    Session = {1}
    Number = {0, 1, 3}
    StartGraph <- Street
    DefaultRoute = 2
    MayCrash = FALSE
    MaxRequests = 2
INVARIANTS
    LanesLeadBack
CHECK_DEADLOCK FALSE
