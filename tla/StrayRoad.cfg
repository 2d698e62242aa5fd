\* A lane to an index that no vertex has, and then a vertex: a road nobody drew.
SPECIFICATION Spec
CONSTANTS
    Editor = {1}
    Session = {1}
    Number = {0, 1, 3}
    StartGraph <- Street
    DefaultRoute = 2
    MayCrash = FALSE
    MaxRequests = 2
PROPERTIES
    NoStrayRoads
CHECK_DEADLOCK FALSE
