\* Every graph on a grid of three by three, two diagonals included, for the
\* walk; two triangles with lanes of length 2, 4 or none for the search.
SPECIFICATION RoutesSpec
CONSTANTS
    Point <- NinePoints
    Street <- NineStreets
    Vertex <- FiveVertices
    Link <- EightLinks
    Weight <- TwoWeights
    Query <- TenQueries
INVARIANTS
    RouteCloses
    OutlineIsWalked
    NoVertexTwice
    FindsShortest
CHECK_DEADLOCK FALSE
