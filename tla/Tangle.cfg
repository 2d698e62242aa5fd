\* One graph, 51 lanes on 24 vertices; one more than the walk has steps for.
SPECIFICATION TangleSpec
CONSTANTS
    Point <- TanglePoint
    Street <- TangleStreet
    Vertex <- FiveVertices
    Link <- EightLinks
    Weight <- TwoWeights
    Query <- TenQueries
INVARIANTS
    RouteCloses
CHECK_DEADLOCK FALSE
