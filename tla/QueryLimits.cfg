\* Both walks over documents of one or two selections per set, of two fragments
\* and one nested set.
CONSTANTS
    F = F
    G = G
    Op = Op
    Leaf = Leaf
    Undefined = Undefined
    Walks = {"depth", "introspects"}
    Fragments = {F, G}
    Nested = {1}
    Widths = {1, 2}
    Limit = 2
SPECIFICATION WalkSpec
INVARIANTS DepthExact IntrospectionFound
PROPERTY Ends
\* The walk ends.
CHECK_DEADLOCK FALSE
