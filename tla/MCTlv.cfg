SPECIFICATION Spec
CONSTANTS
    Jobs <- MCJobs
    Trailing <- MCTrailing
    Puts <- MCPuts
    Containers <- MCContainers
    MaxElements = 3
INVARIANTS
    FieldsArrive
    CutIsRefused
    TagsInOrder
    NumbersExact
    TreesArrive
    CutTreeRefused
\* Nothing is left to do when a value is decoded, or all elements are written
\* and read.
CHECK_DEADLOCK FALSE
