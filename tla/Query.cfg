CONSTANTS
    Jobs = {1, 2, 3, 4}
    Foreign = {4}
    Readers = {r1}
    Changers = {p1, p2}
    Policy <- MCPolicy
    Mapping <- MCMapping
    Scenarios <- MCScenarios
SPECIFICATION Spec
INVARIANTS QueryRight AclCounted
CHECK_DEADLOCK FALSE
