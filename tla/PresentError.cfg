\* Two operations report one error each, of which any may be the shared value, with or without a cause.
CONSTANTS
    r1 = r1
    r2 = r2
    Operations = {r1, r2}
    Paths <- MCPaths
    Arguments = {"at"}
SPECIFICATION ErrorSpec
INVARIANTS FieldErrorsRedacted InThisDocument
SYMMETRY Symmetry
CHECK_DEADLOCK FALSE
