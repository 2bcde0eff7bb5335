\* Paths of up to three fields through the whole schema, introspection included,
\* beside a second root field; and mutations of three root fields.
CONSTANTS
    Documents <- MCDocuments
    Deepest = 3
    Calls = 2
SPECIFICATION ExecSpec
INVARIANTS NullsRest InTurn
CHECK_DEADLOCK FALSE
