\* Two types, one with other parameters than asked for, two schema files in view
\* and one out of it: two runs and an edit by hand, in every order.
CONSTANTS
    Types = {t, u}
    Beside = {main, peer}
    Far = {far}
    Ops = {o1, o2}
    Odd = {u}
    NoRun = NoRun
    MaxRuns = 2
    MaxEdits = 1
SYMMETRY Symmetry
SPECIFICATION Spec
PROPERTIES SchemaKept HandWorkKept OutcomeHonest
CHECK_DEADLOCK FALSE
