\* Two clients with two calls each on two rows, in and out of transactions: every
\* pair of them, the ones that deadlock included, and a statement that is given
\* up, runs on and takes effect late.
CONSTANTS
    a = a
    b = b
    k1 = k1
    k2 = k2
    Clients = {a, b}
    Leavers = {a}
    Keys = {k1, k2}
    Triggers <- MCTriggers
    NoRow = NoRow
    MaxCalls = 2
    MaxGen = 1
SPECIFICATION Spec
INVARIANTS LedgerAgrees DoomedExactlyWhenTold
PROPERTIES TransactionsAtomic OwnershipKept
SYMMETRY Symmetry
CHECK_DEADLOCK FALSE
