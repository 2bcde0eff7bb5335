\* Every DSN of MCDSNs under every tune of MCTunes, and a peer that answers,
\* refuses or stays silent at every stage.
CONSTANTS
    Keep = Keep
    DefaultDial = 2
    DefaultRead = 3
    MaxSetting = 3
    MaxClock = 9
    DSNs <- MCDSNs
    Tunes <- MCTunes
SPECIFICATION Spec
INVARIANTS
    NoSecretTold
    HandleOrNothing
    BootBounded
    BoundInForce
CHECK_DEADLOCK FALSE
