\* Two columns whose names differ in case alone, and still derive distinct names.
CONSTANTS
    Names <- CaseNames
    Columns <- MCColumns
    Kinds = {"scalar"}
    BaseModel <- MCBaseModel
    BadColumn <- MCBad
    MaxFields = 3
SPECIFICATION Spec
INVARIANT OwnInput
CHECK_DEADLOCK FALSE
