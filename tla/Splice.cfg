\* Every table of up to three fields over names that collide in each derived form,
\* and every resolver file of at most three imports, with and without aliases.
CONSTANTS
    Names <- MCNames
    Columns <- MCColumns
    Kinds = {"scalar", "array", "other"}
    BaseModel <- MCBaseModel
    BadColumn <- MCBad
    MaxFields = 3
    Aliases = {"", "f", "fmt", "luima"}
    Paths <- MCPaths
    MaxImports = 3
SPECIFICATION SpliceSpec
INVARIANTS VerdictExact ReadsWhatIsThere Compiles
\* The table is refused, or the file is filled, refused or left alone.
CHECK_DEADLOCK FALSE
