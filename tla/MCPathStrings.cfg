SPECIFICATION Spec
CONSTANTS
    MaxLength = 9
    MaxBlankLength = 5
    Lines <- AllLines
INVARIANTS
    LineIsNormalised
    PathsAreTheWords
    BackupsMirrorThePath
    CreateMakesThePath
CHECK_DEADLOCK FALSE
