SPECIFICATION Spec
CONSTANTS
    MaxLength = 5
    MaxBlankLength = 5
    Lines <- AllLines
INVARIANTS
    StripRemovesBlanks
CHECK_DEADLOCK FALSE
