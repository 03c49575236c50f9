SPECIFICATION Spec
CONSTANTS
    empty = empty
    full = full
    Images <- MCImages
    EmptyImage = empty
    Absent = Absent
    MaxGeneration = 3
    MaxRevision = 1
INVARIANTS
    AlwaysRecoverable
    AckedSurvives
PROPERTIES
    CellSpec
