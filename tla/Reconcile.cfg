SPECIFICATION Spec
CONSTANTS
    Ids = {a, b}
    Contents = {1, 2}
    TargetCoding = 10
    Configs <- Everything
    Answers = {"SourceWins"}
    GuardInstalled = TRUE
    MaxEdits = 2
    MaxFaults = 1
INVARIANTS
    IInv
    RowsTellTheTruth
    ConflictsAreReal
PROPERTIES
    EveryWriteHasACause
    OnlyUsersDelete
    SuccessMeansEqual
    ClobberKeepsSource
SYMMETRY IdSymmetry
