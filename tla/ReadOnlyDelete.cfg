SPECIFICATION Spec
CONSTANTS
    Ids = {1}
    Contents = {1, 2}
    TargetCoding = 10
    Configs <- ReadOnlyForAWhile
    Answers = {"SourceWins"}
    GuardInstalled = TRUE
    MaxEdits = 0
    MaxFaults = 1
PROPERTIES
    OnlyUsersEverDelete
