SPECIFICATION Spec
CONSTANTS
    Ids = {a, b}
    Answers = {"TargetWins"}
    Deletable = {"source", "target"}
    MaxPasses = 1
    MaxEdits = 3
    MaxRows = 2
    MaxFaults = 1
INVARIANTS
    IInv
    AnswersDurable
PROPERTIES
    AnswersUsed
    NoEditLost
SYMMETRY IdSymmetry
\* Users stop editing and the store stops growing at the bounds.
CHECK_DEADLOCK FALSE
