SPECIFICATION FSpec
CONSTANTS
    NumNode = 4
    Sessions <- AllSessions
INVARIANTS
    FTypeOK
    SolverCallIsWellFormed
    SolvesWhatWasMeant
    AnswerReachesTheUser
    OutcomeIsReported
