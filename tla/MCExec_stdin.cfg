SPECIFICATION FairSpec
CONSTANTS
    Codes = {0}
    MaxAttempts = 1
    MaxSessions = 1
    None = None
PROPERTY AnswerReported
CHECK_DEADLOCK FALSE
