SPECIFICATION CliSpec
CONSTANTS
    Codes = {0, 1}
    MaxAttempts = 2
    MaxSessions = 3
    None = None
    Torn = Torn
    Lines <- Plain
    FirstLines <- First
    Inputs = {"k", "r", "i", "build/agent.cpio.gz"}
    Numerals = {"2", "3"}
    Octets = {"7"}
    ExitCodes = {0, 1, 256}
    MaxLaunches = 3
INVARIANTS
    AnswerTrue
    ImageReady
    ReadAsWritten
    TerminalReturned
    CallbackHasSink
    SavedUnderItsId
    SuccessIsGuests
PROPERTIES
    CommandReturns
CHECK_DEADLOCK FALSE
