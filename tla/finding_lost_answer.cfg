SPECIFICATION Spec
CONSTANTS
    Desc = {"child", "thread", "answer", "listener"}
    MaxFifos = 2
INVARIANTS
    AnswerIsRead
CHECK_DEADLOCK FALSE
