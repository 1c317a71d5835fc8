SPECIFICATION FairSpec
CONSTANTS
    Nobody = Nobody
    Thread <- MC_Thread
    role <- MC_role
    MaxDeaths = 2
INVARIANTS
    OnlyHandlerBlocksItself
PROPERTIES
    DeadAreReaped
CHECK_DEADLOCK FALSE
