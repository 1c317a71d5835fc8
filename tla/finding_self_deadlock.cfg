SPECIFICATION FairSpec
CONSTANTS
    Nobody = Nobody
    Thread <- MC_Thread
    role <- MC_role
    MaxDeaths = 2
PROPERTIES
    HandlerEnds
CHECK_DEADLOCK FALSE
