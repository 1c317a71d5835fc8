SPECIFICATION FairSpec
CONSTANTS
    Player = {player}
    Clock = {clock_daemon}
    Quiet = {log_daemon}
    Daemon = {clock_daemon, log_daemon}
    Shell = Shell
PROPERTIES
    QStopsSong
CHECK_DEADLOCK FALSE
