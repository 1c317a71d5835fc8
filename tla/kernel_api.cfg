SPECIFICATION Spec
CONSTANTS
    clock = clock
    log_daemon = log_daemon
    sys_monitor = sys_monitor
    note = note
    copy = copy
    NoPid = NoPid
    Pid = {clock, note}
    Daemons = {clock}
    task_name <- MC_task_name
    ram_req <- MC_ram_req
    hdd_req <- MC_hdd_req
    MAX_PROCESSES = 2
    DEFAULT_PRIORITY_Q0 = 0
    DEFAULT_PRIORITY_Q1 = 1
    DEFAULT_PRIORITY_Q2 = 2
    MAX_PRIORITY = 3
    AGING_INTERVAL = 1
    Q0_PROMOTE_THRESH = 1
    total_RAM = 3
    total_HDD = 2
    total_cores = 2
    Commands = {"launch"}
    Api = {"send_interrupt", "set_process_priority", "update_state", "acquire_core"}
    MaxApiCalls = 1
PROPERTIES
    LevelsOnlyRise
    AccountingStep
CHECK_DEADLOCK FALSE
