SPECIFICATION Spec
CONSTANTS
    MAX_PROCESS_NUM = 3
    PROCESS_TICKS = 2
    Kind <- AllDevices
    Code = {0}
    Size = {4}
    MaxSleep = 2
    SemInit = 0
    SemMax = 1
    MaxKernelTicks = 1
    ArmThenRead = TRUE
PROPERTIES
    EveryRunnableRuns
    SleeperWakes
    WaiterWakes
