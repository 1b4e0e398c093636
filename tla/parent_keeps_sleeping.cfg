SPECIFICATION Spec
CONSTANTS
    MAX_PROCESS_NUM = 4
    PROCESS_TICKS = 1
    Kind <- JustSem
    Code = {0}
    Size = {4}
    MaxSleep = 0
    SemInit = 0
    SemMax = 1
    MaxKernelTicks = 1
    ArmThenRead = FALSE
INVARIANTS
    ParentKeepsSleeping
