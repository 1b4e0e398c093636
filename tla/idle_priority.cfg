SPECIFICATION Spec
CONSTANTS
    MAX_PROCESS_NUM = 3
    PROCESS_TICKS = 2
    Kind <- JustSleep
    Code = {0}
    Size = {4}
    MaxSleep = 1
    SemInit = 0
    SemMax = 1
    MaxKernelTicks = 1
    ArmThenRead = FALSE
INVARIANTS
    IdleOnlyWhenIdle
