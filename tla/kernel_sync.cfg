SPECIFICATION WaitSpec
CONSTANTS
    MAX_PROCESS_NUM = 3
    PROCESS_TICKS = 1
    Kind <- SemAndWait
    Code = {0, 1}
    Size = {0, 4}
    MaxSleep = 0
    SemInit = 0
    SemMax = 1
    MaxKernelTicks = 1
    ArmThenRead = FALSE
INVARIANTS
  WaitStatus
  PendingInBounds
  BlockingReadHasResult
