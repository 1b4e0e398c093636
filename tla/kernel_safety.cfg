SPECIFICATION Spec
CONSTANTS
    MAX_PROCESS_NUM = 3
    PROCESS_TICKS = 2
    Kind <- AllDevices
    Code = {0}
    Size = {0, 4}
    MaxSleep = 2
    SemInit = 0
    SemMax = 1
    MaxKernelTicks = 2
    ArmThenRead = FALSE
INVARIANTS
  SleepersHaveOneWaker
  ParentHasChild
  SomeoneRuns
  CleanForkStack
  NoLostSignal
  IInv
PROPERTIES
  SleepsLongEnough
