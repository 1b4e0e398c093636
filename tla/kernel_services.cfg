CONSTANTS
  Slots = {0, 1, 2}
  Pids = {0, 1}
  MaxObjects = 3
  NormalBegin = 1
  SegmentBegin = 2
  MaxDevices = 2
  MaxPaths = 2
  Names = {"CON"}
  Objs = {1, 2, 3}
  IntBits = 8
  Keeps = {{}, {0}}
  MaxSections = 1
  Space = 5
  MaxArgs = 3
  ArgCopy = 3
  BufferSize = 6
  Chars = {" ", "a", "-"}
  MaxLen = 7
  MaxWords = 2
SPECIFICATION ServicesSpec
INVARIANTS
  TasksNeverFault
  ProcessesResume
  RefCountsExact
  ProgramIsLoaded
  CmdlineParsed
PROPERTIES
  KeepsDescriptorPromise
CHECK_DEADLOCK FALSE
