CONSTANTS
  Keys = {"a", "up", "eight", "kenter", "lshift", "rshift", "lctl", "rctl", "ralt", "caps"}
  MaxBytes = 4
  MaxEvents = 4
  KBD_BUFFER_SIZE = 3
  BUFFER_SIZE = 3
  Typeable = {"a", "cr", "bs", "^D", "up"}
  Sizes = {0, 1, 2}
  MaxTyped = 4
  Handles = {1, 2}
  MaxRead = 2
  MaxFaults = 1
SPECIFICATION DevicesSpec
INVARIANTS
  KeysGiveCharacters
  RingIsQueue
  ConsoleEdits
  FilesMatchVolume
PROPERTIES
  EnteredLineIsRead
CHECK_DEADLOCK FALSE
