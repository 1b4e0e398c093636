------------------------------ MODULE MCDevices -----------------------------
(* The keyboard driver, the line editor of the console and the files of    *)
(* the boot disk side by side.  A behaviour exercises the one that `part'  *)
(* names; the others stay at an initial state.  RingIsQueue, ConsoleEdits  *)
(* and EnteredLineIsRead are those of LineInput.                           *)
EXTENDS LineInput, FatVolumes

CONSTANTS Keys, MaxBytes, MaxEvents,    \* Keyboard
          Handles, MaxRead, MaxFaults   \* FatFile

VARIABLES part,
          shift, controller, down, half, capsOn, due, chars, events,
          vol, fat, bounce, file, path, read, listing, faults

keyboard_ == <<shift, controller, down, half, capsOn, due, chars, events>>
file_ == <<vol, fat, bounce, file, path, read, listing, faults>>
all_ == <<part, keyboard_, vars, file_>>

K == INSTANCE Keyboard
F == INSTANCE FatFile
       WITH SectorCells <- 2, SectorsPerCluster <- 2, FatNum <- 2, FatSize <- 3, Hidden <- 1,
            RootSectors <- 2, Volumes <- MCVolumes, Paths <- MCPaths, got <- read

DevicesInit ==
  /\ part \in {"keyboard", "line", "file"}
  /\ part # "file" => vol = Volume(<<5, 2>>, 3, <<>>)
  /\ K!Init /\ Init /\ F!Init

DevicesNext ==
  \/ part = "keyboard" /\ K!Next /\ UNCHANGED <<part, vars, file_>>
  \/ part = "line" /\ Next /\ UNCHANGED <<part, keyboard_, file_>>
  \/ part = "file" /\ F!Next /\ UNCHANGED <<part, keyboard_, vars>>

(* A reading system call runs to its end, and programs keep reading.       *)
Reader == TestEmpty \/ Fetch \/ Advance \/ Answer
InLine(A) == part = "line" /\ A /\ UNCHANGED <<part, keyboard_, file_>>
DevicesFairness == /\ WF_all_(InLine(Reader))
                   /\ \A n \in Sizes \ {0} : SF_all_(InLine(Read(n)))

DevicesSpec == DevicesInit /\ [][DevicesNext]_all_ /\ DevicesFairness

-----------------------------------------------------------------------------
(* kbd_raw_getc() gives the characters of the presses, and its modifiers   *)
(* are those of the keys that are down, but for a modifier both keys of    *)
(* which were down when one was released (Keyboard's Active).              *)
KeysGiveCharacters == K!KeysGiveCharacters
(* open() opens what the path names, read() returns the bytes of the file  *)
(* in the order of its chain, readdir() lists the visible entries.         *)
FilesMatchVolume == F!FilesMatchVolume
=============================================================================
