-------------------------- MODULE DescriptorStore --------------------------
(* What the descriptor tables of the processes promise, without reference  *)
(* counts: every process maps descriptors to objects, a call changes only  *)
(* the entries it names, an object exists exactly as long as a table or a  *)
(* registered name refers to it, and the poller of blocking devices sees   *)
(* exactly the blocking objects that exist.  ObjectTable implements it.    *)
EXTENDS Naturals, Functions

CONSTANTS Pids, Fds, Objs, None, NormalBegin, SegmentBegin

VARIABLES fds,      \* [Pids -> [Fds -> Objs \cup {None}]]
          live,     \* the processes that exist
          pinned,   \* objects the kernel itself keeps: devices with a name
          exists,   \* the objects that exist
          watched   \* the blocking objects the poller visits

vars == <<fds, live, pinned, exists, watched>>

NoFds == [i \in Fds |-> None]

Init ==
  /\ fds = [p \in Pids |-> NoFds]
  /\ live = {}
  /\ pinned = {}
  /\ exists = {}
  /\ watched = {}

Referenced(f, n) == (UNION {Range(f[p]) : p \in Pids} \cup n) \ {None}

(* Every step ends with exactly the referenced objects in existence.       *)
Collect(new) ==
  /\ exists' = Referenced(fds', pinned')
  /\ watched' = (watched \cup new) \cap exists'

Name(o) ==
  /\ o \notin exists
  /\ pinned' = pinned \cup {o}
  /\ UNCHANGED <<fds, live>>
  /\ Collect({o})

Start(p, f) ==
  /\ live = {}
  /\ Range(f) \subseteq pinned \cup {None}
  /\ live' = {p}
  /\ fds' = [fds EXCEPT ![p] = f]
  /\ UNCHANGED pinned
  /\ Collect({})

Attach(p, i, o, new) ==
  /\ p \in live
  /\ i >= NormalBegin
  /\ fds[p][i] = None
  /\ o \in pinned \/ o \notin exists
  /\ fds' = [fds EXCEPT ![p][i] = o]
  /\ UNCHANGED <<live, pinned>>
  /\ Collect(new)

Close(p, i) ==
  /\ p \in live
  /\ fds' = [fds EXCEPT ![p][i] = None]
  /\ UNCHANGED <<live, pinned>>
  /\ Collect({})

Dup(p, i, j) ==
  /\ p \in live
  /\ fds[p][i] # None
  /\ fds' = [fds EXCEPT ![p][j] = fds[p][i]]
  /\ UNCHANGED <<live, pinned>>
  /\ Collect({})

Clone(p, c) ==
  /\ p \in live
  /\ c \notin live
  /\ live' = live \cup {c}
  /\ fds' = [fds EXCEPT ![c] = fds[p]]
  /\ UNCHANGED pinned
  /\ Collect({})

Exit(p) ==
  /\ p \in live
  /\ live' = live \ {p}
  /\ fds' = [fds EXCEPT ![p] = NoFds]
  /\ UNCHANGED pinned
  /\ Collect({})

(* An exec keeps the chosen descriptors, drops the others, and adds        *)
(* distinct new objects (the program's segments) at the high descriptors.  *)
Exec(p, keep) ==
  /\ p \in live
  /\ \E segs \in SUBSET {i \in Fds : i >= SegmentBegin} :
       \E new \in Injection(segs, Objs \ exists) :
         /\ \A i \in segs : i \in keep => fds[p][i] = None
         /\ fds' = [fds EXCEPT ![p] = [i \in Fds |->
                      IF i \in segs THEN new[i] ELSE
                      IF i \in keep THEN fds[p][i] ELSE None]]
  /\ UNCHANGED <<live, pinned>>
  /\ Collect({})

Next ==
  \/ \E o \in Objs : Name(o)
  \/ \E p \in Pids :
       \/ \E f \in [Fds -> {None} \cup pinned] : Start(p, f)
       \/ \E i \in Fds, o \in Objs : Attach(p, i, o, {}) \/ Attach(p, i, o, {o})
       \/ \E i \in Fds : Close(p, i)
       \/ \E i, j \in Fds : Dup(p, i, j)
       \/ \E c \in Pids : Clone(p, c)
       \/ Exit(p)
       \/ \E keep \in SUBSET Fds : Exec(p, keep)

Spec == Init /\ [][Next]_vars
=============================================================================
