------------------------------ MODULE MCKernel ------------------------------
(* Instances of Kernel for TLC: the blocking devices of each run. *)
EXTENDS Kernel

JustSem == <<"sem">>
JustSleep == <<"sleep">>
AllDevices == <<"wait", "sleep", "sem">>
=============================================================================
