---------------------------- MODULE MCKernelWait ----------------------------
(* Instance of KernelWait for TLC: the devices processes synchronise with. *)
EXTENDS KernelWait

SemAndWait == <<"wait", "sem">>
=============================================================================
