---------------------------- MODULE MCConsumerApi ----------------------------
(* ConsumerApi for TLC.                                                     *)
EXTENDS ConsumerApi, TLC

CONSTANTS c1, c2, p1, p2

\* Every connection is opened by a process of its own.
OwnPid == c1 :> p1 @@ c2 :> p2
OwnPidOf == [c \in Conns |-> OwnPid[c]]
ASSUME MCProcesses == OneProcessEach

\* Descriptors are interchangeable.
FdSymmetry == Permutations(Fds)
=============================================================================
