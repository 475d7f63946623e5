---------------------------- MODULE MCLockedStorage ----------------------------
(***************************************************************************)
(* A small instance of LockedStorage for TLC: every worker is the only one *)
(* of its process, and the token of the process is named after it.         *)
(***************************************************************************)
EXTENDS LockedStorage, TLC

CONSTANTS w1, w2

MCOwnProcess == [w \in Worker |-> w]

\* Every clock is right.
MCNoSkew == [t \in Token |-> 0]

\* Lease identifiers are interchangeable, and so are the processes.
SystemSymmetry == Permutations(Lease) \cup Permutations(Worker)

=============================================================================
