------------------------------ MODULE MCEtcdLock ------------------------------
(***************************************************************************)
(* Small instances of EtcdLock for TLC.                                    *)
(***************************************************************************)
EXTENDS EtcdLock, TLC

CONSTANTS w1, w2, w3, ta, tb

\* Two processes with one worker each.
MCTokenOf == (w1 :> ta) @@ (w2 :> tb)

\* Two goroutines of one process and one of another.
MCSiblings == (w1 :> ta) @@ (w2 :> ta) @@ (w3 :> tb)

\* Every clock is right.
MCNoSkew == (ta :> 0) @@ (tb :> 0)

\* The clock of the second process is one unit ahead.
MCSkew == (ta :> 0) @@ (tb :> 1)

\* Lease identifiers are interchangeable, and so are the goroutines of one
\* process.
SiblingSymmetry == Permutations(Lease) \cup Permutations({w1, w2})

=============================================================================
