---------------------------- MODULE MCEtcdStorage ----------------------------
(***************************************************************************)
(* Small instances of EtcdStorage for TLC: two files in one directory, and *)
(* values of different lengths with different digests.                     *)
(***************************************************************************)
EXTENDS EtcdStorage, TLC

CONSTANTS dir, fa, fb, v1, v2, h1, h2

MCBelow == (dir :> {fa, fb}) @@ (fa :> {}) @@ (fb :> {})

MCHash == (v1 :> h1) @@ (v2 :> h2)

MCSize == (v1 :> 1) @@ (v2 :> 2)

ASSUME FilesAreLeaves

=============================================================================
