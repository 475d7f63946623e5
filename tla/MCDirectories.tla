---------------------------- MODULE MCDirectories ----------------------------
(***************************************************************************)
(* A small key space for Directories: a name that is a file and a          *)
(* directory and is called md, a sibling whose name begins alike, and the  *)
(* names of the metadata of one file and of the lock of the other, used    *)
(* for values.                                                             *)
(***************************************************************************)
EXTENDS Directories

MCKeySeq ==
  <<<<"lock", "one", "md">>, <<"md", "onesie", "two">>, <<"one", "md">>, <<"one", "md", "two">>,
    <<"onesie", "two">>>>

MCLockName == {<<"one", "md">>, <<"onesie", "two">>}

MCQuery == {<<>>, <<"one">>, <<"one", "md">>, <<"onesie">>}

MCLonger == {<<"one", "onesie">>}

\* Another storage has the KeyPrefix of this one and a 2 after it.
MCNeighbour == {<<"2", "one">>}

=============================================================================
