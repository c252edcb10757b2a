------------------------------ MODULE UploadMC ------------------------------
(***************************************************************************)
(* Instances of Upload for TLC.                                            *)
(***************************************************************************)
EXTENDS Upload

CONSTANTS u1, u2

File(servers, size, isSticky) == [urls |-> servers, nbytes |-> size, sticky |-> isSticky]
ManyFiles == {File(<<u1>>, 0, FALSE), File(<<u1>>, 2, FALSE), File(<<u1, u2>>, 1, TRUE)}
=============================================================================
