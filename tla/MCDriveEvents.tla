--------------------------- MODULE MCDriveEvents ---------------------------
(***************************************************************************)
(* Instances of DriveEvents for TLC.                                       *)
(***************************************************************************)
EXTENDS DriveEvents, TLC

\* Threads are interchangeable, and so are files; used without liveness only.
Symmetry == Permutations(Workers) \cup Permutations(Files)

=============================================================================
