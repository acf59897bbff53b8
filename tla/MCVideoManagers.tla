--------------------------- MODULE MCVideoManagers ---------------------------
(***************************************************************************)
(* Small instances of VideoManagers.                                       *)
(***************************************************************************)
EXTENDS VideoManagers, TLC

Symmetry == Permutations(Thread) \cup Permutations(Channel) \cup Permutations(CaptureId)

=============================================================================
