---------------------------- MODULE MCProcessThread ----------------------------
(***************************************************************************)
(* Small instances of ProcessThread.                                       *)
(***************************************************************************)
EXTENDS ProcessThread

==============================================================================
