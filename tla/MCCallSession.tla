---------------------------- MODULE MCCallSession ----------------------------
(***************************************************************************)
(* CallSession for TLC.  The uninitialised camera id is drawn from a       *)
(* negative value, "none", both ids a capture device can have and an id    *)
(* that no device has.                                                     *)
(***************************************************************************)
EXTENDS CallSession

MCGarbage == {-1, 0, 1, 2, 3}

=============================================================================
