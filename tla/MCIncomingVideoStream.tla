------------------------ MODULE MCIncomingVideoStream ------------------------
(***************************************************************************)
(* A small instance of IncomingVideoStream.                                *)
(***************************************************************************)
EXTENDS IncomingVideoStream

==============================================================================
