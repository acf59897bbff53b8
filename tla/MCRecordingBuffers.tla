-------------------------- MODULE MCRecordingBuffers --------------------------
(***************************************************************************)
(* Small instances of RecordingBuffers.                                    *)
(***************************************************************************)
EXTENDS RecordingBuffers

==============================================================================
