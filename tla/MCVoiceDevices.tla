---------------------------- MODULE MCVoiceDevices ----------------------------
(***************************************************************************)
(* Small instances of VoiceDevices.                                        *)
(***************************************************************************)
EXTENDS VoiceDevices

==============================================================================
