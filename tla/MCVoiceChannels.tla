--------------------------- MODULE MCVoiceChannels ---------------------------
(***************************************************************************)
(* VoiceChannels for TLC: two threads call VoEBase, one of them also goes  *)
(* over the channels as an audio thread does, while a network thread       *)
(* delivers packets.                                                       *)
(***************************************************************************)
EXTENDS VoiceChannels

CONSTANTS main, other, network

MCThread == {main, other, network}
MCApi == {main, other}
MCSocket == {network}
MCAudio == {other}

=============================================================================
