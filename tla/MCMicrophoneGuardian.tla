------------------------ MODULE MCMicrophoneGuardian ------------------------
(* One microphone, whose helper may be started twice to mute it.             *)
EXTENDS MicrophoneGuardian
CONSTANT m1
=============================================================================
