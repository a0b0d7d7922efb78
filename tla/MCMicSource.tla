------------------------------ MODULE MCMicSource ------------------------------
(* Instance of the microphone with loud samples, for TLC.                   *)
EXTENDS MicSource
=============================================================================
