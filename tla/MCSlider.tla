-------------------------------- MODULE MCSlider --------------------------------
(* Instance of the slider alone, for TLC.                                   *)
EXTENDS Slider
=============================================================================
