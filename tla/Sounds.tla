----------------------------------- MODULE Sounds -----------------------------------
(***************************************************************************)
(* The sounds of the toolkit: the switch of gametools/audio.cpp, and the   *)
(* mixer of sdl/SdlAudioManager.cpp, whose list of sounds being played is  *)
(* shared by the main thread and the callback of the audio device.  Both   *)
(* hold a mutex for as long as they use it, so each is one step.  While    *)
(* the program is paused (SdlLoop) the callback mixes nothing.             *)
(*                                                                         *)
(* A sound is the number of buffers it has left; samples, volumes and      *)
(* identifiers are left out.  The same sound is not started twice within   *)
(* 25 ms: a request that comes too soon does nothing.  No music can be     *)
(* loaded any more (loadMusic returns NULL), and it is left out.           *)
(***************************************************************************)
EXTENDS SdlLoop, SequencesExt

CONSTANTS
  MaxPlaying,   \* bound: sounds in the list
  MaxBuffers    \* bound: length of a sound

ASSUME SoundAssumption == MaxPlaying \in Nat /\ MaxBuffers \in Nat

VARIABLES
  soundOn,      \* sound_on of AudioManager
  enabled,      \* m_soundEnabled of the mixer
  playing,      \* m_sounds: what each has left
  device        \* the device is open

sounds == <<soundOn, enabled, playing, device>>

\* AudioManager::init reads the preference, and leaves the mixer enabled.  The
\* device may fail to open.
SoundsInit ==
  /\ soundOn \in BOOLEAN /\ enabled = TRUE
  /\ playing = <<>> /\ device \in BOOLEAN

PlaySound(n) ==
  /\ running # "no" /\ enabled
  /\ Len(playing) < MaxPlaying
  /\ playing' = Append(playing, n)
  /\ UNCHANGED <<soundOn, enabled, device>>

\* soundOnOff, and setSoundEnabled: what is being played is cut.
SoundOnOff(on) ==
  /\ running # "no" /\ soundOn # on
  /\ soundOn' = on /\ enabled' = on
  /\ playing' = IF on THEN playing ELSE <<>>
  /\ UNCHANGED device

\* Bug: a sound stays in the list once its samples have been played.
StillPlaying(s) == [i \in DOMAIN s |-> IF s[i] > 0 THEN s[i] - 1 ELSE 0]

\* mix: those that have come to their end leave the list.
Mixed(s) == SelectSeq([i \in DOMAIN s |-> s[i] - 1], LAMBDA left : left > 0)

\* audioCallback, on the thread of the device.
AudioCallback ==
  /\ device /\ ~paused
  /\ playing' = Mixed(playing)
  /\ UNCHANGED <<soundOn, enabled, device>>

\* stop, once the loop has ended.
StopAudio ==
  /\ running = "no" /\ device' = FALSE
  /\ UNCHANGED <<soundOn, enabled, playing>>

Playing == \E n \in 1..MaxBuffers : PlaySound(n)

SoundsNext ==
  Playing \/ (\E on \in BOOLEAN : SoundOnOff(on)) \/ AudioCallback \/ StopAudio

-----------------------------------------------------------------------------
(* The loop and the sounds together.                                       *)

front == <<sdl, sounds>>

FrontInit == SdlInit /\ SoundsInit
FrontNext == \/ SdlNext /\ UNCHANGED sounds
             \/ SoundsNext /\ UNCHANGED sdl

FrontSpec == FrontInit /\ [][FrontNext]_front

\* SDL calls back for as long as the device is open.
FrontFair == /\ FrontSpec
             /\ WF_front((HandleEvent \/ Doze \/ Frame) /\ UNCHANGED sounds)
             /\ WF_front(AudioCallback /\ UNCHANGED sdl)

-----------------------------------------------------------------------------
(* Properties.                                                             *)

\* What plays comes to an end, unless new sounds follow for ever, the program
\* is paused or has no device.
SoundsEnd ==
  []<><<Playing>>_sounds \/ []<>(playing = <<>> \/ paused \/ ~device)
=============================================================================
