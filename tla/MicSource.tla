------------------------------- MODULE MicSource -------------------------------
(***************************************************************************)
(* The microphone (sdl/GoomAudioSourceSdlMic.cpp): SDL's audio thread      *)
(* writes the samples it captures into a ring, the main thread copies the  *)
(* last window of it for the engine, both sample by sample under the lock  *)
(* of the device, and the main thread adjusts the gain.                    *)
(*                                                                         *)
(* Samples are loudnesses; the copy keeps the sign of a sample.            *)
(***************************************************************************)
EXTENDS Integers, Sequences, SequencesExt

CONSTANTS
  Loudness,     \* what a sample may be
  Ring,         \* kRingSize (1024)
  Window,       \* samples given to the engine (512)
  Chunks,       \* samples in a call of the audio callback
  Full,         \* a sample as loud as m_max becomes this (31000)
  ShortMax      \* the largest short (32767)

ASSUME MicAssumption ==
  /\ Loudness \subseteq 0 .. ShortMax /\ 0 \in Loudness
  /\ Ring \in Nat \ {0} /\ Window \in 1 .. Ring /\ Chunks \subseteq Nat \ {0}
  /\ ShortMax \in Nat /\ Full \in 1 .. ShortMax

VARIABLES
  ring, writePos,       \* m_ring and m_writePos
  holder,               \* who has the lock of the device
  left,                 \* samples the callback still has to write
  pos,                  \* readPos of getSample
  copied,               \* what getSample has copied
  given,                \* what it returned last, scaled
  micMax, absoluteMax, windowPeak,   \* m_max, m_absoluteMax, m_windowPeak
  recent                \* history: the last window of samples captured

mic == <<ring, writePos, holder, left, pos, copied, given,
         micMax, absoluteMax, windowPeak, recent>>

-----------------------------------------------------------------------------
Nobody == "nobody"

\* A value cut to sixteen bits.
Short(x) == ((x + ShortMax + 1) % (2 * (ShortMax + 1))) - (ShortMax + 1)

Loudest(s) == CHOOSE v \in ToSet(s) : \A w \in ToSet(s) : w <= v

\* What a sample becomes under a maximum of 0 or more.
Scaled(v, top) == Short((Full * v) \div (IF top = 0 THEN 1 ELSE top))

\* idle: the maximum follows the peak up, goes down by a twentieth at most once a
\* second, and is cut to half of the highest it ever was.
Adjusted(decay) ==
  IF windowPeak > micMax THEN windowPeak
  ELSE IF decay THEN (micMax * 95) \div 100 ELSE micMax
Highest(m) == IF m > absoluteMax THEN m ELSE absoluteMax
Halved(m, top) == IF m > top \div 2 THEN top \div 2 ELSE m

-----------------------------------------------------------------------------
MicInit ==
  /\ ring = [p \in 0 .. Ring - 1 |-> 0] /\ writePos = 0
  /\ holder = Nobody /\ left = 0 /\ pos = 0 /\ copied = <<>>
  /\ given = [k \in 1 .. Window |-> 0]
  /\ micMax = 0 /\ absoluteMax = 0 /\ windowPeak = 0
  /\ recent = [k \in 1 .. Window |-> 0]

\* SDL takes the lock and calls audioCallback.
Callback ==
  /\ holder = Nobody /\ holder' = "callback"
  /\ left' \in Chunks
  /\ UNCHANGED <<ring, writePos, pos, copied, given, micMax, absoluteMax, windowPeak, recent>>

Write ==
  /\ left > 0
  /\ \E v \in Loudness :
       /\ ring' = [ring EXCEPT ![writePos] = v]
       /\ recent' = Tail(recent) \o <<v>>
  /\ writePos' = (writePos + 1) % Ring
  /\ left' = left - 1
  /\ holder' = IF left = 1 THEN Nobody ELSE holder
  /\ UNCHANGED <<pos, copied, given, micMax, absoluteMax, windowPeak>>

\* Bug: getSample does not wait for the lock.
DeviceFreeUnchecked == copied = <<>>

\* The lock of the device is to be had.
DeviceFree == holder = Nobody

\* getSample, with the lock, from one window behind the next write.
Lock ==
  /\ DeviceFree /\ pos = 0 /\ copied = <<>>
  /\ \E p \in {(writePos - Window) % Ring} :
       copied' = <<ring[p]>> /\ pos' = (p + 1) % Ring
  /\ holder' = "reader"
  /\ UNCHANGED <<ring, writePos, left, given, micMax, absoluteMax, windowPeak, recent>>

Copy ==
  /\ copied # <<>> /\ Len(copied) < Window
  /\ copied' = Append(copied, ring[pos])
  /\ pos' = (pos + 1) % Ring
  /\ UNCHANGED <<ring, writePos, holder, left, given, micMax, absoluteMax, windowPeak, recent>>

\* The copy is complete: the lock is released and the window is scaled.
Give ==
  /\ Len(copied) = Window
  /\ holder' = Nobody
  /\ windowPeak' = IF Loudest(copied) > windowPeak THEN Loudest(copied) ELSE windowPeak
  /\ given' = [k \in 1 .. Window |-> Scaled(copied[k], micMax)]
  /\ copied' = <<>> /\ pos' = 0
  /\ UNCHANGED <<ring, writePos, left, micMax, absoluteMax, recent>>

\* idle, on the main thread too, between two calls of getSample.
MicIdle(decay) ==
  /\ copied = <<>>
  /\ absoluteMax' = Highest(Adjusted(decay))
  /\ micMax' = Halved(Adjusted(decay), absoluteMax')
  /\ windowPeak' = 0
  /\ UNCHANGED <<ring, writePos, holder, left, pos, copied, given, recent>>

MicNext == Callback \/ Write \/ Lock \/ Copy \/ Give \/ \E decay \in BOOLEAN : MicIdle(decay)
MicSpec == MicInit /\ [][MicNext]_mic

-----------------------------------------------------------------------------
(* Properties.                                                             *)

\* The window that is given to the engine is whole: the last samples captured,
\* in their order, however the audio thread and the main thread alternate.
WindowWhole == Len(copied) = Window => copied = recent

\* "normalize to +-31000": once a maximum is known, a sample given to the engine
\* is neither louder than that nor turned over.
Normalised == [][micMax > 0 => \A k \in 1 .. Window : given'[k] \in {given[k]} \cup 0 .. Full]_mic
=============================================================================
