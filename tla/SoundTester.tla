------------------------------ MODULE SoundTester ------------------------------
(***************************************************************************)
(* The goom detector (evaluate_sound of Goom/sound_tester.c).  A goom is a *)
(* frame whose acceleration is above goom_limit; at the end of a period of *)
(* 64 frames the limit is corrected for the number of gooms of the period. *)
(* Evaluate is one call.                                                   *)
(*                                                                         *)
(* Levels are in hundredths, rounded down.  The filter that makes the      *)
(* acceleration and the speed out of the samples is left out: both are     *)
(* inputs.  Big gooms, which nothing reads, are left out too.              *)
(***************************************************************************)
EXTENDS Integers

CONSTANTS
  Levels,       \* values of accelvar, in hundredths
  Period,       \* frames between two corrections (64)
  Some, Many, Storm \* gooms of a period that call for a higher limit (4, 7, 16)

ASSUME SoundAssumption ==
  /\ Levels \subseteq 0 .. 100 /\ Period \in Nat \ {0}
  /\ {Some, Many, Storm} \subseteq Nat /\ 1 <= Some /\ Some <= Many /\ Many <= Storm

VARIABLES
  cycle,        \* cycle, modulo Period
  goom,         \* timeSinceLastGoom is 0
  total,        \* totalgoom
  goomLimit,    \* goom_limit
  peak,         \* prov_max
  heard         \* history: the highest level of the last whole period, or -1

sound == <<cycle, goom, total, goomLimit, peak, heard>>

-----------------------------------------------------------------------------
Capped(l) == IF l > 100 THEN 100 ELSE l

\* More gooms than wanted raise the limit, the more the more there were.
RaisedSome(l, t)  == IF t > Some  THEN l + 2 ELSE l
RaisedMany(l, t)  == IF t > Many  THEN (l * 103) \div 100 + 3 ELSE l
RaisedStorm(l, t) == IF t > Storm THEN (l * 105) \div 100 + 4 ELSE l

\* Bug: a period without a goom leaves the limit where it is.
CorrectedByStep(l, t, p, calm) ==
  IF t = 0 THEN l ELSE RaisedStorm(RaisedMany(RaisedSome(l, t), t), t)

\* The limit of the next period; without a goom it falls just below the
\* highest level of this one.
Corrected(l, t, p, calm) ==
  LET slack  == IF calm THEN (l * 91) \div 100 ELSE l
      raised == RaisedStorm(RaisedMany(RaisedSome(slack, t), t), t)
  IN CASE t = 0            -> p - 2
       [] t = 1 /\ raised > 2 -> raised - 1
       [] OTHER            -> raised

\* The highest level so far of the period that goes on.
NextPeak(top) == IF cycle = Period - 1 THEN 0 ELSE top

-----------------------------------------------------------------------------
SoundInit ==
  /\ cycle = 0 /\ goom = FALSE /\ total = 0
  /\ goomLimit = 100 /\ peak = 0 /\ heard = -1

\* One call; calm: speedvar is below a hundredth.
Evaluate(level, calm) ==
  LET gooms == IF level > goomLimit THEN total + 1 ELSE total
      top   == IF level > peak THEN level ELSE peak
      ends  == cycle = Period - 1
  IN /\ goom' = (level > goomLimit)
     /\ goomLimit' = IF ends THEN Corrected(Capped(goomLimit), gooms, top, calm)
                             ELSE Capped(goomLimit)
     /\ total' = IF ends THEN 0 ELSE gooms
     /\ peak' = NextPeak(top)
     /\ cycle' = (cycle + 1) % Period
     /\ heard' = IF ends THEN top ELSE heard

SoundNext == \E level \in Levels, calm \in BOOLEAN : Evaluate(level, calm)
SoundSpec == SoundInit /\ [][SoundNext]_sound
SoundFair == SoundSpec /\ WF_sound(SoundNext)

-----------------------------------------------------------------------------
(* Properties.                                                             *)

\* Whatever was heard before, music that settles at any loudness has gooms
\* again and again: the limit finds back to a level that the sound reaches.
GoomsComeBack ==
  \A p \in Levels : <>[](heard = p) => []<>goom
=============================================================================
