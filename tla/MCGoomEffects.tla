----------------------------- MODULE MCGoomEffects -----------------------------
(* Instances of the scene of the engine, of the effects and of the sound    *)
(* they follow, for TLC.  They share no state: one of them moves in a       *)
(* behaviour, the others rest.                                              *)
EXTENDS FlyingStars, Tentacles, SoundTester, MicSource, GoomWidget

VARIABLE moving

effects == <<pool, tentacles, sound, mic, widget, moving>>

MCBursts  == [m \in {0, 1} |-> IF m = 0 THEN {1} ELSE {3}]
MCTrickle == [m \in {0, 1} |-> 1]
MCRates   == [m \in {0, 1} |-> m + 1]
MCGarbage == {0, 2, -1}
MCStates  == [ifs : BOOLEAN, scope : BOOLEAN]
MCFirst   == [ifs |-> TRUE, scope |-> TRUE]
MCCalm    == [ifs |-> FALSE, scope |-> FALSE]
MCLight   == [p \in 0 .. 5 |-> IF p < 4 THEN 0 ELSE 10 * p]
MCSteps   == {1, -4}

MCInit ==
  /\ moving \in {"stars", "tentacles", "sound", "mic", "show"}
  /\ StarsInit /\ TentInit /\ SoundInit /\ MicInit /\ WidgetInit
  /\ moving # "stars" => fxMode = 0 /\ starLimit = Alloc
  /\ moving # "tentacles" =>
       /\ rest = 0 /\ tent.prevDrawit = FALSE /\ tent.wave = FALSE
       /\ param.enabled = FALSE /\ param.always = FALSE

MoveStars(a) ==
  moving = "stars" /\ a /\ UNCHANGED <<tentacles, sound, mic, widget, moving>>
MoveTentacles(a) ==
  moving = "tentacles" /\ a /\ UNCHANGED <<pool, sound, mic, widget, moving>>
MoveSound(a) ==
  moving = "sound" /\ a /\ UNCHANGED <<pool, tentacles, mic, widget, moving>>
MoveMic(a) ==
  moving = "mic" /\ a /\ UNCHANGED <<pool, tentacles, sound, widget, moving>>
MoveShow(a) ==
  moving = "show" /\ a /\ UNCHANGED <<pool, tentacles, sound, mic, moving>>

MCNext == \/ MoveStars(StarsNext)
          \/ MoveTentacles(TentNext)
          \/ MoveSound(SoundNext)
          \/ MoveMic(MicNext)
          \/ MoveShow(WidgetNext)

MCFair == /\ MCInit /\ [][MCNext]_effects
          /\ WF_effects(MoveStars(Turns))
          /\ WF_effects(MoveTentacles(Frame))
          /\ WF_effects(MoveSound(SoundNext))
          /\ WF_effects(MoveShow(Draw)) /\ SF_effects(MoveShow(Due))
          /\ \A d \in {k \in Steps : k > 0} : WF_effects(MoveShow(Idle(d)))
=============================================================================
