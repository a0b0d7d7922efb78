------------------------------- MODULE Tentacles -------------------------------
(***************************************************************************)
(* What the 3D tentacles (Goom/tentacle3d.c) do when: the shape resolved   *)
(* at each show, the shape that the grids carry, which is the one drawn    *)
(* (surf3d.c), the envelope that lets a show fade in and out, the wave     *)
(* mode that only the tentacle shape has, and the sweeps of the camera,    *)
(* started by gooms in the wave mode and by chance otherwise, each         *)
(* followed by a rest.  TentUpdate is one call of tentacle_fx_apply.       *)
(*                                                                         *)
(* All grids are given their shape together: one stands for them.          *)
(* Colours, brightness, camera angles and the mesh are left out.           *)
(***************************************************************************)
EXTENDS Integers

CONSTANTS
  WaveSweeps,   \* lengths of a sweep in the wave mode (24 to 47 frames)
  ChanceSweeps, \* lengths of a sweep by chance (100 to 159)
  FadeFrames,   \* steps of the envelope, from nothing to full (125)
  Garbage       \* what lock may hold in memory that malloc returned

ASSUME TentacleAssumption ==
  /\ WaveSweeps \subseteq Nat \ {0} /\ ChanceSweeps \subseteq Nat \ {0}
  /\ FadeFrames \in Nat \ {0}
  /\ Garbage \subseteq Int

Shapes == {"tentacle", "ripple", "tunnel"}
AutoShape == "auto"

VARIABLES
  param,        \* the parameters [enabled, always, shape]
  tent,         \* TentacleFXData: [prevDrawit, wave, shape, lastReq, grids]
  fade,         \* fadeEnv in its steps: nothing is drawn at 0
  happens,      \* frames left of the sweep
  rest          \* lock: frames left of the rest

tentacles == <<param, tent, fade, happens, rest>>

-----------------------------------------------------------------------------
Params == [enabled : BOOLEAN, always : BOOLEAN, shape : Shapes \cup {AutoShape}]

\* A show begins: the state or "Always Show" asks for tentacles that were not
\* drawn by the frame before.
Rising(drawit) == drawit /\ ~tent.prevDrawit

\* The shape is resolved when a show begins and when its parameter changes.
AsksShape(drawit) == Rising(drawit) \/ param.shape # tent.lastReq

NewShapes(drawit) ==
  CASE ~AsksShape(drawit)   -> {tent.shape}
    [] AsksShape(drawit) /\ param.shape # AutoShape -> {param.shape}
    [] AsksShape(drawit) /\ param.shape = AutoShape ->
         IF Rising(drawit) THEN Shapes ELSE {tent.shape}

\* A show of tentacles draws its mode; another shape has no wave mode.
Waves(drawit, shape) ==
  IF Rising(drawit) /\ shape = "tentacle" THEN BOOLEAN
  ELSE IF AsksShape(drawit) /\ shape # tent.shape /\ shape # "tentacle" THEN {FALSE}
  ELSE {tent.wave}

\* fadeEnv moves by TENTACLE_FADE_STEP, between nothing and full.
Faded(drawit) ==
  CASE drawit  -> IF fade < FadeFrames THEN fade + 1 ELSE FadeFrames
    [] ~drawit -> IF fade > 0 THEN fade - 1 ELSE 0

\* Bug: the grids are kept when a show begins.
FormedOfOld(drawit, wave, shape) ==
  IF Faded(drawit) > 0 /\ (wave \/ shape # "tentacle") THEN shape ELSE tent.grids

\* tentacle_recreate makes grids of the tentacle shape.  A frame that draws
\* gives them the shape, except in the mode that draws classic tentacles.
Formed(drawit, wave, shape) ==
  IF Faded(drawit) > 0 /\ (wave \/ shape # "tentacle") THEN shape
  ELSE IF Rising(drawit) THEN "tentacle"
  ELSE tent.grids

Resolved(drawit) ==
  UNION {{[prevDrawit |-> drawit, wave |-> w, shape |-> s,
           lastReq |-> IF AsksShape(drawit) THEN param.shape ELSE tent.lastReq,
           grids   |-> Formed(drawit, w, s)] :
             w \in Waves(drawit, s)} : s \in NewShapes(drawit)}

\* pretty_move: a sweep runs to its end, a rest of half as much again follows,
\* then a goom (in the wave mode) or chance starts the next one.
Moved(wave, goom) ==
  IF happens > 0 THEN {<<happens - 1, rest>>}
  ELSE IF rest # 0 THEN {<<0, IF rest < 0 THEN rest ELSE rest - 1>>}
  ELSE {<<h, (h * 3) \div 2>> : h \in IF wave THEN IF goom THEN WaveSweeps ELSE {0}
                                       ELSE {0} \cup ChanceSweeps}

-----------------------------------------------------------------------------
\* tentacle_fx_init leaves lock, prevDrawit and mode as malloc returned them.
TentInit ==
  /\ param \in {p \in Params : p.shape = AutoShape}
  /\ tent \in [prevDrawit : BOOLEAN, wave : BOOLEAN, shape : {"tentacle"}, lastReq : {AutoShape},
               grids : {"tentacle"}]
  /\ fade = 0 /\ happens = 0 /\ rest \in Garbage

\* A parameter is written between two frames.
SetParam == /\ param' \in Params
            /\ UNCHANGED <<tent, fade, happens, rest>>

\* One frame: shown says that the state of the show has tentacles.
TentUpdate(shown, goom) ==
  /\ IF param.enabled
       THEN /\ tent' \in Resolved(shown \/ param.always)
            /\ fade' = Faded(shown \/ param.always)
            /\ \E next \in Moved(tent'.wave, goom) : happens' = next[1] /\ rest' = next[2]
       ELSE tent' = [tent EXCEPT !.prevDrawit = FALSE] /\ UNCHANGED <<fade, happens, rest>>
  /\ UNCHANGED param

Frame    == \E shown, goom \in BOOLEAN : TentUpdate(shown, goom)
TentNext == SetParam \/ Frame
TentSpec == TentInit /\ [][TentNext]_tentacles
TentFair == TentSpec /\ WF_tentacles(Frame)

-----------------------------------------------------------------------------
(* Properties.                                                             *)

Asked(s) == param.enabled /\ param.shape = s

\* A shape that the parameter asks for comes to be drawn and stays, though it
\* is asked for in the middle of a show, while one fades out or while the effect
\* is disabled: a surface as soon as anything is drawn, tentacles as soon as a
\* show begins.
RequestedShape ==
  /\ \A s \in Shapes \ {"tentacle"} :
       <>[]Asked(s) /\ []<>(fade > 0) => <>[](tent.grids = s)
  /\ <>[]Asked("tentacle") /\ []<>tent.prevDrawit /\ []<>~tent.prevDrawit
       => <>[](tent.grids = "tentacle")

\* What is drawn has the current shape: "la forme de la grille suit toujours la
\* forme courante".
GridsFollow == fade > 0 => tent.grids = tent.shape
=============================================================================
