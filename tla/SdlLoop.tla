---------------------------------- MODULE SdlLoop ----------------------------------
(***************************************************************************)
(* The main loop of the desktop program (sdl/SdlMain.cpp) and the queue it *)
(* fills for the game (sdl/SdlEventManager.cpp).  Each turn handles the    *)
(* events of SDL; unless the program is paused it then brings the window   *)
(* in line with the fullscreen preference, lets the game loop consume the  *)
(* queue, draws, and takes the screenshot that was asked for.              *)
(*                                                                         *)
(* What the queue holds for the game is a key or a button, pressed or let  *)
(* go of, or an axis of the controller; codes and coordinates are left out.*)
(* There is one controller at most.                                        *)
(***************************************************************************)
EXTENDS Sequences, Integers

CONSTANTS
  MaxBurst,     \* bound: events that come in during a turn
  MaxQueue      \* bound: gestures that wait for the game

ASSUME BurstAssumption == MaxBurst \in Nat /\ MaxQueue \in Nat

VARIABLES
  running,      \* gAppRunning: "yes", "last" in the turn it was reset in, "no"
  paused,       \* gAppPaused
  wanted,       \* the preference AliHood.Fullscreen
  full,         \* the mode of the window (currentFullscreen)
  shot,         \* gScreenshotRequested
  burst, came,  \* events of SDL that wait, and how many came in the turn
  queue,        \* m_eventQueue
  pad           \* gController

sdl == <<running, paused, wanted, full, shot, burst, came, queue, pad>>

Gestures == {"key", "axis"}
Inputs   == Gestures \cup {"f", "s", "p", "quit", "plug", "unplug"}

\* --fullscreen and the preference are read before the window is made.
SdlInit ==
  /\ running = "yes" /\ paused = FALSE /\ shot = FALSE
  /\ wanted \in BOOLEAN /\ full = wanted
  /\ burst = <<>> /\ came = 0 /\ queue = <<>> /\ pad \in BOOLEAN

Arrive(input) ==
  /\ running # "no" /\ came < MaxBurst
  /\ input = "axis" => pad
  /\ input \in Gestures => Len(queue) + Len(burst) < MaxQueue
  /\ burst' = Append(burst, input) /\ came' = came + 1
  /\ UNCHANGED <<running, paused, wanted, full, shot, queue, pad>>

\* handleEvent: the shortcuts are not told to the game.
HandleEvent ==
  /\ running # "no" /\ burst # <<>>
  /\ burst' = Tail(burst)
  /\ LET input == Head(burst) IN
     /\ running' = IF input = "quit" THEN "last" ELSE running
     /\ paused'  = IF input = "p" THEN ~paused ELSE paused
     /\ wanted'  = IF input = "f" THEN ~wanted ELSE wanted
     /\ shot'    = (shot \/ input = "s")
     /\ pad'     = (input = "plug" \/ (pad /\ input # "unplug"))
     /\ queue'   = IF input \in Gestures THEN Append(queue, input) ELSE queue
  /\ UNCHANGED <<full, came>>

EndTurn ==
  /\ running # "no" /\ burst = <<>>
  /\ came' = 0 /\ running' = IF running = "last" THEN "no" ELSE "yes"
  /\ UNCHANGED <<paused, wanted, burst, pad>>

\* Paused: 50 ms go by.
Doze == paused /\ EndTurn /\ UNCHANGED <<full, shot, queue>>

\* Bug: the preference is applied in one direction only.
NeverLeaves == full \/ wanted

\* The mode of the window, once SDL_SetWindowFullscreen has been called if
\* it differs from the preference.
Reconciled == wanted

\* GAME_LOOP->idle polls until the queue is empty, and the shot is taken
\* after the drawing.
Frame ==
  /\ ~paused /\ EndTurn
  /\ full' = Reconciled /\ queue' = <<>> /\ shot' = FALSE

SdlNext == (\E input \in Inputs : Arrive(input)) \/ HandleEvent \/ Doze \/ Frame
SdlSpec == SdlInit /\ [][SdlNext]_sdl

\* The events of a turn come to an end, and the loop goes on.
SdlFair == SdlSpec /\ WF_sdl(HandleEvent \/ Doze \/ Frame)

-----------------------------------------------------------------------------
(* Properties.                                                             *)

Waiting == wanted # full \/ shot \/ queue # <<>>

\* What the user asked for is done, unless the program is paused: the mode
\* of the window, the shot, and every gesture told to the game.
UserServed == Waiting ~> ~Waiting \/ paused \/ running = "no"
=============================================================================
