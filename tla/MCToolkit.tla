------------------------------- MODULE MCToolkit -------------------------------
(* Small instances of the modules of the toolkit, for TLC.  They share no   *)
(* state: one of them moves in a behaviour, the others rest.                *)
(*                                                                          *)
(* The loop has a main screen, a menu, a dialog that is deleted once        *)
(* popped, and two idle components.  The tree of the focus is a grid of two *)
(* rows, the first of which begins with a label, beside a button: moving up *)
(* from the first button of the second row leads to the label.              *)
EXTENDS GameLoop, Redraw, Slider, Focus, EditField, Sounds

CONSTANTS
  game, menu, dialog, clock, ticker,
  root, box, absolute, leaf,
  first, second,
  screen, line, column, row1, row2, ok, cancel, back, quit, label

VARIABLE moving

MCKids == screen :> <<line>> @@ line :> <<column, quit>> @@ column :> <<row1, row2>>
          @@ row1 :> <<label, ok>> @@ row2 :> <<cancel, back>>
MCAxis == screen :> "z" @@ line :> "h" @@ column :> "v" @@ row1 :> "h" @@ row2 :> "h"

\* Where each widget lies: from the left, to the right, from the top, down.  A
\* pointer on an even line is in what lies on both sides of it.
Place ==
  screen :> <<0, 6, 0, 4>> @@ line :> <<0, 6, 0, 4>> @@ column :> <<0, 4, 0, 4>>
  @@ row1 :> <<0, 4, 0, 2>> @@ label :> <<0, 2, 0, 2>> @@ ok :> <<2, 4, 0, 2>>
  @@ row2 :> <<0, 4, 2, 4>> @@ cancel :> <<0, 2, 2, 4>> @@ back :> <<2, 4, 2, 4>>
  @@ quit :> <<4, 6, 0, 4>>

InPlace(w, x, y) ==
  Place[w][1] <= x /\ x <= Place[w][2] /\ Place[w][3] <= y /\ y <= Place[w][4]

MCSpots == {{w \in DOMAIN Place : InPlace(w, x, y)} : x \in 0 .. 7, y \in 0 .. 4}

kit == <<gvars, redraw, slider, boxed, field, front, moving>>

\* A module that rests does so in one of its initial states, with nothing left
\* to draw.
MCInit ==
  /\ moving \in {"loop", "redraw", "slider", "focus", "field", "front"}
  /\ childs = [c \in Containers |-> {}] /\ parent = [w \in Widgets |-> Nobody]
  /\ asked = IF moving = "redraw" THEN Widgets ELSE {}
  /\ LoopInit /\ SlideInit /\ FocusInit /\ FieldInit /\ FrontInit
  /\ moving # "slider" => ~oneShot
  /\ moving # "field"  => text = <<>> /\ ~onFocus
  /\ moving # "front"  => ~wanted /\ ~pad /\ ~soundOn /\ ~device

MoveLoop(a) ==
  moving = "loop" /\ a /\ UNCHANGED <<redraw, slider, boxed, field, front, moving>>
MoveRedraw(a) ==
  moving = "redraw" /\ a /\ UNCHANGED <<gvars, slider, boxed, field, front, moving>>
MoveSlider(a) ==
  moving = "slider" /\ a /\ UNCHANGED <<gvars, redraw, boxed, field, front, moving>>
MoveFocus(a) ==
  moving = "focus" /\ a /\ UNCHANGED <<gvars, redraw, slider, field, front, moving>>
MoveField(a) ==
  moving = "field" /\ a /\ UNCHANGED <<gvars, redraw, slider, boxed, front, moving>>
MoveFront(a) ==
  moving = "front" /\ a /\ UNCHANGED <<gvars, redraw, slider, boxed, field, moving>>

MCNext ==
  \/ MoveLoop(LoopNext) \/ MoveRedraw(RedrawNext) \/ MoveSlider(SlideNext)
  \/ MoveFocus(FocusNext) \/ MoveField(FieldNext) \/ MoveFront(FrontNext)

MCFair ==
  /\ MCInit /\ [][MCNext]_kit
  /\ WF_kit(MoveRedraw(Root \in asked /\ Draw))
  /\ WF_kit(MoveFront((HandleEvent \/ Doze \/ Frame) /\ UNCHANGED sounds))
  /\ WF_kit(MoveFront(AudioCallback /\ UNCHANGED sdl))
=============================================================================
