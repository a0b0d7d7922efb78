----------------------------------- MODULE Focus -----------------------------------
(***************************************************************************)
(* The focus of the keyboard and of the mouse in the boxes of a screen     *)
(* (Box, HBox, VBox, ZBox and Button of gametools/gameui.cpp, and          *)
(* Screen::onEvent).  A box hands a key to its active child; a child that  *)
(* gives the focus up lets the box choose another one, or give it up in    *)
(* its turn.                                                               *)
(*                                                                         *)
(* The screen is laid out once: the tree of boxes is a constant.  Its      *)
(* leaves are buttons and labels (widgets that take no focus).  The        *)
(* release of a key changes no focus, and is left out; of the mouse, what  *)
(* matters is which widgets the pointer is in.  They may be several beside *)
(* each other: a widget is one pixel wider for the pointer than it is      *)
(* drawn, and those of a ZBox lie over each other.                         *)
(***************************************************************************)
EXTENDS Integers, Sequences, FiniteSets

CONSTANTS
  Kids,         \* boxes: what they hold, in order
  Axis,         \* boxes: "h", "v" or "z"
  Buttons,      \* the leaves that take the focus
  Spots,        \* the sets of widgets the pointer can be in (isMostlyInside)
  Base          \* rootContainer

VARIABLES
  active,       \* boxes: activeWidget, counted from 1
  focus,        \* widgets: whether they have the focus
  frozen,       \* the loop of handleKeyboardFocus does not end
  passed        \* history: lit widgets the pointer was in together with a later one

boxed == <<active, focus, frozen, passed>>

Boxes   == DOMAIN Kids
Children(b) == {Kids[b][i] : i \in 1..Len(Kids[b])}
Parts == {Base} \cup UNION {Children(b) : b \in Boxes}
Leaves  == Parts \ Boxes

RECURSIVE Under(_)
Under(w) == IF w \in Boxes THEN UNION {Under(v) : v \in Children(w)} ELSE {w}

\* setFocusable climbs from a button to the root.
Focusable(w) == Under(w) \cap Buttons # {}

Willing(b)  == {i \in 1..Len(Kids[b]) : Focusable(Kids[b][i])}
First(b)    == CHOOSE i \in Willing(b) : \A j \in Willing(b) : i <= j

ASSUME TreeAssumption ==
  /\ Base \in Boxes /\ Axis \in [Boxes -> {"h", "v", "z"}]
  /\ \A b \in Boxes : Willing(b) # {}
  /\ Spots \subseteq SUBSET Parts

-----------------------------------------------------------------------------
(* A handler maps a state, the record of active, focus and frozen, to the  *)
(* state it leaves.                                                        *)

Now == [active |-> active, focus |-> focus, frozen |-> frozen]

Child(s, b) == Kids[b][s.active[b]]
Set(s, w, on) == [s EXCEPT !.focus[w] = on]

\* lostFocus: down the active children.
RECURSIVE Lose(_, _)
Lose(s, w) == IF w \in Boxes THEN Lose(Set(s, w, FALSE), Child(s, w)) ELSE Set(s, w, FALSE)

Directions == {"left", "right", "up", "down"}
FocusKeys == Directions \cup {"start"}

\* isPrevEvent, isNextEvent: where a key goes in a box.
Way(b, key) == CASE Axis[b] = "h" /\ key = "left"  -> -1
                 [] Axis[b] = "h" /\ key = "right" -> 1
                 [] Axis[b] = "v" /\ key = "up"    -> -1
                 [] Axis[b] = "v" /\ key = "down"  -> 1
                 [] OTHER -> 0

Parent(w)  == {b \in Boxes : w \in Children(b)}
RECURSIVE Ancestors(_)
Ancestors(w) == Parent(w) \cup UNION {Ancestors(b) : b \in Parent(w)}

\* A box inside another of the same axis, with somewhere else to go.
Rolls(b) == \A c \in Ancestors(b) : Axis[c] = Axis[b] => Cardinality(Willing(c)) <= 1

RECURSIVE Give(_, _), Event(_, _, _)

\* setActiveWidget: the new child takes the focus, and a blank event.
SetActive(s, b, i) ==
  LET n == Len(Kids[b])
      t == [s EXCEPT !.active[b] = IF i < 1 THEN 1 ELSE IF i > n THEN n ELSE i]
  IN Event(Give(t, Child(t, b)), Child(t, b), "none")

\* giveFocus: a box gives it to its active child, if that one takes it.
Give(s, w) ==
  LET t == Set(s, w, TRUE)
  IN IF w \notin Boxes THEN t
     ELSE IF Focusable(Child(t, w)) THEN Give(t, Child(t, w))
     ELSE SetActive(t, w, t.active[w])

\* The child the loop of handleKeyboardFocus stops at, and whether the box
\* gave the focus up on the way; 0 when it never stops.
RECURSIVE Search(_, _, _, _, _)
Search(b, from, way, i, steps) ==
  LET n    == Len(Kids[b])
      j    == i + way
      out  == j < 1 \/ j > n
      next == IF ~out THEN j ELSE IF ~Rolls(b) THEN from ELSE IF j < 1 THEN n ELSE 1
      rest == Search(b, from, way, next, steps - 1)
  IN IF steps = 0 THEN [child |-> 0, lost |-> FALSE]
     ELSE IF next \in Willing(b) THEN [child |-> next, lost |-> out /\ ~Rolls(b)]
     ELSE [rest EXCEPT !.lost = @ \/ (out /\ ~Rolls(b))]

\* The box that is entered takes the child of the same number as in the box
\* that is left.
SameNumber(s, b, old, new) ==
  IF old \in 1..Len(Kids[b]) /\ Kids[b][old] \in Boxes /\ Kids[b][new] \in Boxes
     /\ Axis[Kids[b][old]] = Axis[Kids[b][new]]
  THEN SetActive(s, Kids[b][new], s.active[Kids[b][old]])
  ELSE s

\* handleKeyboardFocus.
Choose(s, b, key) ==
  LET way   == Way(b, key)
      from  == IF s.focus[b] THEN s.active[b]
               ELSE IF way = 1 THEN 0 ELSE Len(Kids[b]) + 1
      found == Search(b, from, way, from, 2 * Len(Kids[b]) + 2)
      left  == IF found.lost THEN Lose(s, b) ELSE s
  IN IF way = 0 THEN (IF key \in Directions THEN Lose(s, b) ELSE s)
     ELSE IF found.child = 0 THEN [s EXCEPT !.frozen = TRUE]
     ELSE IF found.child = from THEN left
     ELSE SetActive(Event(SameNumber(left, b, from, found.child), Kids[b][found.child], key),
                    b, found.child)

\* eventOccured of a key or of a blank event.  A label gives the focus up,
\* and so does a button when the key is a direction.
Event(s, w, key) ==
  IF w \notin Boxes
  THEN IF w \notin Buttons \/ key \in Directions THEN Lose(s, w) ELSE s
  ELSE LET t == Event(s, Child(s, w), key)
       IN IF t.frozen \/ t.focus[Child(s, w)] THEN t ELSE Choose(t, w, key)

\* Bug: the pointer leaves a lit button.
StayLit(s, away) == s

\* The children the pointer is not in give the focus up.
RECURSIVE Unlit(_, _)
Unlit(s, away) ==
  IF away = {} THEN s
  ELSE LET w == CHOOSE w \in away : TRUE
       IN Unlit(IF s.focus[w] THEN Lose(s, w) ELSE s, away \ {w})

\* handleMouseFocus: of the children the pointer is in, the last one takes the
\* focus, and the event; nothing is done about the others.
RECURSIVE Point(_, _, _)
Point(s, b, spot) ==
  LET under == {i \in Willing(b) : Kids[b][i] \in spot}
      t     == Unlit(s, {Kids[b][i] : i \in Willing(b) \ under})
  IN IF under = {} THEN t
     ELSE LET i == CHOOSE i \in under : \A j \in under : j <= i
              u == Give([t EXCEPT !.active[b] = i], Kids[b][i])
          IN IF Kids[b][i] \in Boxes THEN Point(u, Kids[b][i], spot) ELSE u

\* The children the pointer is in together with a later one of the same box.
PassedOver(spot) ==
  UNION {{Kids[b][i] : i \in {j \in Willing(b) : /\ Kids[b][j] \in spot
                                               /\ \E k \in Willing(b) : k > j /\ Kids[b][k] \in spot}} :
           b \in Boxes}

\* A history ends for a widget in which nothing is lit any more.
StillLit(s, widgets) == {w \in widgets : \E l \in Under(w) : s.focus[l]}

-----------------------------------------------------------------------------
Becomes(s, more) ==
  /\ active' = s.active /\ focus' = s.focus /\ frozen' = s.frozen
  /\ passed' = StillLit(s, passed \cup more)

\* Screen::giveFocus, once the screen is laid out.
FocusInit ==
  LET s == Give([active |-> [b \in Boxes |-> First(b)],
                 focus  |-> [w \in Parts |-> FALSE], frozen |-> FALSE], Base)
  IN active = s.active /\ focus = s.focus /\ frozen = s.frozen /\ passed = {}

\* Screen::onEvent gives the root its focus back.
Ready == IF focus[Base] THEN Now ELSE Give(Now, Base)

Press(key)  == ~frozen /\ Becomes(Event(Ready, Base, key), {})
Click(spot) == ~frozen /\ Becomes(Point(Ready, Base, spot), PassedOver(spot))

FocusNext == \/ \E key \in FocusKeys : Press(key)
             \/ \E spot \in Spots : Click(spot)

FocusSpec == FocusInit /\ [][FocusNext]_boxed

-----------------------------------------------------------------------------
(* Properties.                                                             *)

Focused == {l \in Leaves : focus[l]}

\* A button is lit away from where the keys go only if the pointer was in it, or
\* in a box around it, together with a later widget of the same box, and it has
\* been lit since: neither the keys, through rows that hand over the same
\* number, nor the pointer in one widget at a time leave a second button lit.
StrayExplained ==
  \A l \in Focused :
    \/ \A b \in Ancestors(l) : focus[b] /\ l \in Under(Kids[b][active[b]])
    \/ (Ancestors(l) \cup {l}) \cap passed # {}
=============================================================================
