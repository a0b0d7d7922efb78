-------------------------------- MODULE GoomShow --------------------------------
(***************************************************************************)
(* The scene of the engine (Goom/goom_core.c, Goom/lines.c): what          *)
(* goom_update draws beside the zoom.  A goom outside a lock may draw      *)
(* another state of the show; the IFS and the scope lines then come and go *)
(* by counters that run on from frame to frame, and a song title is shown  *)
(* for a while.  Update is one call of goom_update.                        *)
(*                                                                         *)
(* Random draws tied to the number of the frame (one frame in 80, 120 or   *)
(* 121) may succeed at any frame here.  stop_lines is left out: nothing    *)
(* ever gives it another value than 0.                                     *)
(***************************************************************************)
EXTENDS Integers

CONSTANTS
  States,       \* the states of the show: records [ifs, scope]
  InitState,    \* states[6], shown before the first goom
  FirstState,   \* the state whose range holds 0, what stateSelectionRnd starts at
  BlockFor,     \* gooms before the next draw of a state (3)
  Locks,        \* frames a goom locks for (50, 75, 100)
  LockMore,     \* added when the zoom accelerates or crawls (50)
  Recay, Sparse,\* frames the IFS takes to appear (5), density it starts from (11)
  Decay,        \* frames it takes to disappear (100)
  LineTime,     \* drawLinesDuration (80)
  Glow,         \* frames after a goom during which lines are drawn anyway (5)
  Fade,         \* weight of the old colour in a blend of Fade + 1 (63)
  Black, Brights, \* the colours of a line, on one channel
  PowerMin, PowerMax, \* the power of the lines, in 300ths (330, 5250)
  PowerIncs,    \* what it is given to move by at either end (10 to 29)
  Light,        \* lighten: of each power, log10 (power) / 2 in hundredths
  TitleTime,    \* frames a title is shown for (200)
  Titles, NoTitle

ASSUME ShowAssumption ==
  /\ States \subseteq [ifs : BOOLEAN, scope : BOOLEAN]
  /\ {InitState, FirstState} \subseteq States
  /\ BlockFor \in Nat \ {0} /\ Locks \subseteq Nat /\ LockMore \in Nat
  /\ Recay \in Nat \ {0} /\ Sparse = 2 * Recay + 1 /\ Decay \in Nat \ {0}
  /\ \A k \in Locks : k >= Recay
  /\ LineTime \in Nat \ {0} /\ Glow \in Nat /\ Fade \in Nat \ {0}
  /\ Black \in Nat /\ Brights \subseteq Nat /\ \A b \in Brights : b > Black
  /\ TitleTime \in Nat \ {0} /\ NoTitle \notin Titles

ASSUME PowerAssumption ==
  /\ PowerMin \in Nat /\ PowerMax \in Nat /\ PowerMin <= PowerMax
  /\ PowerIncs \subseteq Nat \ {0} /\ Light \in [0 .. PowerMax -> 0 .. 100]

VARIABLES
  scene,        \* curGState and the draw behind it: [cur, drawn, blocker]
  lock,         \* lockvar
  ifs,          \* ifs_incr, decay_ifs, recay_ifs: every incr-th point is drawn
  lines,        \* lineMode; the colour the lines have and the one they go to;
                \* the power they are drawn with and what it moves by
  since,        \* timeSinceLastGoom, counted up to Glow
  title         \* titleText and timeOfTitleDisplay

show == <<scene, lock, ifs, lines, since, title>>

-----------------------------------------------------------------------------
(* The IFS.                                                                *)

\* The counters at the beginning of a frame.  decay_ifs runs on below zero,
\* which is all that is kept of it.
FadedIfs(f) ==
  LET d == IF f.decay > 0 THEN f.decay - 1 ELSE -1
      i == CASE d > 0 -> f.incr + 2 [] d = 0 -> 0 [] OTHER -> f.incr
  IN CASE f.recay = 0          -> [incr |-> i, decay |-> d, recay |-> 0]
       [] f.recay = 1 /\ i <= 2 -> [incr |-> 1, decay |-> d, recay |-> 0]
       [] OTHER                -> [incr |-> i - 2, decay |-> d, recay |-> f.recay - 1]

\* Bug: a goom starts the disappearance anew.
GoomIfsAgain(f, s) ==
  LET shown == IF s.ifs /\ f.incr <= 0
                 THEN [incr |-> Sparse, decay |-> f.decay, recay |-> Recay] ELSE f
  IN IF ~s.ifs /\ shown.incr > 0 THEN [shown EXCEPT !.decay = Decay] ELSE shown

\* A goom starts the IFS of a state that has one, or its disappearance.
GoomIfs(f, s) ==
  LET shown == IF s.ifs /\ f.incr <= 0
                 THEN [incr |-> Sparse, decay |-> f.decay, recay |-> Recay] ELSE f
  IN IF ~s.ifs /\ shown.incr > 0 /\ shown.decay <= 0
       THEN [shown EXCEPT !.decay = Decay] ELSE shown

-----------------------------------------------------------------------------
(* The state of the show.                                                  *)

\* A goom draws a state when none was drawn lately; the state in force is the
\* last one drawn, even where that was before the first draw.
GoomScenes ==
  LET kept == [cur |-> scene.drawn, drawn |-> scene.drawn,
               blocker |-> IF scene.blocker > 0 THEN scene.blocker - 1 ELSE 0]
  IN {kept} \cup
     IF scene.blocker > 0 THEN {}
     ELSE {[cur |-> s, drawn |-> s, blocker |-> BlockFor] : s \in States}

-----------------------------------------------------------------------------
(* The lines.                                                              *)

\* One frame of a colour towards another, in integers.
Blend(from, to) == (from * Fade + to) \div (Fade + 1)

\* The power goes back and forth between its ends; it starts below the lower.
Pulsed(l) ==
  LET p == l.power + l.powinc
  IN CASE p < PowerMin -> {[l EXCEPT !.power = PowerMin, !.powinc = i] : i \in PowerIncs}
       [] p > PowerMax -> {[l EXCEPT !.power = PowerMax, !.powinc = -i] : i \in PowerIncs}
       [] OTHER        -> {[l EXCEPT !.power = p]}

\* Without a scope the lines are sent to black, at every frame.
Stopped(l, s) == IF s.scope THEN l ELSE [l EXCEPT !.dest = Black]

\* lineMode runs down to 0 once a draw started it, and stays there.
RunDown(l) ==
  IF l.mode # LineTime THEN {[l EXCEPT !.mode = IF @ > 0 THEN @ - 1 ELSE 0]}
  ELSE {l, [l EXCEPT !.mode = LineTime - 1]}

\* With a scope, stopped lines may come back and running ones change.
Redrawn(l, s) ==
  {l} \cup
  CASE s.scope /\ l.mode = 0        -> {[l EXCEPT !.mode = LineTime]}
    [] s.scope /\ l.mode = LineTime -> {[l EXCEPT !.mode = LineTime - 1, !.dest = c] : c \in Brights}
    [] OTHER                        -> {}

\* The lines are drawn with the colour and the power they have, which then move
\* on; only then they may change again, with or without a scope.
Drawn(l, quiet) ==
  IF l.mode = 0 /\ quiet >= Glow THEN {l}
  ELSE LET moved == {[p EXCEPT !.shade = Blend(@, p.dest)] : p \in Pulsed(l)}
       IN moved \cup
          IF l.mode \in {0, LineTime}
            THEN {[m EXCEPT !.dest = c] : m \in moved, c \in Brights} ELSE {}

\* How bright a frame that draws the lines does so: lightencolor.
Lit == (lines.shade * Light[lines.power]) \div 100

\* The lines of one frame; a goom without a scope lets them run for a while.
LineFrames(goom, s, quiet) ==
  LET l0 == IF goom /\ ~s.scope THEN [lines EXCEPT !.mode = LineTime] ELSE lines
  IN UNION {UNION {Drawn(l2, quiet) : l2 \in Redrawn(l1, s)} : l1 \in RunDown(Stopped(l0, s))}

-----------------------------------------------------------------------------
(* The title.                                                              *)

\* A title given to goom_update is shown from this frame on.
Titled(song) ==
  LET set == IF song = NoTitle THEN title ELSE [text |-> song, left |-> TitleTime]
  IN IF set.left > 0 THEN [set EXCEPT !.left = @ - 1] ELSE set

-----------------------------------------------------------------------------
ShowInit ==
  /\ scene = [cur |-> InitState, drawn |-> FirstState, blocker |-> 0]
  /\ lock = 0
  /\ ifs = [incr |-> 1, decay |-> 0, recay |-> 0]
  /\ \E c \in Brights : lines = [mode |-> LineTime, shade |-> Black, dest |-> c,
                                  power |-> 0, powinc |-> 3]
  /\ since = 0
  /\ title = [text |-> NoTitle, left |-> 0]

\* One frame.  goom: the sound gave one; slow: the rare crawl; accel: the goom
\* accelerates the zoom; song: a title handed over, or none.
Update(goom, slow, accel, song) ==
  LET unlocked == lock <= 1
      struck   == unlocked /\ goom
      faded    == FadedIfs(ifs)
      quiet    == CASE goom -> 0 [] ~goom /\ since < Glow -> since + 1 [] OTHER -> Glow
      more     == (IF struck /\ accel THEN LockMore ELSE 0)
                    + (IF unlocked /\ slow THEN LockMore ELSE 0)
  IN /\ scene' \in IF struck THEN GoomScenes ELSE {scene}
     /\ ifs' = IF struck THEN GoomIfs(faded, scene'.cur) ELSE faded
     /\ \E held \in IF struck THEN Locks ELSE {IF unlocked THEN 0 ELSE lock - 1} :
          lock' = held + more
     /\ lines' \in LineFrames(struck, scene'.cur, quiet)
     /\ since' = quiet
     /\ title' = Titled(song)

Frames(song) ==
  \E goom, slow, accel \in BOOLEAN : Update(goom, slow, accel, song)

ShowNext == \E song \in Titles \cup {NoTitle} : Frames(song)
ShowSpec == ShowInit /\ [][ShowNext]_show

-----------------------------------------------------------------------------
(* Properties.                                                             *)

ShowTypeOK ==
  /\ scene \in [cur : States, drawn : States, blocker : 0 .. BlockFor]
  /\ lock \in Nat
  /\ ifs \in [incr : Nat, decay : -1 .. Decay, recay : 0 .. Recay]
  /\ lines \in [mode : 0 .. LineTime, shade : Nat, dest : Brights \cup {Black},
                power : 0 .. PowerMax, powinc : Int]
  /\ since \in 0 .. Glow
  /\ title \in [text : Titles \cup {NoTitle}, left : 0 .. TitleTime]

\* The IFS never appears and disappears at once, however the gooms that start
\* the two fades follow each other; during a fade its density is that of the
\* time the fade has left, and outside of one it is 0 or full.
IfsSettled ==
  /\ ~(ifs.recay > 0 /\ ifs.decay > 0)
  /\ ifs.decay > 0 => ifs.incr = 2 * (Decay - ifs.decay) + 1
  /\ ifs.recay > 0 => ifs.incr = 2 * ifs.recay + 1
  /\ ifs.recay = 0 /\ ifs.decay <= 0 => ifs.incr \in {0, 1}

\* While the state in force has no scope the colour of the lines never rises,
\* although a frame may send them to a bright one after it drew them; and while
\* their power pulses, they are never drawn brighter than the colour they had.
LinesOnlyFade ==
  [][~scene'.cur.scope => lines'.shade <= lines.shade /\ Lit' <= lines.shade]_show
=============================================================================
