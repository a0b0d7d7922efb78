---------------------------------- MODULE Slider ----------------------------------
(***************************************************************************)
(* SliderContainer of gametools/gameui.cpp: a container that slides out of *)
(* the screen with what it holds and slides back with something else, or,  *)
(* with the sides called ONE_SHOT and CUSTOM, shows the two at once.       *)
(* Contents are exchanged by transitionToContent, which may be called in   *)
(* the middle of a slide, and by idle, which the game loop calls at every  *)
(* pass.                                                                   *)
(*                                                                         *)
(* A container does not check that it holds a widget once: what it holds   *)
(* is a bag.  Positions, sounds and listeners are left out; the date a     *)
(* slide began at is kept as whether idle has read it, and the time that   *)
(* passes as whether the slide is over.  With a ONE_SHOT side the code     *)
(* reads the new content, so a caller that gives none then is left out.    *)
(***************************************************************************)
EXTENDS Naturals, Bags

CONSTANTS
  Contents,     \* the widgets
  Nothing,      \* NULL
  MaxHeld       \* bound: occurrences in the container after a transition

ASSUME ContentAssumption == Nothing \notin Contents /\ MaxHeld \in Nat

VARIABLES
  holds,        \* the widgets of the container
  content,      \* contentWidget
  previous,     \* previousWidget
  sliding, slideout,
  oneShot,      \* m_slideSide shows the two contents at once
  begun,        \* slideStartTime is set
  plain         \* no slide was ever made with oneShot set

slider == <<holds, content, previous, sliding, slideout, oneShot, begun, plain>>

One(w)  == SetToBag({w} \ {Nothing})

\* remove takes one occurrence; NULL is never among them.
Without(b, w) == b (-) One(w)

SlideInit ==
  /\ holds = EmptyBag /\ content = Nothing /\ previous = Nothing
  /\ sliding = FALSE /\ slideout = FALSE /\ begun = FALSE
  /\ oneShot \in BOOLEAN /\ plain = TRUE

SetSlideSide(both) ==
  /\ both => content # Nothing \/ ~sliding
  /\ oneShot' = both
  /\ plain' = (plain /\ ~(sliding /\ both))
  /\ UNCHANGED <<holds, content, previous, sliding, slideout, begun>>

\* Bug: a slide that is interrupted forgets the content it was about to show.
ForgetsNext == holds

\* What it holds once a slide out has been cut short: the content that was
\* leaving has gone, the one that was to come is there.
Interrupted ==
  IF sliding /\ slideout THEN Without(holds, previous) (+) One(content) ELSE holds

\* What was shown slides out; with nothing to slide out, the new content
\* slides in at once.
TransitionToContent(c) ==
  /\ c # content
  /\ oneShot => c # Nothing
  /\ content' = c /\ previous' = content
  /\ sliding' = TRUE /\ begun' = FALSE
  /\ slideout' = (content # Nothing)
  /\ holds' = Interrupted (+) (IF content = Nothing THEN One(c) ELSE EmptyBag)
                          (+) (IF oneShot THEN One(c) ELSE EmptyBag)
  /\ BagCardinality(holds') <= MaxHeld
  /\ plain' = (plain /\ ~oneShot)
  /\ UNCHANGED oneShot

\* Still under way: only the position changes.
Glide ==
  /\ sliding /\ begun' = TRUE
  /\ UNCHANGED <<holds, content, previous, sliding, slideout, oneShot, plain>>

\* The content has slid in, or has gone and there is nothing to follow it.
Rests == ~slideout \/ oneShot \/ content = Nothing

\* idle, once slidingTime is over.  A content that has gone is removed, and
\* the next one slides in.
TimeOver ==
  /\ sliding /\ begun
  /\ LET left == IF slideout THEN Without(holds, previous) ELSE holds
     IN holds' = IF Rests THEN left ELSE left (+) One(content)
  /\ previous' = IF slideout THEN Nothing ELSE previous
  /\ sliding' = ~Rests
  /\ slideout' = (slideout /\ ~oneShot /\ content = Nothing)
  /\ UNCHANGED <<content, oneShot, begun, plain>>

Transitions == \E c \in Contents \cup {Nothing} : TransitionToContent(c)

SlideNext ==
  \/ Transitions
  \/ \E both \in BOOLEAN : SetSlideSide(both)
  \/ Glide
  \/ TimeOver

SlideSpec == SlideInit /\ [][SlideNext]_slider

-----------------------------------------------------------------------------
(* Properties.                                                             *)

\* Slides that go out and come back, cut short by others as often as one
\* likes, neither lose a content nor leave one behind: the container holds
\* what slides out, else its content, once.
HoldsExactly ==
  plain => holds = One(IF sliding /\ slideout THEN previous ELSE content)

\* "Remove the previous widget for good": at rest it holds nothing else than
\* its content.
RemovedForGood == ~sliding => BagToSet(holds) \subseteq {content}
=============================================================================
