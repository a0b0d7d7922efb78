------------------------------- MODULE GoomWidget -------------------------------
(***************************************************************************)
(* The widget that owns the engine (Goom/GoomWidget.cpp), composed with    *)
(* GoomShow.  The host announces titles whenever it likes, the loop gives  *)
(* the widget the time and asks it to draw; a draw calls goom_update when  *)
(* the next frame is due, at 30 frames a second, and hands it the title    *)
(* that it has not been given yet.                                         *)
(***************************************************************************)
EXTENDS GoomShow

CONSTANTS
  Welcome,      \* "Goom.2k26", shown by the first frame unless a title is due
  FrameTime,    \* a thirtieth of a second
  Resync,       \* a second: farther from its time a frame is due at once
  Steps,        \* what the clock may advance by between two calls; it may go back
  MaxGap        \* bound: how far the clock may be from the next frame

ASSUME WidgetAssumption ==
  /\ Welcome \in Titles
  /\ FrameTime \in Nat \ {0} /\ Resync \in Nat /\ Resync >= FrameTime
  /\ Steps \subseteq Int /\ MaxGap \in Nat

VARIABLES
  current,      \* m_titleText, NoTitle before the first announcement
  dirty,        \* m_titleDirty: the engine has not been given it yet
  firstUpdate,  \* m_firstUpdate
  ahead         \* m_nextFrame - m_currentTime

widget == <<show, current, dirty, firstUpdate, ahead>>

-----------------------------------------------------------------------------
WidgetInit ==
  /\ ShowInit
  /\ current = NoTitle /\ dirty = FALSE /\ firstUpdate = TRUE
  /\ ahead = 0

\* Bug: a title is handed over again whenever it is announced.
SetTitleTextAlways(t) ==
  /\ current' = t /\ dirty' = TRUE
  /\ UNCHANGED <<show, firstUpdate, ahead>>

\* The host announces a title, which may be the current one.
SetTitleText(t) ==
  /\ IF t = current THEN UNCHANGED <<current, dirty>>
     ELSE current' = t /\ dirty' = TRUE
  /\ UNCHANGED <<show, firstUpdate, ahead>>

\* idle(currentTime).
Idle(d) ==
  /\ ahead - d \in -MaxGap .. MaxGap
  /\ ahead' = ahead - d
  /\ UNCHANGED <<show, current, dirty, firstUpdate>>

\* A frame too far from its time, late or early, is due now.
Resynced == IF ahead > Resync \/ -ahead > Resync THEN 0 ELSE ahead

\* What the engine is given: a title that is due wins over the welcome.
Song == IF dirty THEN current ELSE IF firstUpdate THEN Welcome ELSE NoTitle

\* draw: goom_update runs when its time is past.
Draw ==
  /\ ahead' = IF Resynced < 0 THEN Resynced + FrameTime ELSE Resynced
  /\ IF Resynced < 0
       THEN Frames(Song) /\ dirty' = FALSE /\ firstUpdate' = FALSE
       ELSE UNCHANGED <<show, dirty, firstUpdate>>
  /\ UNCHANGED current

WidgetNext == \/ \E t \in Titles : SetTitleText(t)
              \/ \E d \in Steps : Idle(d)
              \/ Draw

Due == Resynced < 0 /\ Draw

\* The clock runs, and the display loop draws at least once a second every now
\* and then: slower than that, every frame is resynchronised and none is due.
WidgetSpec == WidgetInit /\ [][WidgetNext]_widget
              /\ WF_widget(Draw) /\ SF_widget(Due)
              /\ \A d \in {k \in Steps : k > 0} : WF_widget(Idle(d))

-----------------------------------------------------------------------------
(* Properties.                                                             *)

\* "re-sending it resets that timer, which would pin it on screen": a title
\* that the host keeps announcing leaves the screen.
TitleLeaves ==
  \A t \in Titles : <>[](current = t) => <>[](title.left = 0)

=============================================================================
