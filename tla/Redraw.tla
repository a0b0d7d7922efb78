---------------------------------- MODULE Redraw ----------------------------------
(***************************************************************************)
(* The requests to draw of the widgets (Widget and WidgetContainer of      *)
(* gametools/gameui.cpp).  A widget that changes asks to be drawn, and so  *)
(* do the containers above it; a container that is asked draws everything  *)
(* it holds.  A pass of drawing (GameLoop::draw) goes down from the root   *)
(* container of the screen, through those that asked.  Between two passes  *)
(* widgets are added, removed and exchanged, which lays the container out  *)
(* anew and asks in its name.                                              *)
(*                                                                         *)
(* An AbsoluteContainer places what it holds without asking.  Places,      *)
(* sizes and visibility are left out, and so is suspendLayout, which only  *)
(* the slider calls, around a change of its place.                         *)
(***************************************************************************)
EXTENDS Integers

CONSTANTS
  Widgets, Containers,
  Absolute,     \* the containers that are an AbsoluteContainer
  Root,         \* rootContainer of the screen
  Nobody        \* no container (NULL)

ASSUME WidgetAssumption ==
  /\ Containers \subseteq Widgets /\ Absolute \subseteq Containers
  /\ Root \in Containers /\ Nobody \notin Widgets

VARIABLES
  childs,       \* containers: what they hold
  parent,       \* widgets: the container they point to
  asked         \* widgets whose _drawRequested is set

tree   == <<childs, parent>>
redraw == <<childs, parent, asked>>

-----------------------------------------------------------------------------
(* Requests.                                                               *)

\* What the sets of F have in common: the least of them, when they are those
\* that are closed in some way.
Least(F) == Widgets \ UNION {Widgets \ T : T \in F}

\* The widgets from those of S up.
Above(S) == Least({T \in SUBSET Widgets :
  S \subseteq T /\ \A v \in T : parent'[v] # Nobody => parent'[v] \in T})

\* What is asked in the name of the containers of S, down to those that had
\* asked before.
Below(S) == Least({T \in SUBSET Widgets :
  \A c \in Containers : c \in (S \cup T) \ asked => childs'[c] \subseteq T})

\* Bug: the request stops at the container.
AskingOnce(S) ==
  LET up == S \cup {parent'[w] : w \in {v \in S : parent'[v] # Nobody}}
  IN asked \cup up \cup Below(up)

\* requestDraw of the widgets of S.
Asking(S) == LET up == Above(S) IN asked \cup up \cup Below(up)

\* The containers from c down.
Within(c) == Least({T \in SUBSET Containers :
  c \in T /\ \A d \in T : childs'[d] \cap Containers \subseteq T})

\* Bug: containers are laid out in silence.
ArrangingSilently(c) == {}

\* arrangeWidgets: the containers that lay out what they hold ask.
Arranging(c) == {d \in Within(c) \ Absolute : childs'[d] # {}}

\* draw: what is reached from the root through those that asked.
Reached(A) == Least({T \in SUBSET Widgets :
  Root \in T /\ \A c \in Containers \cap T : childs[c] \cap A \subseteq T})

-----------------------------------------------------------------------------
\* A widget that was never drawn has asked since it was made.
RedrawInit ==
  /\ childs = [c \in Containers |-> {}]
  /\ parent = [w \in Widgets |-> Nobody]
  /\ asked = Widgets

Held(w) == \E c \in Containers : w \in childs[c]

\* setValue, show, setImage and the like.
Change(w) ==
  /\ UNCHANGED tree
  /\ asked' = Asking({w})

\* The widget goes into one container, not below itself.
Fits(w, c) == w # Root /\ ~Held(w) /\ (w \in Containers => c \notin Within(w))

AddChild(c, w) ==
  /\ childs' = [childs EXCEPT ![c] = @ \cup {w}]
  /\ parent' = [parent EXCEPT ![w] = c]
  /\ Fits(w, c)
  /\ asked' = Asking(Arranging(c))

RemoveChild(c, w) ==
  /\ w \in childs[c]
  /\ childs' = [childs EXCEPT ![c] = @ \ {w}]
  /\ parent' = [parent EXCEPT ![w] = Nobody]
  /\ asked' = Asking(Arranging(c))

\* The one that leaves still points to the container.
ChangeChild(c, old, w) ==
  /\ old \in childs[c]
  /\ childs' = [childs EXCEPT ![c] = (@ \ {old}) \cup {w}]
  /\ parent' = [parent EXCEPT ![w] = c]
  /\ Fits(w, c)
  /\ asked' = Asking(Arranging(c))

\* A pass of the loop: the screen asks its root, then draws.
Draw ==
  /\ UNCHANGED tree
  /\ LET A == asked \cup {Root} \cup Below({Root}) IN asked' = A \ Reached(A)

RedrawNext ==
  \/ \E w \in Widgets : Change(w)
  \/ \E c \in Containers, w \in Widgets :
       AddChild(c, w) \/ RemoveChild(c, w) \/ \E old \in Widgets : ChangeChild(c, old, w)
  \/ Draw

RedrawSpec == RedrawInit /\ [][RedrawNext]_redraw

\* run() draws when the root has asked.
RedrawFair == RedrawSpec /\ WF_redraw(Root \in asked /\ Draw)

-----------------------------------------------------------------------------
(* Properties.                                                             *)

\* What waits to be drawn is reached from the container that holds it: a
\* request that stopped on the way up would never be seen by the loop,
\* whatever was moved in between.
AskedUpwards ==
  \A c \in Containers \ Absolute : childs[c] \cap asked # {} => c \in asked

\* What the screen holds, through containers that ask when they are laid out.
OnScreen == Least({T \in SUBSET Widgets :
  Root \in T /\ \A c \in (Containers \ Absolute) \cap T : childs[c] \subseteq T})

\* A widget of the screen that asks is drawn, unless it leaves.
Awaited(w) == w \in asked /\ w \in OnScreen
AskedDrawn == \A w \in Widgets : Awaited(w) ~> ~Awaited(w)
=============================================================================
