------------------------------- MODULE ToolkitProofs -------------------------------
(***************************************************************************)
(* Proofs about the toolkit: a request to draw is never stopped on its way *)
(* up, and the next drawing serves every request it reaches, for every     *)
(* tree of widgets and every sequence of changes; a slider holds what      *)
(* slides out, else its content, loses no content it did not remove and    *)
(* keeps none it did, for every set of contents; a text field that is not  *)
(* being edited shows what is saved, for every length of its text; and the *)
(* game loop calls and draws what exists, with the top of the stack in     *)
(* front, and passes nobody over, for any components and whatever their    *)
(* callbacks change.                                                       *)
(***************************************************************************)
EXTENDS Redraw, Slider, EditField, GameLoop, SequenceTheorems, FiniteSetTheorems, TLAPS

-----------------------------------------------------------------------------
(* The text field.                                                         *)

\* While a field is edited on demand, what a cancelled entry goes back to is
\* what is saved.
BeforeKept == editing /\ ~onFocus => before = saved

FieldInv == FieldSettled /\ BeforeKept

LEMMA HandleKeepsField ==
  ASSUME FieldInv, NEW key, Handle(key), UNCHANGED onFocus
  PROVE  FieldInv'
BY DEF FieldInv, FieldSettled, BeforeKept, Handle, LoseField, Commit, Open, Cancel, Same, Edit

LEMMA FieldStep == FieldInv /\ [FieldNext]_field => FieldInv'
<1> SUFFICES ASSUME FieldInv, [FieldNext]_field PROVE FieldInv'
  OBVIOUS
<1>1. CASE GiveField
  BY <1>1 DEF GiveField, Same, FieldInv, FieldSettled, BeforeKept
<1>2. CASE LoseField /\ UNCHANGED <<held, onFocus>>
  BY <1>2 DEF LoseField, Commit, Same, FieldInv, FieldSettled, BeforeKept
<1>3. CASE \E key \in FieldKeys : FieldKey(key)
  BY <1>3, HandleKeepsField DEF FieldKey
<1>4. CASE KeyUp
  BY <1>4 DEF KeyUp, FieldInv, FieldSettled, BeforeKept
<1>5. CASE Repeat
  BY <1>5, HandleKeepsField DEF Repeat
<1>6. CASE \E s \in Texts(1) : SetValue(s)
  BY <1>6 DEF SetValue, FieldInv, FieldSettled, BeforeKept
<1>7. CASE UNCHANGED field
  BY <1>7 DEF field, FieldInv, FieldSettled, BeforeKept
<1> QED
  BY <1>1, <1>2, <1>3, <1>4, <1>5, <1>6, <1>7 DEF FieldNext

\* A field that is not being edited shows what is saved: committed, cancelled
\* or left, whatever key is repeated by idle in the meantime.
THEOREM FieldShowsSaved == FieldSpec => []FieldSettled
<1>1. FieldInit => FieldInv
  BY DEF FieldInit, FieldInv, FieldSettled, BeforeKept
<1>2. FieldInv => FieldSettled
  BY DEF FieldInv
<1> QED
  BY <1>1, <1>2, FieldStep, PTL DEF FieldSpec

-----------------------------------------------------------------------------
(* Requests to draw.  What the least of a family has in common with each   *)
(* of its sets.                                                            *)

LEMMA LeastWithin ==
  ASSUME NEW F, NEW T \in F
  PROVE  Least(F) \cap Widgets \subseteq T
BY DEF Least

LEMMA LeastHolds ==
  ASSUME NEW F, NEW w \in Widgets, \A T \in F : w \in T
  PROVE  w \in Least(F)
BY DEF Least

LEMMA LeastTyped == \A F : Least(F) \subseteq Widgets
BY DEF Least

\* The types, and the two facts about the tree that the requests rest on: a
\* widget points to the one container that holds it, and nothing holds the root.
TreeTyped ==
  /\ childs \in [Containers -> SUBSET Widgets]
  /\ parent \in [Widgets -> Containers \cup {Nobody}]

PointsUp == \A c \in Containers : \A w \in childs[c] : parent[w] = c /\ w # Root

RedrawInv == TreeTyped /\ asked \subseteq Widgets /\ PointsUp /\ AskedUpwards

LEMMA AboveClosed ==
  ASSUME WidgetAssumption, TreeTyped', NEW S, NEW v \in Above(S), parent'[v] # Nobody
  PROVE  parent'[v] \in Above(S)
<1> DEFINE F == {T \in SUBSET Widgets :
      S \subseteq T /\ \A u \in T : parent'[u] # Nobody => parent'[u] \in T}
<1>1. v \in Widgets /\ Above(S) = Least(F)
  BY LeastTyped DEF Above
<1>2. parent'[v] \in Widgets
  BY <1>1 DEF TreeTyped, WidgetAssumption
<1>3. \A T \in F : parent'[v] \in T
  BY <1>1, LeastWithin
<1> QED
  BY <1>1, <1>2, <1>3, LeastHolds

LEMMA AboveHolds ==
  ASSUME NEW S \in SUBSET Widgets
  PROVE  S \subseteq Above(S)
BY LeastHolds DEF Above

\* The family of Below is closed by what is common to its sets.
LEMMA BelowClosed ==
  ASSUME TreeTyped', NEW S, NEW c \in Containers, c \in (S \cup Below(S)) \ asked
  PROVE  childs'[c] \subseteq Below(S)
<1> DEFINE F == {T \in SUBSET Widgets :
      \A d \in Containers : d \in (S \cup T) \ asked => childs'[d] \subseteq T}
<1>1. Below(S) = Least(F) /\ Below(S) \subseteq Widgets
  BY LeastTyped DEF Below
<1> SUFFICES ASSUME NEW w \in childs'[c] PROVE w \in Below(S)
  OBVIOUS
<1>2. w \in Widgets
  BY DEF TreeTyped
<1>3. ASSUME NEW T \in F PROVE c \in (S \cup T) \ asked
  <2>1. Least(F) \cap Widgets \subseteq T
    BY ONLY T \in F, LeastWithin
  <2> QED
    BY <1>1, <2>1
<1>4. \A T \in F : w \in T
  BY <1>3
<1> QED
  BY <1>1, <1>2, <1>4, LeastHolds

\* Who is asked from above is held by a container that was asked.
LEMMA BelowHeld ==
  ASSUME TreeTyped', PointsUp', NEW S,
         NEW c \in Containers, NEW w \in childs'[c], w \in Below(S)
  PROVE  c \in S \cup Below(S)
<1> DEFINE F == {T \in SUBSET Widgets :
      \A d \in Containers : d \in (S \cup T) \ asked => childs'[d] \subseteq T}
           T0 == Below(S) \ {w}
<1>1. Below(S) = Least(F) /\ Below(S) \subseteq Widgets
  BY LeastTyped DEF Below
<1> SUFFICES ASSUME c \notin S \cup Below(S) PROVE FALSE
  OBVIOUS
<1>2. ASSUME NEW d \in Containers, d \in (S \cup T0) \ asked PROVE childs'[d] \subseteq T0
  <2>1. childs'[d] \subseteq Below(S)
    BY <1>2, BelowClosed
  <2>2. d # c
    BY <1>2
  <2>3. w \notin childs'[d]
    BY <2>2 DEF PointsUp
  <2> QED
    BY <2>1, <2>3
<1>3. T0 \in F
  BY <1>1, <1>2
<1>4. \A T \in F : Least(F) \cap Widgets \subseteq T
  BY ONLY LeastWithin
<1> HIDE DEF F
<1> QED
  BY <1>1, <1>3, <1>4

\* A request made of widgets of S, after the tree has changed, stops nowhere
\* as long as those that had asked before are covered.
LEMMA AskingReaches ==
  ASSUME WidgetAssumption, TreeTyped', PointsUp', NEW S \in SUBSET Widgets,
         asked \subseteq Widgets, asked' = Asking(S),
         \A c \in Containers \ Absolute :
            childs'[c] \cap asked # {} => c \in asked \cup S
  PROVE  asked' \subseteq Widgets /\ AskedUpwards'
<1> DEFINE up == Above(S)
<1>1. asked' = asked \cup up \cup Below(up)
  BY DEF Asking
<1>2. asked' \subseteq Widgets
  BY <1>1, LeastTyped DEF Above, Below
<1>3. ASSUME NEW c \in Containers \ Absolute, NEW w \in childs'[c], w \in asked'
      PROVE  c \in asked'
  <2>1. CASE w \in asked
    BY <2>1, <1>1, <1>3, AboveHolds
  <2>2. CASE w \in up
    <3>1. parent'[w] = c
      BY <1>3 DEF PointsUp
    <3>2. c # Nobody
      BY DEF WidgetAssumption
    <3> QED
      BY <2>2, <3>1, <3>2, <1>1, AboveClosed
  <2>3. CASE w \in Below(up)
    BY <2>3, <1>1, <1>3, BelowHeld
  <2> QED
    BY <1>1, <1>3, <2>1, <2>2, <2>3
<1> QED
  BY <1>2, <1>3 DEF AskedUpwards

\* What is laid out asks: the container itself, as soon as it holds anything.
LEMMA ArrangingAsks ==
  ASSUME WidgetAssumption, NEW c \in Containers
  PROVE  /\ Arranging(c) \in SUBSET Widgets
         /\ c \notin Absolute /\ childs'[c] # {} => c \in Arranging(c)
<1>1. Within(c) \subseteq Widgets
  BY LeastTyped DEF Within
<1>2. c \in Within(c)
  BY LeastHolds DEF Within, WidgetAssumption
<1> QED
  BY <1>1, <1>2 DEF Arranging

\* A container changes what it holds and lays it out.
LEMMA RearrangedReaches ==
  ASSUME WidgetAssumption, RedrawInv, TreeTyped', PointsUp', NEW c \in Containers,
         \A d \in Containers \ {c} : childs'[d] = childs[d],
         asked' = Asking(Arranging(c))
  PROVE  asked' \subseteq Widgets /\ AskedUpwards'
<1>1. \A d \in Containers \ Absolute :
        childs'[d] \cap asked # {} => d \in asked \cup Arranging(c)
  BY ArrangingAsks DEF RedrawInv, AskedUpwards
<1> QED
  BY <1>1, ArrangingAsks, AskingReaches DEF RedrawInv

LEMMA ChangeStep ==
  ASSUME WidgetAssumption, RedrawInv, NEW w \in Widgets, Change(w)
  PROVE  RedrawInv'
<1>1. TreeTyped' /\ PointsUp'
  BY DEF RedrawInv, Change, tree, TreeTyped, PointsUp
<1>2. \A c \in Containers \ Absolute : childs'[c] \cap asked # {} => c \in asked \cup {w}
  BY DEF RedrawInv, Change, tree, AskedUpwards
<1> QED
  BY <1>1, <1>2, AskingReaches DEF RedrawInv, Change

LEMMA AddStep ==
  ASSUME WidgetAssumption, RedrawInv, NEW c \in Containers, NEW w \in Widgets, AddChild(c, w)
  PROVE  RedrawInv'
<1>1. /\ childs' = [childs EXCEPT ![c] = @ \cup {w}] /\ parent' = [parent EXCEPT ![w] = c]
      /\ w # Root /\ ~Held(w) /\ asked' = Asking(Arranging(c))
  BY DEF AddChild, Fits
<1>2. TreeTyped'
  BY <1>1 DEF RedrawInv, TreeTyped, WidgetAssumption
<1>3. PointsUp'
  BY <1>1 DEF RedrawInv, TreeTyped, PointsUp, Held
<1> QED
  BY <1>1, <1>2, <1>3, RearrangedReaches DEF RedrawInv, TreeTyped

LEMMA RemoveStep ==
  ASSUME WidgetAssumption, RedrawInv, NEW c \in Containers, NEW w \in Widgets,
         RemoveChild(c, w)
  PROVE  RedrawInv'
<1>1. /\ childs' = [childs EXCEPT ![c] = @ \ {w}] /\ parent' = [parent EXCEPT ![w] = Nobody]
      /\ w \in childs[c] /\ asked' = Asking(Arranging(c))
  BY DEF RemoveChild
<1>2. TreeTyped'
  BY <1>1 DEF RedrawInv, TreeTyped, WidgetAssumption
<1>3. PointsUp'
  BY <1>1 DEF RedrawInv, TreeTyped, PointsUp
<1> QED
  BY <1>1, <1>2, <1>3, RearrangedReaches DEF RedrawInv, TreeTyped

LEMMA ExchangeStep ==
  ASSUME WidgetAssumption, RedrawInv, NEW c \in Containers, NEW w \in Widgets,
         NEW old \in Widgets, ChangeChild(c, old, w)
  PROVE  RedrawInv'
<1>1. /\ childs' = [childs EXCEPT ![c] = (@ \ {old}) \cup {w}]
      /\ parent' = [parent EXCEPT ![w] = c]
      /\ w # Root /\ ~Held(w) /\ asked' = Asking(Arranging(c))
  BY DEF ChangeChild, Fits
<1>2. TreeTyped'
  BY <1>1 DEF RedrawInv, TreeTyped, WidgetAssumption
<1>3. PointsUp'
  BY <1>1 DEF RedrawInv, TreeTyped, PointsUp, Held
<1> QED
  BY <1>1, <1>2, <1>3, RearrangedReaches DEF RedrawInv, TreeTyped

\* A pass of drawing: what it does not reach hangs from what it does not reach.
LEMMA DrawStep ==
  ASSUME WidgetAssumption, RedrawInv, Draw
  PROVE  RedrawInv'
<1> DEFINE A == asked \cup {Root} \cup Below({Root})
           F == {T \in SUBSET Widgets :
                  Root \in T /\ \A c \in Containers \cap T : childs[c] \cap A \subseteq T}
<1>1. TreeTyped' /\ PointsUp' /\ childs' = childs /\ parent' = parent
  BY DEF RedrawInv, Draw, tree, TreeTyped, PointsUp
<1>2. asked' = A \ Reached(A) /\ Reached(A) = Least(F)
  BY DEF Draw, Reached
<1>3. A \subseteq Widgets
  BY LeastTyped DEF RedrawInv, Below, WidgetAssumption
<1>4. ASSUME NEW c \in Containers \ Absolute, NEW w \in childs[c], w \in A \ Least(F)
      PROVE  c \in A \ Least(F)
  <2>1. c \in A
    <3>1. w # Root
      BY DEF RedrawInv, PointsUp
    <3>2. CASE w \in asked
      BY <3>2, <1>4 DEF RedrawInv, AskedUpwards
    <3>3. CASE w \in Below({Root})
      BY <3>3, <1>1, <1>4, BelowHeld
    <3> QED
      BY <1>4, <3>1, <3>2, <3>3
  <2>2. ASSUME c \in Least(F) PROVE FALSE
    <3>1. ASSUME NEW T \in F PROVE w \in T
      <4>1. Least(F) \cap Widgets \subseteq T
        BY ONLY T \in F, LeastWithin
      <4>2. c \in T
        BY <2>2, <4>1 DEF WidgetAssumption
      <4> QED
        BY <1>4, <4>2
    <3>2. w \in Widgets
      BY <1>3, <1>4
    <3>3. w \in Least(F)
      BY ONLY <3>1, <3>2, LeastHolds
    <3> QED
      BY <1>4, <3>3
  <2> QED
    BY <2>1, <2>2
<1> QED
  BY <1>1, <1>2, <1>3, <1>4 DEF RedrawInv, AskedUpwards

LEMMA RedrawStep == WidgetAssumption /\ RedrawInv /\ [RedrawNext]_redraw => RedrawInv'
<1> SUFFICES ASSUME WidgetAssumption, RedrawInv, [RedrawNext]_redraw PROVE RedrawInv'
  OBVIOUS
<1>1. CASE \E w \in Widgets : Change(w)
  BY <1>1, ChangeStep
<1>2. CASE \E c \in Containers, w \in Widgets :
             AddChild(c, w) \/ RemoveChild(c, w) \/ \E old \in Widgets : ChangeChild(c, old, w)
  BY <1>2, AddStep, RemoveStep, ExchangeStep
<1>3. CASE Draw
  BY <1>3, DrawStep
<1>4. CASE UNCHANGED redraw
  BY <1>4 DEF redraw, RedrawInv, TreeTyped, PointsUp, AskedUpwards
<1> QED
  BY <1>1, <1>2, <1>3, <1>4 DEF RedrawNext

\* Whatever waits to be drawn can be reached from the container that holds it,
\* for every set of widgets and however they are moved between two passes.
THEOREM RequestsReachUp == RedrawSpec => []AskedUpwards
<1>1. RedrawInit => RedrawInv
  BY WidgetAssumption
     DEF RedrawInit, RedrawInv, TreeTyped, PointsUp, AskedUpwards, WidgetAssumption
<1>2. RedrawInv => AskedUpwards
  BY DEF RedrawInv
<1> QED
  BY <1>1, <1>2, RedrawStep, WidgetAssumption, PTL DEF RedrawSpec

\* A widget of the screen waits for the drawing only while the root does, so
\* that the loop comes to draw.
RootAwaits == \A w \in Widgets : Awaited(w) => Root \in asked

\* Requests end by a drawing only, and one drawing leaves none of the screen.
DrawnWhole ==
  /\ asked \ asked' # {} => Draw
  /\ Draw => \A w \in Widgets : Awaited(w) => w \notin asked'

\* What holds of the root, and of what a container of the screen holds when it
\* holds of the container, holds of the screen.
LEMMA ScreenBelow ==
  ASSUME WidgetAssumption, NEW T \in SUBSET Widgets, Root \in T,
         \A c \in (Containers \ Absolute) \cap T : childs[c] \subseteq T
  PROVE  OnScreen \subseteq T
<1> DEFINE F == {S \in SUBSET Widgets :
      Root \in S /\ \A c \in (Containers \ Absolute) \cap S : childs[c] \subseteq S}
<1>1. OnScreen = Least(F) /\ OnScreen \subseteq Widgets
  BY LeastTyped DEF OnScreen
<1>2. T \in F
  OBVIOUS
<1> HIDE DEF F
<1> QED
  BY <1>1, <1>2, LeastWithin

LEMMA RootIsAsked ==
  ASSUME WidgetAssumption, RedrawInv
  PROVE  RootAwaits
<1> DEFINE T == {w \in Widgets : w \in asked => Root \in asked}
<1>1. \A c \in (Containers \ Absolute) \cap T : childs[c] \subseteq T
  BY DEF RedrawInv, TreeTyped, AskedUpwards
<1>2. Root \in T
  BY DEF WidgetAssumption
<1>3. OnScreen \subseteq T
  BY <1>1, <1>2, ScreenBelow
<1> QED
  BY <1>3 DEF RootAwaits, Awaited

LEMMA ReachedClosed ==
  ASSUME WidgetAssumption, TreeTyped, NEW A,
         NEW c \in Containers \cap Reached(A), NEW w \in childs[c] \cap A
  PROVE  w \in Reached(A)
<1> DEFINE F == {T \in SUBSET Widgets :
      Root \in T /\ \A d \in Containers \cap T : childs[d] \cap A \subseteq T}
<1>1. Reached(A) = Least(F) /\ w \in Widgets /\ c \in Widgets
  BY DEF Reached, TreeTyped, WidgetAssumption
<1>2. ASSUME NEW T \in F PROVE w \in T
  <2>1. c \in T
    BY ONLY <1>1, T \in F, c \in Containers \cap Reached(A), LeastWithin
  <2> QED
    BY <2>1
<1> QED
  BY ONLY <1>1, <1>2, LeastHolds

LEMMA DrawReaches ==
  ASSUME WidgetAssumption, RedrawInv, Draw
  PROVE  \A w \in Widgets : Awaited(w) => w \notin asked'
<1> DEFINE A == asked \cup {Root} \cup Below({Root})
           T == {w \in Widgets : w \in asked => w \in Reached(A)}
<1>1. asked' = A \ Reached(A)
  BY DEF Draw
<1>2. Root \in Reached(A)
  BY LeastHolds DEF Reached, WidgetAssumption
<1>3. ASSUME NEW c \in (Containers \ Absolute) \cap T, NEW w \in childs[c]
      PROVE  w \in T
  <2>1. w \in Widgets
    BY DEF RedrawInv, TreeTyped
  <2>2. ASSUME w \in asked PROVE w \in Reached(A)
    <3>1. c \in Reached(A)
      BY <1>3, <2>2 DEF RedrawInv, AskedUpwards
    <3>2. w \in A
      BY <2>2
    <3> HIDE DEF A
    <3> QED
      BY <3>1, <3>2, ReachedClosed DEF RedrawInv
  <2> QED
    BY <2>1, <2>2
<1>4. Root \in T
  BY <1>2 DEF WidgetAssumption
<1>5. OnScreen \subseteq T
  BY <1>3, <1>4, ScreenBelow
<1> QED
  BY <1>1, <1>5 DEF Awaited

LEMMA DrawnStep ==
  ASSUME WidgetAssumption, RedrawInv, [RedrawNext]_redraw
  PROVE  RootAwaits /\ [DrawnWhole]_redraw
<1>1. asked \ asked' # {} => Draw \/ UNCHANGED redraw
  BY DEF RedrawNext, Change, AddChild, RemoveChild, ChangeChild, Asking, redraw
<1> QED
  BY <1>1, RootIsAsked, DrawReaches DEF DrawnWhole, redraw

\* What asks on the screen keeps asking until it is drawn, and the root asks with
\* it, although requestDraw stops at the first widget that has asked already; and
\* the doDraw of the root, which goes down only where it finds a request, draws
\* all of it.
THEOREM AskedAreDrawn == RedrawSpec => []RootAwaits /\ [][DrawnWhole]_redraw
<1>1. RedrawInit => RedrawInv
  BY WidgetAssumption
     DEF RedrawInit, RedrawInv, TreeTyped, PointsUp, AskedUpwards, WidgetAssumption
<1>2. RedrawInv => RootAwaits
  BY RootIsAsked, WidgetAssumption
<1>3. RedrawInv /\ [RedrawNext]_redraw => [DrawnWhole]_redraw
  BY DrawnStep, WidgetAssumption
<1> QED
  BY <1>1, <1>2, <1>3, RedrawStep, WidgetAssumption, PTL DEF RedrawSpec

-----------------------------------------------------------------------------
(* The slider.  Bags of one widget at most.                                *)

LEMMA NothingIsEmpty == One(Nothing) = EmptyBag
BY DEF One, EmptyBag, SetToBag

LEMMA EmptyPlus == \A w : EmptyBag (+) One(w) = One(w)
BY DEF EmptyBag, One, SetToBag, (+)

LEMMA PlusEmpty == \A w : One(w) (+) EmptyBag = One(w)
BY DEF EmptyBag, One, SetToBag, (+)

LEMMA WithoutItself == \A w : Without(One(w), w) = EmptyBag
BY DEF EmptyBag, One, SetToBag, Without, (-)

\* A slide under way was not begun with a side that shows two contents.
SlideInv ==
  /\ plain /\ sliding => ~oneShot
  /\ oneShot \in BOOLEAN /\ plain \in BOOLEAN
  /\ sliding \in BOOLEAN /\ slideout \in BOOLEAN
  /\ HoldsExactly

LEMMA TransitionStep ==
  ASSUME SlideInv, NEW c, TransitionToContent(c)
  PROVE  SlideInv'
<1> SUFFICES ASSUME plain' PROVE HoldsExactly' /\ ~oneShot'
  BY DEF SlideInv, HoldsExactly, TransitionToContent
<1>1. plain /\ ~oneShot /\ UNCHANGED oneShot
  BY DEF TransitionToContent, SlideInv
<1>2. Interrupted = One(content)
  BY <1>1, WithoutItself, EmptyPlus DEF SlideInv, HoldsExactly, Interrupted
<1>3. holds' = (One(content) (+) (IF content = Nothing THEN One(c) ELSE EmptyBag)) (+) EmptyBag
  BY <1>1, <1>2 DEF TransitionToContent
<1>4. CASE content = Nothing
  <2>1. holds' = One(c)
    BY <1>3, <1>4, NothingIsEmpty, EmptyPlus, PlusEmpty
  <2>2. content' = c /\ ~slideout'
    BY <1>4 DEF TransitionToContent
  <2> QED
    BY <1>1, <2>1, <2>2 DEF HoldsExactly
<1>5. CASE content # Nothing
  <2>1. holds' = One(content)
    BY <1>3, <1>5, PlusEmpty
  <2> QED
    BY <1>1, <1>5, <2>1 DEF TransitionToContent, HoldsExactly
<1> QED
  BY <1>4, <1>5

LEMMA TimeOverStep ==
  ASSUME SlideInv, TimeOver
  PROVE  SlideInv'
<1>1. /\ sliding' \in BOOLEAN /\ slideout' \in BOOLEAN /\ UNCHANGED <<content, oneShot, plain>>
      /\ sliding
  BY DEF TimeOver, Rests
<1> SUFFICES ASSUME plain PROVE HoldsExactly'
  BY <1>1 DEF SlideInv, HoldsExactly
<1>2. ~oneShot
  BY <1>1 DEF SlideInv
<1>3. CASE ~slideout
  BY <1>1, <1>2, <1>3 DEF SlideInv, HoldsExactly, TimeOver, Rests
<1>4. CASE slideout
  <2>1. Without(holds, previous) = EmptyBag
    BY <1>1, <1>4, WithoutItself DEF SlideInv, HoldsExactly
  <2>2. CASE content = Nothing
    BY <1>1, <1>4, <2>1, <2>2, NothingIsEmpty DEF HoldsExactly, TimeOver, Rests
  <2>3. CASE content # Nothing
    BY <1>1, <1>2, <1>4, <2>1, <2>3, EmptyPlus DEF HoldsExactly, TimeOver, Rests
  <2> QED
    BY <2>2, <2>3
<1> QED
  BY <1>3, <1>4 DEF SlideInv

LEMMA SlideStep == SlideInv /\ [SlideNext]_slider => SlideInv'
<1> SUFFICES ASSUME SlideInv, [SlideNext]_slider PROVE SlideInv'
  OBVIOUS
<1>1. CASE Transitions
  BY <1>1, TransitionStep DEF Transitions
<1>2. CASE \E b \in BOOLEAN : SetSlideSide(b)
  BY <1>2 DEF SetSlideSide, SlideInv, HoldsExactly
<1>3. CASE Glide
  BY <1>3 DEF Glide, SlideInv, HoldsExactly
<1>4. CASE TimeOver
  BY <1>4, TimeOverStep
<1>5. CASE UNCHANGED slider
  BY <1>5 DEF slider, SlideInv, HoldsExactly
<1> QED
  BY <1>1, <1>2, <1>3, <1>4, <1>5 DEF SlideNext

\* However slides are cut short by others, the slider holds what slides out,
\* else its content, once, as long as one content is shown at a time.
THEOREM SliderHolds == SlideSpec => []HoldsExactly
<1>1. SlideInit => SlideInv
  BY NothingIsEmpty DEF SlideInit, SlideInv, HoldsExactly
<1>2. SlideInv => HoldsExactly
  BY DEF SlideInv
<1> QED
  BY <1>1, <1>2, SlideStep, PTL DEF SlideSpec

\* A widget that has left is removed for good, as long as one content is shown
\* at a time: at rest the slider holds nothing else than its content.
THEOREM OnlyItsContent == SlideSpec => [](plain => RemovedForGood)
<1>1. HoldsExactly => (plain => RemovedForGood)
  <2> SUFFICES ASSUME HoldsExactly, plain, ~sliding PROVE BagToSet(holds) \subseteq {content}
    BY DEF RemovedForGood
  <2>1. holds = One(content)
    BY DEF HoldsExactly
  <2> QED
    BY <2>1 DEF One, BagToSet, SetToBag
<1> QED
  BY <1>1, SliderHolds, PTL

\* Bags gain what is added to them and lose nothing but what is taken.
LEMMA BagsKeep ==
  ASSUME NEW B, IsABag(B), NEW w
  PROVE  /\ IsABag(B (+) One(w)) /\ IsABag(Without(B, w)) /\ IsABag(B (+) EmptyBag)
         /\ BagToSet(B) \subseteq BagToSet(B (+) One(w))
         /\ w # Nothing => w \in BagToSet(B (+) One(w))
         /\ BagToSet(B) \subseteq BagToSet(B (+) EmptyBag)
         /\ BagToSet(B) \ {w} \subseteq BagToSet(Without(B, w))
<1> DEFINE P == {n \in Nat : n > 0}
<1>1. B \in [DOMAIN B -> P]
  BY DEF IsABag
<1>2. /\ DOMAIN One(w) = {w} \ {Nothing} /\ \A e \in DOMAIN One(w) : One(w)[e] = 1
      /\ DOMAIN EmptyBag = {}
  BY DEF One, SetToBag, EmptyBag
<1>3. ASSUME NEW C, \A e \in DOMAIN C : C[e] = 1
      PROVE  /\ IsABag(B (+) C)
             /\ BagToSet(B (+) C) = DOMAIN B \cup DOMAIN C
  <2> DEFINE S == [e \in (DOMAIN B) \cup (DOMAIN C) |->
                     (IF e \in DOMAIN B THEN B[e] ELSE 0)
                   + (IF e \in DOMAIN C THEN C[e] ELSE 0)]
  <2>1. B (+) C = S
    BY DEF (+)
  <2>2. \A e \in (DOMAIN B) \cup (DOMAIN C) : S[e] \in P
    BY <1>1, <1>3
  <2>3. DOMAIN S = (DOMAIN B) \cup (DOMAIN C) /\ S \in [DOMAIN S -> P]
    BY <2>2
  <2> HIDE DEF S
  <2> QED
    BY <2>1, <2>3 DEF IsABag, BagToSet
<1>4. IsABag(Without(B, w)) /\ BagToSet(B) \ {w} \subseteq BagToSet(Without(B, w))
  <2> DEFINE D == [e \in DOMAIN B |-> IF e \in DOMAIN One(w) THEN B[e] - One(w)[e] ELSE B[e]]
             R == [e \in {d \in DOMAIN D : D[d] > 0} |-> D[e]]
  <2>1. Without(B, w) = R
    BY DEF Without, (-)
  <2>2. /\ DOMAIN D = DOMAIN B
        /\ \A e \in DOMAIN B : D[e] \in Int
        /\ \A e \in DOMAIN B \ {w} : D[e] = B[e] /\ D[e] > 0
    BY <1>1, <1>2
  <2> HIDE DEF D
  <2>3. \A e \in DOMAIN R : R[e] \in P
    BY <2>2
  <2>4. DOMAIN B \ {w} \subseteq DOMAIN R
    BY <2>2
  <2>5. R \in [DOMAIN R -> P]
    BY <2>3
  <2> HIDE DEF R
  <2> QED
    BY <2>1, <2>4, <2>5 DEF IsABag, BagToSet
<1> QED
  BY <1>2, <1>3, <1>4 DEF BagToSet

\* At rest the content is among what the slider holds.
ContentHeld == ~sliding /\ content # Nothing => content \in BagToSet(holds)

\* A side that shows two contents holds the new one from the start, and takes
\* away another.
HeldInv ==
  /\ IsABag(holds)
  /\ ~oneShot => plain
  /\ sliding /\ slideout => previous # content
  /\ oneShot /\ content # Nothing => content \in BagToSet(holds)

LEMMA HeldStep ==
  ASSUME HeldInv, [SlideNext]_slider, UNCHANGED oneShot
  PROVE  HeldInv'
<1>1. ASSUME NEW c, TransitionToContent(c) PROVE HeldInv'
  <2>1. IsABag(Interrupted)
    <3>1. IsABag(Without(holds, previous))
      BY BagsKeep DEF HeldInv
    <3>2. IsABag(Without(holds, previous) (+) One(content))
      BY <3>1, BagsKeep
    <3> QED
      BY <3>2 DEF Interrupted, HeldInv
  <2> DEFINE x == IF content = Nothing THEN One(c) ELSE EmptyBag
             y == IF oneShot THEN One(c) ELSE EmptyBag
  <2>2. holds' = (Interrupted (+) x) (+) y
    BY <1>1 DEF TransitionToContent
  <2>3. IsABag(Interrupted (+) x)
    BY <2>1, BagsKeep
  <2>4. IsABag((Interrupted (+) x) (+) One(c)) /\ IsABag((Interrupted (+) x) (+) EmptyBag)
    BY <2>3, BagsKeep
  <2>5. c # Nothing => c \in BagToSet((Interrupted (+) x) (+) One(c))
    BY <2>3, BagsKeep
  <2>6. /\ content' = c /\ previous' = content /\ c # content
        /\ ~oneShot => plain'
    BY <1>1 DEF TransitionToContent, HeldInv
  <2> HIDE DEF x
  <2> QED
    BY <2>2, <2>4, <2>5, <2>6 DEF HeldInv
<1>2. CASE TimeOver
  <2> DEFINE left == IF slideout THEN Without(holds, previous) ELSE holds
  <2>1. /\ holds' = IF Rests THEN left ELSE left (+) One(content)
        /\ sliding /\ sliding' = ~Rests /\ slideout' = (slideout /\ ~oneShot /\ content = Nothing)
        /\ UNCHANGED <<content, oneShot, plain>>
    BY <1>2 DEF TimeOver
  <2>2. IsABag(left) /\ IsABag(left (+) One(content))
    <3>1. IsABag(left)
      BY BagsKeep DEF HeldInv
    <3> HIDE DEF left
    <3> QED
      BY <3>1, BagsKeep
  <2>3. oneShot /\ content # Nothing => content \in BagToSet(left)
    <3>1. BagToSet(holds) \ {previous} \subseteq BagToSet(Without(holds, previous))
      BY BagsKeep DEF HeldInv
    <3> QED
      BY <2>1, <3>1 DEF HeldInv
  <2> HIDE DEF left
  <2>4. IsABag(holds') /\ (oneShot' /\ content' # Nothing => content' \in BagToSet(holds'))
    BY <2>1, <2>2, <2>3 DEF Rests
  <2>5. ~(sliding' /\ slideout')
    BY <2>1, Zenon DEF Rests
  <2>6. ~oneShot' => plain'
    BY <2>1 DEF HeldInv
  <2> QED
    BY <2>4, <2>5, <2>6 DEF HeldInv
<1>3. ASSUME NEW both \in BOOLEAN, SetSlideSide(both) PROVE HeldInv'
  <2>1. /\ oneShot' = both /\ plain' = (plain /\ ~(sliding /\ both))
        /\ UNCHANGED <<holds, content, previous, sliding, slideout>>
    BY <1>3 DEF SetSlideSide
  <2>2. ASSUME ~oneShot PROVE plain'
    <3>1. plain
      BY <2>2 DEF HeldInv
    <3>2. both = oneShot
      BY <2>1
    <3>3. ~both
      BY <2>2, <3>2
    <3> QED
      BY <2>1, <3>1, <3>3
  <2> QED
    BY <2>1, <2>2 DEF HeldInv
<1>4. CASE Glide
  BY <1>4 DEF Glide, HeldInv
<1>5. CASE UNCHANGED slider
  BY <1>5 DEF slider, HeldInv
<1> QED
  BY <1>1, <1>2, <1>3, <1>4, <1>5 DEF SlideNext, Transitions

\* A slider whose side is never changed does not lose what it is to show,
\* however its slides are cut short: with a side that shows two contents, where
\* others may be left behind, as with one that does not.
THEOREM ContentNeverLost ==
  SlideSpec /\ [][UNCHANGED oneShot]_slider => []ContentHeld
<1>1. SlideInit => HeldInv /\ SlideInv
  BY NothingIsEmpty DEF SlideInit, HeldInv, SlideInv, HoldsExactly, EmptyBag, SetToBag, IsABag
<1>2. HeldInv /\ SlideInv /\ [SlideNext]_slider /\ [UNCHANGED oneShot]_slider
      => HeldInv' /\ SlideInv'
  BY HeldStep, SlideStep DEF slider
<1>3. HeldInv /\ SlideInv => ContentHeld
  <2> SUFFICES ASSUME HeldInv, SlideInv, ~sliding, content # Nothing
               PROVE  content \in BagToSet(holds)
    BY DEF ContentHeld
  <2>1. CASE oneShot
    BY <2>1 DEF HeldInv
  <2>2. CASE ~oneShot
    <3>1. holds = One(content)
      BY <2>2 DEF HeldInv, SlideInv, HoldsExactly
    <3> QED
      BY <3>1 DEF One, BagToSet, SetToBag
  <2> QED
    BY <2>1, <2>2
<1> QED
  BY <1>1, <1>2, <1>3, PTL DEF SlideSpec

-----------------------------------------------------------------------------
(* The game loop.                                                          *)

Places == Components \cup {Hole}

\* No component is in two slots.
Once(list) == \A i, j \in DOMAIN list : list[i] # Hole /\ list[i] = list[j] => i = j

Slotted(list) == list \in Seq(Places) /\ Once(list)

LEMMA RemovedList ==
  ASSUME NEW list, Slotted(list), NEW gone
  PROVE  /\ Slotted(Removed(list, gone)) /\ Len(Removed(list, gone)) = Len(list)
         /\ \A i \in DOMAIN list :
              Removed(list, gone)[i] = IF list[i] \in gone THEN Hole ELSE list[i]
         /\ Listed(Removed(list, gone)) = Listed(list) \ gone
<1> DEFINE n == Len(list)
           t == Removed(list, gone)
<1>1. n \in Nat /\ DOMAIN list = 1 .. n /\ \A i \in 1 .. n : list[i] \in Places
  BY DEF Slotted
<1> HIDE DEF n
<1>2. /\ t \in Seq(Places) /\ Len(t) = n /\ DOMAIN t = 1 .. n
      /\ \A i \in 1 .. n : t[i] = IF list[i] \in gone THEN Hole ELSE list[i]
  <2>1. t = [i \in 1 .. n |-> IF list[i] \in gone THEN Hole ELSE list[i]]
    BY <1>1 DEF Removed
  <2>2. \A i \in 1 .. n : (IF list[i] \in gone THEN Hole ELSE list[i]) \in Places
    BY <1>1 DEF Places
  <2> HIDE DEF t
  <2> QED  BY <1>1, <2>1, <2>2
<1> HIDE DEF t
<1>3. Once(t)
  BY <1>1, <1>2 DEF Once, Slotted
<1>4. Listed(t) = Listed(list) \ gone
  BY <1>1, <1>2, ComponentAssumption DEF Listed
<1> QED  BY <1>1, <1>2, <1>3, <1>4 DEF Slotted, t, n

LEMMA AddedList ==
  ASSUME NEW list, Slotted(list), NEW c \in Components
  PROVE  /\ Slotted(Added(list, c)) /\ Len(Added(list, c)) \in Nat
         /\ Len(Added(list, c)) >= Len(list)
         /\ \A i \in DOMAIN list : i \in DOMAIN Added(list, c) /\ Added(list, c)[i] = list[i]
         /\ Listed(Added(list, c)) = Listed(list) \cup {c}
<1>1. CASE c \in Listed(list)
  BY <1>1 DEF Added, Slotted
<1>2. CASE c \notin Listed(list)
  <2> DEFINE n == Len(list)
             t == Append(list, c)
  <2>1. /\ n \in Nat /\ DOMAIN list = 1 .. n /\ t \in Seq(Places) /\ Len(t) = n + 1
        /\ DOMAIN t = 1 .. n + 1 /\ t[n + 1] = c /\ \A i \in 1 .. n : t[i] = list[i]
    BY DEF Slotted, Places
  <2>2. \A i \in 1 .. n : list[i] # c
    BY <1>2, <2>1 DEF Listed
  <2>3. n + 1 \in 1 .. n + 1 /\ 1 .. n + 1 = (1 .. n) \cup {n + 1}
    BY <2>1
  <2> HIDE DEF n, t
  <2>4. Once(t)
    BY <2>1, <2>2, <2>3 DEF Once, Slotted
  <2>5. Listed(t) = Listed(list) \cup {c}
    <3>1. \A x : (\E i \in 1 .. n + 1 : t[i] = x) <=> x = c \/ \E i \in 1 .. n : list[i] = x
      BY <2>1, <2>3
    <3> QED  BY <2>1, <3>1 DEF Listed
  <2>6. Added(list, c) = t
    BY <1>2 DEF Added, t
  <2> QED  BY <2>1, <2>4, <2>5, <2>6 DEF Slotted, n
<1> QED  BY <1>1, <1>2

\* The full slots of a list are numbered by their rank.
LEMMA RankBijection ==
  ASSUME NEW n \in Nat, NEW full \in SUBSET (1 .. n)
  PROVE  LET Rank(i) == Cardinality({j \in full : j <= i})
         IN  /\ Cardinality(full) \in Nat
             /\ \A i \in full : Rank(i) \in 1 .. Cardinality(full)
             /\ \A i, j \in full : Rank(i) = Rank(j) => i = j
             /\ \A k \in 1 .. Cardinality(full) : \E i \in full : Rank(i) = k
<1> DEFINE Upto(i) == {j \in full : j <= i}
           Rank(i) == Cardinality(Upto(i))
           f == [i \in full |-> Rank(i)]
           m == Cardinality(full)
<1>1. IsFiniteSet(full) /\ m \in Nat
  <2>1. IsFiniteSet(1 .. n)
    BY FS_Interval
  <2>2. IsFiniteSet(full)
    BY <2>1, FS_Subset
  <2> QED  BY <2>2, FS_CardinalityType
<1>2. ASSUME NEW i \in full
      PROVE  IsFiniteSet(Upto(i)) /\ Rank(i) \in 1 .. m
  <2>1. Upto(i) \in SUBSET full /\ i \in Upto(i)
    OBVIOUS
  <2> HIDE DEF Upto
  <2>2. IsFiniteSet(Upto(i)) /\ Rank(i) <= m
    BY <1>1, <2>1, FS_Subset
  <2>3. Rank(i) \in Nat /\ Rank(i) # 0
    BY <2>1, <2>2, FS_CardinalityType, FS_EmptySet
  <2> QED  BY <1>1, <2>2, <2>3
<1>3. ASSUME NEW i \in full, NEW j \in full, i < j PROVE Rank(i) # Rank(j)
  <2>1. Upto(i) \in SUBSET Upto(j) /\ j \in Upto(j) /\ j \notin Upto(i)
    <3>1. i \in Int /\ j \in Int /\ i < j /\ \A k \in full : k \in Int
      BY <1>3
    <3>2. ASSUME NEW k \in Upto(i) PROVE k \in Upto(j)
      BY <3>1
    <3>3. j \in Upto(j) /\ j \notin Upto(i)
      BY <3>1
    <3> HIDE DEF Upto
    <3> QED  BY <3>2, <3>3
  <2> HIDE DEF Upto
  <2> QED  BY <1>2, <2>1, FS_Subset
<1>4. \A i, j \in full : Rank(i) = Rank(j) => i = j
  <2> SUFFICES ASSUME NEW i \in full, NEW j \in full, Rank(i) = Rank(j), i # j PROVE FALSE
    OBVIOUS
  <2>1. i < j \/ j < i
    OBVIOUS
  <2> HIDE DEF Rank
  <2> QED  BY <1>3, <2>1
<1>5. f \in Surjection(full, 1 .. m)
  <2>1. f \in Injection(full, 1 .. m)
    <3>1. f = [i \in full |-> Rank(i)] /\ \A i \in full : Rank(i) \in 1 .. m
      BY <1>2
    <3> HIDE DEF Rank, m, f
    <3>2. f \in [full -> 1 .. m] /\ \A i \in full : f[i] = Rank(i)
      BY <3>1
    <3>3. \A i, j \in full : f[i] = f[j] => i = j
      BY <1>4, <3>2
    <3> QED  BY <3>2, <3>3, Zenon DEF Injection, IsInjective
  <2>2. IsFiniteSet(1 .. m) /\ Cardinality(1 .. m) = m
    BY <1>1, FS_Interval
  <2> HIDE DEF f
  <2> QED  BY <2>1, <2>2, FS_Injection
<1>6. \A k \in 1 .. m : \E i \in full : Rank(i) = k
  <2> HIDE DEF Rank, m
  <2> QED  BY <1>5 DEF Surjection
<1> QED  BY <1>1, <1>2, <1>4, <1>6

\* As many components are beyond the last slot that will be left as there are
\* holes before it: each of them moves to one of the holes.
LEMMA Movers ==
  ASSUME NEW n \in Nat, NEW full \in SUBSET (1 .. n)
  PROVE  LET m          == Cardinality(full)
             holes      == (1 .. m) \ full
             late       == full \ (1 .. m)
             Rank(S, i) == Cardinality({j \in S : j <= i})
             Mover(k)   == CHOOSE i \in late :
                             Rank(late, i) = Cardinality(late) + 1 - Rank(holes, k)
         IN  /\ m \in Nat
             /\ \A k \in holes : Mover(k) \in late
             /\ \A k, l \in holes : Mover(k) = Mover(l) => k = l
             /\ \A i \in late : \E k \in holes : Mover(k) = i
<1> DEFINE m          == Cardinality(full)
           holes      == (1 .. m) \ full
           late       == full \ (1 .. m)
           Rank(S, i) == Cardinality({j \in S : j <= i})
           Mover(k)   == CHOOSE i \in late :
                           Rank(late, i) = Cardinality(late) + 1 - Rank(holes, k)
           c          == Cardinality(late)
<1>1. IsFiniteSet(full) /\ m \in Nat
  <2>1. IsFiniteSet(1 .. n)
    BY FS_Interval
  <2>2. IsFiniteSet(full)
    BY <2>1, FS_Subset
  <2> QED  BY <2>2, FS_CardinalityType
<1> HIDE DEF m
<1>2. Cardinality(holes) = c
  <2>1. IsFiniteSet(1 .. m) /\ Cardinality(1 .. m) = m
    BY <1>1, FS_Interval
  <2>2. Cardinality(holes) = Cardinality(1 .. m) - Cardinality((1 .. m) \cap full)
    BY <2>1, FS_Difference
  <2>3. c = Cardinality(full) - Cardinality(full \cap (1 .. m))
    BY <1>1, FS_Difference
  <2>4. full \cap (1 .. m) = (1 .. m) \cap full
    OBVIOUS
  <2> QED  BY <2>1, <2>2, <2>3, <2>4 DEF m
<1>3. /\ \A k \in holes : Rank(holes, k) \in 1 .. Cardinality(holes)
      /\ \A k, l \in holes : Rank(holes, k) = Rank(holes, l) => k = l
      /\ \A r \in 1 .. Cardinality(holes) : \E k \in holes : Rank(holes, k) = r
  <2>1. holes \in SUBSET (1 .. m)
    OBVIOUS
  <2> HIDE DEF holes
  <2> QED  BY <1>1, <2>1, RankBijection
<1>4. /\ c \in Nat
      /\ \A i \in late : Rank(late, i) \in 1 .. c
      /\ \A i, j \in late : Rank(late, i) = Rank(late, j) => i = j
      /\ \A r \in 1 .. c : \E i \in late : Rank(late, i) = r
  <2>1. late \in SUBSET (1 .. n)
    OBVIOUS
  <2> HIDE DEF late
  <2> QED  BY <2>1, RankBijection
<1> DEFINE Up(i)   == Rank(late, i)
           Down(k) == c + 1 - Rank(holes, k)
<1>5. /\ \A i \in late : Up(i) \in 1 .. c
      /\ \A i, j \in late : Up(i) = Up(j) => i = j
      /\ \A r \in 1 .. c : \E i \in late : Up(i) = r
  BY <1>4
<1>6. /\ \A k \in holes : Down(k) \in 1 .. c
      /\ \A k, l \in holes : Down(k) = Down(l) => k = l
      /\ \A r \in 1 .. c : \E k \in holes : Down(k) = r
  <2> DEFINE R(k) == Rank(holes, k)
  <2>1. /\ \A k \in holes : R(k) \in 1 .. c
        /\ \A k, l \in holes : R(k) = R(l) => k = l
        /\ \A r \in 1 .. c : \E k \in holes : R(k) = r
    BY <1>2, <1>3
  <2>2. \A k : Down(k) = c + 1 - R(k)
    OBVIOUS
  <2> HIDE DEF R, Down, holes, c
  <2>3. \A k \in holes : Down(k) \in 1 .. c
    BY <1>4, <2>1, <2>2
  <2>4. ASSUME NEW k \in holes, NEW l \in holes, Down(k) = Down(l) PROVE k = l
    <3>1. R(k) \in Int /\ R(l) \in Int /\ c \in Int
      BY <1>4, <2>1
    <3>2. R(k) = R(l)
      BY <2>2, <2>4, <3>1
    <3> QED  BY <2>1, <3>2
  <2>5. ASSUME NEW r \in 1 .. c PROVE \E k \in holes : Down(k) = r
    <3>1. c + 1 - r \in 1 .. c
      BY <1>4
    <3>2. PICK k \in holes : R(k) = c + 1 - r
      BY <2>1, <3>1
    <3>3. Down(k) = r
      BY <1>4, <2>2, <3>2
    <3> QED  BY <3>3
  <2> QED  BY <2>3, <2>4, <2>5
<1>7. \A k : Mover(k) = CHOOSE i \in late : Up(i) = Down(k)
  OBVIOUS
<1> HIDE DEF Up, Down, Mover, holes, late, c
<1>8. \A k \in holes : Mover(k) \in late /\ Up(Mover(k)) = Down(k)
  BY <1>5, <1>6, <1>7
<1>9. \A k, l \in holes : Mover(k) = Mover(l) => k = l
  BY <1>6, <1>8
<1>10. \A i \in late : \E k \in holes : Mover(k) = i
  <2> SUFFICES ASSUME NEW i \in late PROVE \E k \in holes : Mover(k) = i
    OBVIOUS
  <2>1. PICK k \in holes : Down(k) = Up(i)
    BY <1>5, <1>6
  <2> QED  BY <1>5, <1>8, <2>1
<1> QED  BY <1>1, <1>8, <1>9, <1>10 DEF Mover, holes, late, m

\* Taking the holes away loses no component and doubles none.
LEMMA CompactedList ==
  ASSUME NEW list, Slotted(list)
  PROVE  Slotted(Compacted(list)) /\ Listed(Compacted(list)) = Listed(list)
<1> DEFINE n == Len(list)
           full == {i \in DOMAIN list : list[i] # Hole}
           m == Cardinality(full)
           holes == (1 .. m) \ full
           late == full \ (1 .. m)
           Rank(S, i) == Cardinality({j \in S : j <= i})
           Mover(k) == CHOOSE i \in late :
                         Rank(late, i) = Cardinality(late) + 1 - Rank(holes, k)
           At(k) == IF k \in full THEN k ELSE Mover(k)
           t == Compacted(list)
<1>1. n \in Nat /\ DOMAIN list = 1 .. n /\ \A i \in 1 .. n : list[i] \in Places
  BY DEF Slotted
<1>2. full \in SUBSET (1 .. n) /\ \A i \in full : list[i] \in Components
  BY <1>1 DEF Places
<1>3. /\ m \in Nat
      /\ \A k \in holes : Mover(k) \in late
      /\ \A k, l \in holes : Mover(k) = Mover(l) => k = l
      /\ \A i \in late : \E k \in holes : Mover(k) = i
  <2> HIDE DEF full
  <2> QED  BY <1>1, <1>2, Movers
<1>4. t = [k \in 1 .. m |-> list[At(k)]]
  BY DEF Compacted
<1>11. \A i \in full : list[i] # Hole
  OBVIOUS
<1>12. \A i \in 1 .. n : list[i] # Hole => i \in full
  BY <1>1
<1> HIDE DEF Rank, full, m, t, Mover
<1>5. \A k \in 1 .. m : At(k) \in full
  BY <1>3
<1>13. \A k, l \in 1 .. m : At(k) = At(l) => k = l
  BY <1>3
<1>6. \A i \in full : \E k \in 1 .. m : At(k) = i
  BY <1>3
<1> HIDE DEF At
<1>7. t \in Seq(Places) /\ DOMAIN t = 1 .. m
  <2>1. \A k \in 1 .. m : list[At(k)] \in Places
    BY <1>2, <1>5 DEF Places
  <2> QED  BY <1>3, <1>4, <2>1
<1>8. Once(t)
  <2> SUFFICES ASSUME NEW k \in 1 .. m, NEW l \in 1 .. m, t[k] = t[l] PROVE k = l
    BY <1>7 DEF Once
  <2>1. At(k) \in full /\ At(l) \in full /\ list[At(k)] = list[At(l)]
    BY <1>4, <1>5
  <2>2. At(k) = At(l)
    BY <1>1, <1>2, <1>11, <2>1 DEF Slotted, Once
  <2> QED  BY <1>13, <2>2
<1>9. Listed(t) \subseteq Listed(list)
  BY <1>1, <1>2, <1>4, <1>5, <1>7 DEF Listed
<1>10. Listed(list) \subseteq Listed(t)
  <2> SUFFICES ASSUME NEW c \in Components, NEW i \in 1 .. n, list[i] = c
               PROVE  \E k \in 1 .. m : t[k] = c
    BY <1>1, <1>7 DEF Listed
  <2>1. i \in full
    BY <1>12, ComponentAssumption
  <2>2. PICK k \in 1 .. m : At(k) = i
    BY <1>6, <2>1
  <2> QED  BY <1>4, <2>2
<1> QED  BY <1>7, <1>8, <1>9, <1>10 DEF Slotted, t

\* The stack without its top.
LEMMA FrontList ==
  ASSUME NEW S, NEW s \in Seq(S), Len(s) > 1, \A i, j \in DOMAIN s : s[i] = s[j] => i = j
  PROVE  /\ Front(s) \in Seq(S) /\ Front(s) # <<>>
         /\ \A i, j \in DOMAIN Front(s) : Front(s)[i] = Front(s)[j] => i = j
         /\ ToSet(Front(s)) = ToSet(s) \ {Last(s)}
         /\ Last(s) \in S /\ Last(s) \in ToSet(s)
         /\ Last(Front(s)) \in S /\ Last(Front(s)) \in ToSet(s) \ {Last(s)}
<1> DEFINE n == Len(s)
           f == Front(s)
<1>1. n \in Nat /\ n > 1 /\ DOMAIN s = 1 .. n /\ \A i \in 1 .. n : s[i] \in S
  OBVIOUS
<1>2. f \in Seq(S) /\ Len(f) = n - 1 /\ \A i \in 1 .. n - 1 : f[i] = s[i]
  <2>1. \A i \in 1 .. n - 1 : s[i] \in S
    BY <1>1
  <2>2. f = SubSeq(s, 1, n - 1)
    BY DEF Front
  <2> HIDE DEF n, f
  <2>3. /\ SubSeq(s, 1, n - 1) \in Seq(S)
        /\ Len(SubSeq(s, 1, n - 1)) = IF 1 <= n - 1 THEN n - 1 - 1 + 1 ELSE 0
        /\ \A i \in 1 .. n - 1 - 1 + 1 : SubSeq(s, 1, n - 1)[i] = s[1 + i - 1]
    BY <1>1, <2>1, SubSeqProperties
  <2> QED  BY <1>1, <2>2, <2>3
<1>3. Last(s) = s[n] /\ Last(f) = s[n - 1]
  <2>1. Last(s) = s[n] /\ Last(f) = f[Len(f)]
    BY DEF Last
  <2> HIDE DEF n, f
  <2> QED  BY <1>1, <1>2, <2>1
<1> HIDE DEF f, n
<1>4. DOMAIN f = 1 .. n - 1 /\ f # <<>>
  BY <1>1, <1>2
<1>5. n \in 1 .. n /\ n - 1 \in 1 .. n /\ 1 .. n = (1 .. n - 1) \cup {n} /\ n \notin 1 .. n - 1
  BY <1>1
<1>6. \A i \in 1 .. n - 1 : s[i] # s[n]
  BY <1>1, <1>5
<1>7. ToSet(f) = ToSet(s) \ {s[n]}
  <2>1. ASSUME NEW x \in ToSet(f) PROVE x \in ToSet(s) /\ x # s[n]
    BY <1>1, <1>2, <1>4, <1>5, <1>6, <2>1 DEF ToSet
  <2>2. ASSUME NEW x \in ToSet(s), x # s[n] PROVE x \in ToSet(f)
    BY <1>1, <1>2, <1>4, <1>5, <2>2 DEF ToSet
  <2> QED  BY <2>1, <2>2
<1>8. s[n] \in ToSet(s) /\ s[n - 1] \in ToSet(s)
  BY <1>1, <1>5 DEF ToSet
<1>9. s[n - 1] # s[n]
  BY <1>1, <1>5, <1>6
<1>10. \A i, j \in DOMAIN f : f[i] = f[j] => i = j
  BY <1>1, <1>2, <1>4, <1>5
<1> QED  BY <1>1, <1>2, <1>3, <1>4, <1>5, <1>7, <1>8, <1>9, <1>10 DEF f, n

\* A sequence that gets one more.
LEMMA AppendedList ==
  ASSUME NEW S, NEW s \in Seq(S), NEW c \in S
  PROVE  /\ Append(s, c) \in Seq(S) /\ Append(s, c) # <<>> /\ Last(Append(s, c)) = c
         /\ ToSet(Append(s, c)) = ToSet(s) \cup {c}
         /\ (c \notin ToSet(s) /\ \A i, j \in DOMAIN s : s[i] = s[j] => i = j) =>
              \A i, j \in DOMAIN Append(s, c) : Append(s, c)[i] = Append(s, c)[j] => i = j
<1> DEFINE n == Len(s)
           t == Append(s, c)
<1>1. /\ n \in Nat /\ DOMAIN s = 1 .. n /\ t \in Seq(S) /\ Len(t) = n + 1
      /\ DOMAIN t = 1 .. n + 1 /\ t[n + 1] = c /\ \A i \in 1 .. n : t[i] = s[i]
      /\ Last(t) = c
  BY DEF Last
<1> HIDE DEF n, t
<1>2. n + 1 \in 1 .. n + 1 /\ 1 .. n + 1 = (1 .. n) \cup {n + 1}
  BY <1>1
<1>3. ToSet(t) = ToSet(s) \cup {c}
  <2>1. \A x : (\E i \in 1 .. n + 1 : t[i] = x) <=> x = c \/ \E i \in 1 .. n : s[i] = x
    BY <1>1, <1>2
  <2> QED  BY <1>1, <2>1 DEF ToSet
<1>4. ASSUME c \notin ToSet(s), \A i, j \in DOMAIN s : s[i] = s[j] => i = j
      PROVE  \A i, j \in DOMAIN t : t[i] = t[j] => i = j
  <2>1. \A i \in 1 .. n : s[i] # c
    BY <1>1, <1>4 DEF ToSet
  <2> QED  BY <1>1, <1>2, <1>4, <2>1
<1>5. t # <<>>
  BY <1>1
<1> QED  BY <1>1, <1>3, <1>4, <1>5 DEF t

-----------------------------------------------------------------------------
(* The invariant of the loop.                                              *)

Phases == {"rest", "poll", "event", "time", "clean", "exit"}
Point  == [phase : Phases, slot : Int, now : Places, ops : Int, events : Int]

LoopTyped ==
  /\ Slotted(idles) /\ Slotted(drawables) /\ at \in Point /\ start \in Nat
  /\ stack \in Seq(Screens) /\ stack # <<>> /\ garbage \in Seq(Screens)

\* The screens of the stack are there once, exist, and do not wait to be deleted.
StackSound ==
  /\ \A i, j \in DOMAIN stack : stack[i] = stack[j] => i = j
  /\ ToSet(stack) \cap ToSet(garbage) = {}
  /\ ToSet(stack) \subseteq alive

ListedAlive == Listed(idles) \cup Listed(drawables) \subseteq alive

\* A component is called from within a sweep only; a screen that is called exists.
CalledNow ==
  /\ at.now # Hole => at.phase \in {"event", "time"}
  /\ at.now \in Screens => at.now \in alive

\* One that stays has its slot before the bound of the sweep, and was called
\* once the sweep has reached it.
Sits(c) ==
  \E i \in 1 .. start :
    /\ idles[i] = c
    /\ at.phase = "time" /\ (i < at.slot \/ (i = at.slot /\ at.now # Hole)) => c \in called

Sweep ==
  at.phase \in {"poll", "event", "time"} =>
    /\ start <= Len(idles) /\ (at.phase # "poll" => at.slot >= 1)
    /\ stayed \subseteq Components /\ \A c \in stayed : Sits(c)

LoopInv ==
  /\ LoopTyped /\ StackSound /\ ListedAlive /\ TopShown /\ CalledNow /\ Sweep
  /\ EveryoneCalled

\* A callback moves the loop no further.
LEMMA UsedKeeps ==
  ASSUME LoopTyped, CalledNow, Busy, Used
  PROVE  /\ at' \in Point /\ at.phase \in {"event", "time"}
         /\ at'.phase = at.phase /\ at'.slot = at.slot /\ at'.now = at.now
BY DEF LoopTyped, CalledNow, Busy, Used, Point

LEMMA SitsStill ==
  ASSUME LoopTyped, LoopTyped', Sweep, at.phase \in {"event", "time"},
         at'.phase = at.phase, at'.slot = at.slot, at'.now = at.now,
         UNCHANGED <<start, called>>, Len(idles') >= Len(idles), stayed' \subseteq stayed,
         \A i \in DOMAIN idles : idles[i] \in stayed' => idles'[i] = idles[i]
  PROVE  Sweep' /\ EveryoneCalled'
<1>1. ASSUME NEW c \in stayed' PROVE Sits(c)'
  <2>1. Sits(c) /\ start <= Len(idles)
    BY <1>1 DEF Sweep
  <2>2. PICK i \in 1 .. start :
          /\ idles[i] = c
          /\ at.phase = "time" /\ (i < at.slot \/ (i = at.slot /\ at.now # Hole)) => c \in called
    BY <2>1 DEF Sits
  <2>3. i \in DOMAIN idles
    BY <2>1 DEF LoopTyped, Slotted
  <2>4. idles'[i] = c
    BY <1>1, <2>2, <2>3
  <2> QED  BY <2>2, <2>4 DEF Sits
<1>2. start' <= Len(idles')
  BY DEF Sweep, LoopTyped, Slotted
<1> QED  BY <1>1, <1>2 DEF Sweep, EveryoneCalled

LEMMA AddKeeps ==
  ASSUME LoopInv, NEW c \in Components, Add(c)
  PROVE  LoopInv'
<1>1. /\ Busy /\ Used /\ c \in Idles /\ alive' = alive \cup {c} /\ idles' = Added(idles, c)
      /\ UNCHANGED <<drawables, stack, garbage, start, called, stayed>>
  BY DEF Add
<1>2. /\ at' \in Point /\ at.phase \in {"event", "time"}
      /\ at'.phase = at.phase /\ at'.slot = at.slot /\ at'.now = at.now
  BY <1>1, UsedKeeps DEF LoopInv
<1>3. /\ Slotted(idles') /\ Len(idles') >= Len(idles)
      /\ \A i \in DOMAIN idles : idles'[i] = idles[i]
      /\ Listed(idles') = Listed(idles) \cup {c}
  BY <1>1, AddedList DEF LoopInv, LoopTyped
<1>4. LoopTyped'
  BY <1>1, <1>2, <1>3 DEF LoopInv, LoopTyped
<1>5. StackSound' /\ ListedAlive' /\ CalledNow'
  BY <1>1, <1>2, <1>3 DEF LoopInv, StackSound, ListedAlive, CalledNow
<1>6. TopShown'
  BY <1>1, <1>3, ComponentAssumption DEF LoopInv, TopShown, Top
<1>7. Sweep' /\ EveryoneCalled'
  BY <1>1, <1>2, <1>3, <1>4, SitsStill DEF LoopInv
<1> QED  BY <1>4, <1>5, <1>6, <1>7 DEF LoopInv

\* Taking an idle component off the loop, whether it lives on or not.
LEMMA RemovalKeeps ==
  ASSUME LoopInv, NEW c \in Idles, Busy, Used, alive' \in {alive, alive \ {c}},
         idles' = Removed(idles, {c}), stayed' = stayed \ {c},
         UNCHANGED <<drawables, stack, garbage, start, called>>
  PROVE  LoopInv'
<1>1. c \in Components /\ c \notin Screens
  BY ComponentAssumption DEF Components
<1>2. /\ at' \in Point /\ at.phase \in {"event", "time"}
      /\ at'.phase = at.phase /\ at'.slot = at.slot /\ at'.now = at.now
  BY UsedKeeps DEF LoopInv
<1>3. /\ Slotted(idles') /\ Len(idles') = Len(idles)
      /\ \A i \in DOMAIN idles : idles'[i] = IF idles[i] = c THEN Hole ELSE idles[i]
      /\ Listed(idles') = Listed(idles) \ {c}
  BY RemovedList DEF LoopInv, LoopTyped
<1>4. LoopTyped'
  BY <1>2, <1>3 DEF LoopInv, LoopTyped
<1>5. ToSet(stack) \subseteq Screens
  BY DEF LoopInv, LoopTyped, ToSet
<1>6. c \notin Listed(drawables)
  <2>1. Top \in Screens
    BY DEF LoopInv, LoopTyped, TopShown
  <2> QED  BY <1>1, <2>1 DEF LoopInv, TopShown
<1>7. StackSound' /\ ListedAlive' /\ CalledNow'
  BY <1>1, <1>2, <1>3, <1>5, <1>6 DEF LoopInv, StackSound, ListedAlive, CalledNow
<1>8. TopShown'
  BY <1>1, <1>3 DEF LoopInv, TopShown, Top
<1>9. Sweep' /\ EveryoneCalled'
  <2>1. \A i \in DOMAIN idles : idles[i] \in stayed' => idles'[i] = idles[i]
    BY <1>3
  <2>2. Len(idles') >= Len(idles)
    BY <1>3 DEF LoopInv, LoopTyped, Slotted
  <2> QED  BY <1>2, <1>4, <2>1, <2>2, SitsStill DEF LoopInv
<1> QED  BY <1>4, <1>7, <1>8, <1>9 DEF LoopInv

\* The screen on top of the stack leaves both lists for another of the stack.
LEMMA ExchangeKeeps ==
  ASSUME LoopInv, NEW s \in Screens, Busy, Used,
         idles' = Added(Removed(idles, {Top}), s),
         drawables' = Added(Removed(drawables, {Top}), s),
         stayed' = stayed \ {Top}, alive' = alive \cup {s},
         UNCHANGED <<start, called>>,
         stack' \in Seq(Screens), stack' # <<>>, Last(stack') = s, garbage' \in Seq(Screens),
         StackSound'
  PROVE  LoopInv'
<1>1. s \in Components
  BY DEF Components
<1>2. /\ at' \in Point /\ at.phase \in {"event", "time"}
      /\ at'.phase = at.phase /\ at'.slot = at.slot /\ at'.now = at.now
  BY UsedKeeps DEF LoopInv
<1>3. ASSUME NEW list, Slotted(list)
      PROVE  LET t == Added(Removed(list, {Top}), s)
             IN  /\ Slotted(t) /\ Len(t) >= Len(list)
                 /\ \A i \in DOMAIN list : list[i] # Top => t[i] = list[i]
                 /\ Listed(t) = (Listed(list) \ {Top}) \cup {s}
  <2> DEFINE r == Removed(list, {Top})
             t == Added(r, s)
  <2>1. /\ Slotted(r) /\ Len(r) = Len(list) /\ Listed(r) = Listed(list) \ {Top}
        /\ \A i \in DOMAIN list : r[i] = IF list[i] \in {Top} THEN Hole ELSE list[i]
    BY <1>3, RemovedList
  <2>2. DOMAIN r = DOMAIN list
    BY <1>3, <2>1 DEF Slotted
  <2> HIDE DEF r
  <2>3. /\ Slotted(t) /\ Len(t) >= Len(r) /\ Listed(t) = Listed(r) \cup {s}
        /\ \A i \in DOMAIN r : t[i] = r[i]
    BY <1>1, <2>1, AddedList
  <2> HIDE DEF t
  <2>4. \A i \in DOMAIN list : list[i] # Top => t[i] = list[i]
    BY <2>1, <2>2, <2>3
  <2> QED  BY <2>1, <2>3, <2>4 DEF r, t
<1>4. /\ Slotted(idles') /\ Len(idles') >= Len(idles)
      /\ \A i \in DOMAIN idles : idles[i] # Top => idles'[i] = idles[i]
      /\ Listed(idles') = (Listed(idles) \ {Top}) \cup {s}
  BY <1>3 DEF LoopInv, LoopTyped
<1>5. Slotted(drawables') /\ Listed(drawables') = (Listed(drawables) \ {Top}) \cup {s}
  BY <1>3 DEF LoopInv, LoopTyped
<1>6. LoopTyped'
  BY <1>2, <1>4, <1>5 DEF LoopInv, LoopTyped
<1>7. ListedAlive' /\ CalledNow'
  BY <1>2, <1>4, <1>5 DEF LoopInv, ListedAlive, CalledNow
<1>8. TopShown'
  <2>1. Top' = s
    BY DEF Top
  <2> QED  BY <1>4, <1>5, <2>1 DEF LoopInv, TopShown
<1>9. Sweep' /\ EveryoneCalled'
  BY <1>2, <1>4, <1>6, SitsStill DEF LoopInv
<1> QED  BY <1>6, <1>7, <1>8, <1>9 DEF LoopInv

LEMMA PushKeeps ==
  ASSUME LoopInv, NEW s \in Components, Push(s)
  PROVE  LoopInv'
<1>1. /\ Busy /\ Used /\ s \in Screens /\ s \notin ToSet(stack) \cup ToSet(garbage)
      /\ alive' = alive \cup {s}
      /\ idles' = Added(Removed(idles, {Top}), s)
      /\ drawables' = Added(Removed(drawables, {Top}), s)
      /\ stack' = Append(stack, s) /\ stayed' = stayed \ {Top}
      /\ UNCHANGED <<garbage, start, called>>
  BY DEF Push
<1>2. /\ stack' \in Seq(Screens) /\ stack' # <<>> /\ Last(stack') = s
      /\ ToSet(stack') = ToSet(stack) \cup {s}
      /\ \A i, j \in DOMAIN stack' : stack'[i] = stack'[j] => i = j
  BY <1>1, AppendedList DEF LoopInv, LoopTyped, StackSound
<1>3. StackSound'
  BY <1>1, <1>2 DEF LoopInv, StackSound
<1> QED  BY <1>1, <1>2, <1>3, ExchangeKeeps DEF LoopInv, LoopTyped

LEMMA PopKeeps ==
  ASSUME LoopInv, Pop
  PROVE  LoopInv'
<1> DEFINE below == Last(Front(stack))
<1>1. /\ Busy /\ Used /\ Len(stack) > 1
      /\ idles' = Added(Removed(idles, {Top}), below)
      /\ drawables' = Added(Removed(drawables, {Top}), below)
      /\ stack' = Front(stack) /\ stayed' = stayed \ {Top}
      /\ garbage' = IF Top \in AutoRelease THEN Append(garbage, Top) ELSE garbage
      /\ UNCHANGED <<alive, start, called>>
  BY DEF Pop
<1>2. /\ stack' \in Seq(Screens) /\ stack' # <<>>
      /\ \A i, j \in DOMAIN stack' : stack'[i] = stack'[j] => i = j
      /\ ToSet(stack') = ToSet(stack) \ {Top} /\ Top \in Screens
      /\ below \in Screens /\ below \in ToSet(stack)
  BY <1>1, FrontList DEF LoopInv, LoopTyped, StackSound, Top
<1>3. /\ garbage' \in Seq(Screens) /\ ToSet(garbage') \subseteq ToSet(garbage) \cup {Top}
  <2>1. CASE Top \in AutoRelease
    BY <1>1, <1>2, <2>1, AppendedList DEF LoopInv, LoopTyped
  <2>2. CASE Top \notin AutoRelease
    BY <1>1, <2>2 DEF LoopInv, LoopTyped
  <2> QED  BY <2>1, <2>2
<1>4. StackSound'
  BY <1>1, <1>2, <1>3 DEF LoopInv, StackSound
<1>5. alive' = alive \cup {below}
  BY <1>1, <1>2 DEF LoopInv, StackSound
<1>6. Last(stack') = below
  BY <1>1
<1> HIDE DEF below
<1> QED  BY <1>1, <1>2, <1>3, <1>4, <1>5, <1>6, ExchangeKeeps

\* The steps of the pass leave the lists, the stack and the garbage alone.
LEMMA PassKeeps ==
  ASSUME LoopInv, UNCHANGED <<alive, lists, stack, garbage>>, at' \in Point, start' \in Nat,
         CalledNow'
  PROVE  LoopTyped' /\ StackSound' /\ ListedAlive' /\ TopShown'
BY DEF LoopInv, LoopTyped, StackSound, ListedAlive, TopShown, Top, lists

LEMMA RestPoint ==
  /\ Rest \in Point /\ Rest.phase = "rest" /\ Rest.now = Hole
  /\ [Rest EXCEPT !.phase = "exit"] \in Point
  /\ [Rest EXCEPT !.phase = "poll"] \in Point
BY DEF Rest, Point, Phases, Places

LEMMA HoleAside == Hole \notin Screens /\ Hole \notin Components
BY ComponentAssumption DEF Components

LEMMA BeginKeeps ==
  ASSUME LoopInv, BeginPass
  PROVE  LoopInv'
<1>1. /\ at' = [Rest EXCEPT !.phase = "poll"] /\ start' = Len(idles) /\ stayed' = Listed(idles)
      /\ UNCHANGED <<alive, lists, stack, garbage>>
  BY DEF BeginPass
<1>2. /\ at' \in Point /\ start' \in Nat /\ CalledNow' /\ at'.phase = "poll"
  BY <1>1, RestPoint, HoleAside DEF Rest, CalledNow, LoopInv, LoopTyped, Slotted
<1>3. ASSUME NEW c \in stayed' PROVE Sits(c)'
  <2>1. PICK i \in 1 .. Len(idles) : idles[i] = c
    BY <1>1, <1>3 DEF Listed, LoopInv, LoopTyped, Slotted
  <2> QED  BY <1>1, <1>2, <2>1 DEF Sits, lists
<1>4. Sweep' /\ EveryoneCalled'
  <2>1. start' <= Len(idles')
    BY <1>1 DEF lists, LoopInv, LoopTyped, Slotted
  <2>2. stayed' \subseteq Components
    BY <1>1 DEF Listed
  <2> QED  BY <1>2, <1>3, <2>1, <2>2 DEF Sweep, EveryoneCalled
<1> QED  BY <1>1, <1>2, <1>4, PassKeeps DEF LoopInv

\* The sweep is elsewhere, and those that stay keep their slots.
LEMMA MovedOn ==
  ASSUME LoopInv, at.phase \in {"poll", "event", "time"},
         at' \in Point, UNCHANGED <<alive, lists, stack, garbage, start, stayed>>, CalledNow',
         at'.phase \in {"poll", "event", "time"}, at'.phase # "poll" => at'.slot >= 1,
         \A c \in stayed, i \in 1 .. start :
           /\ idles[i] = c
           /\ at.phase = "time" /\ (i < at.slot \/ (i = at.slot /\ at.now # Hole)) => c \in called
           /\ at'.phase = "time" /\ (i < at'.slot \/ (i = at'.slot /\ at'.now # Hole))
           => c \in called'
  PROVE  LoopInv'
<1>1. ASSUME NEW c \in stayed' PROVE Sits(c)'
  <2>1. c \in stayed /\ Sits(c)
    BY <1>1 DEF LoopInv, Sweep
  <2>2. PICK i \in 1 .. start :
          /\ idles[i] = c
          /\ at.phase = "time" /\ (i < at.slot \/ (i = at.slot /\ at.now # Hole)) => c \in called
    BY <2>1 DEF Sits
  <2>3. i \in 1 .. start' /\ idles'[i] = c
    BY <2>2 DEF lists
  <2>4. at'.phase = "time" /\ (i < at'.slot \/ (i = at'.slot /\ at'.now # Hole))
          => c \in called'
    BY <2>1, <2>2
  <2> QED  BY <2>3, <2>4 DEF Sits
<1>2. Sweep' /\ EveryoneCalled'
  BY <1>1 DEF LoopInv, Sweep, EveryoneCalled, lists
<1>3. start' \in Nat
  BY DEF LoopInv, LoopTyped
<1> QED  BY <1>2, <1>3, PassKeeps DEF LoopInv

LEMMA PollKeeps ==
  ASSUME LoopInv, Poll
  PROVE  LoopInv'
<1>1. /\ at.phase = "poll" /\ UNCHANGED <<alive, lists, stack, garbage, start, called, stayed>>
      /\ at \in Point /\ at.now = Hole
  BY DEF Poll, LoopInv, LoopTyped, CalledNow
<1>2. /\ at' \in Point /\ at'.slot = 1 /\ at'.now = Hole /\ at'.phase \in {"event", "time"}
  <2>1. CASE at' = [at EXCEPT !.phase = "time", !.slot = 1]
    <3>1. "time" \in Phases /\ 1 \in Int
      BY DEF Phases
    <3> QED  BY <1>1, <2>1, <3>1 DEF Point
  <2>2. CASE at' = [at EXCEPT !.phase = "event", !.slot = 1, !.events = @ + 1]
    <3>1. at.events + 1 \in Int
      BY <1>1 DEF Point
    <3>2. ASSUME NEW e \in Int, at' = [at EXCEPT !.phase = "event", !.slot = 1, !.events = e]
          PROVE  at' \in Point /\ at'.slot = 1 /\ at'.now = Hole /\ at'.phase = "event"
      <4>1. "event" \in Phases /\ 1 \in Int
        BY DEF Phases
      <4> QED  BY <1>1, <3>2, <4>1 DEF Point
    <3> QED  BY <2>2, <3>1, <3>2
  <2> QED  BY <2>1, <2>2 DEF Poll
<1>3. CalledNow'
  BY <1>2, HoleAside DEF CalledNow
<1>4. \A i \in 1 .. start : ~(i < at'.slot)
  BY <1>2 DEF LoopInv, LoopTyped
<1> QED  BY <1>1, <1>2, <1>3, <1>4, MovedOn

LEMMA VisitKeeps ==
  ASSUME LoopInv, Visit
  PROVE  LoopInv'
<1>1. /\ at.phase \in {"event", "time"} /\ at.now = Hole /\ at.slot <= start
      /\ UNCHANGED <<alive, lists, stack, garbage, start, stayed>>
      /\ at \in Point /\ at.slot \in Int /\ at.slot >= 1 /\ start <= Len(idles)
  BY DEF Visit, Sweeping, Bound, LoopInv, LoopTyped, Sweep, Point
<1>2. at.slot \in DOMAIN idles /\ idles[at.slot] \in Places
  BY <1>1 DEF LoopInv, LoopTyped, Slotted
<1>3. stayed \subseteq Components
  BY <1>1 DEF LoopInv, Sweep
<1>4. CASE idles[at.slot] = Hole
  <2>1. /\ at' \in Point /\ at'.slot = at.slot + 1 /\ at'.now = Hole
        /\ at'.phase = at.phase /\ called' = called
    BY <1>1, <1>4 DEF Visit, Point
  <2>2. CalledNow'
    BY <2>1, HoleAside DEF CalledNow
  <2>3. \A c \in stayed, i \in 1 .. start :
          idles[i] = c /\ i < at.slot + 1 => i < at.slot
    BY <1>1, <1>3, <1>4, HoleAside DEF LoopInv, LoopTyped
  <2> QED  BY <1>1, <2>1, <2>2, <2>3, MovedOn
<1>5. CASE idles[at.slot] # Hole
  <2> DEFINE x == idles[at.slot]
  <2>1. /\ at' \in Point /\ at'.slot = at.slot /\ at'.now = x /\ at'.phase = at.phase
        /\ called' = IF at.phase = "time" THEN called \cup {x} ELSE called
    BY <1>1, <1>2, <1>5 DEF Visit, Point
  <2>2. x \in alive
    BY <1>2, <1>5 DEF LoopInv, ListedAlive, Listed, Places
  <2>3. CalledNow'
    BY <1>1, <2>1, <2>2 DEF CalledNow
  <2>4. ASSUME NEW c \in stayed, NEW i \in 1 .. start, idles[i] = c,
               at.phase = "time" /\ (i < at.slot \/ (i = at.slot /\ at.now # Hole)) => c \in called,
               at'.phase = "time", i < at'.slot \/ (i = at'.slot /\ at'.now # Hole)
        PROVE  c \in called'
    BY <2>1, <2>4
  <2> QED  BY <1>1, <2>1, <2>3, <2>4, MovedOn
<1> QED  BY <1>4, <1>5

LEMMA ReturnKeeps ==
  ASSUME LoopInv, Return
  PROVE  LoopInv'
<1>1. /\ at.now # Hole /\ at.phase \in {"event", "time"}
      /\ UNCHANGED <<alive, lists, stack, garbage, start, called, stayed>>
      /\ at \in Point /\ at.slot \in Int /\ at.slot >= 1
  BY DEF Return, LoopInv, LoopTyped, CalledNow, Sweep, Point
<1>2. /\ at' \in Point /\ at'.slot = at.slot + 1 /\ at'.now = Hole /\ at'.phase = at.phase
  <2>1. ASSUME NEW n \in Int, at' = [at EXCEPT !.now = Hole, !.ops = 0, !.slot = n]
        PROVE  at' \in Point /\ at'.slot = n /\ at'.now = Hole /\ at'.phase = at.phase
    <3>1. Hole \in Places /\ 0 \in Int
      BY DEF Places
    <3> QED  BY <1>1, <2>1, <3>1 DEF Point
  <2>2. at' = [at EXCEPT !.now = Hole, !.ops = 0, !.slot = at.slot + 1] /\ at.slot + 1 \in Int
    BY <1>1 DEF Return
  <2> QED  BY <2>1, <2>2
<1>3. CalledNow'
  BY <1>2, HoleAside DEF CalledNow
<1>4. \A i \in 1 .. start : i < at.slot + 1 => i < at.slot \/ i = at.slot
  BY <1>1 DEF LoopInv, LoopTyped
<1> QED  BY <1>1, <1>2, <1>3, <1>4, MovedOn

LEMMA SweepDoneKeeps ==
  ASSUME LoopInv, SweepDone
  PROVE  LoopInv'
<1>1. /\ at.phase \in {"event", "time"} /\ at.now = Hole /\ at.slot > start
      /\ UNCHANGED <<alive, lists, stack, garbage, start, called, stayed>>
      /\ at \in Point /\ at.slot \in Int /\ start \in Nat
      /\ at' = [at EXCEPT !.phase = IF at.phase = "event" THEN "poll" ELSE "clean", !.slot = 0]
  BY DEF SweepDone, Sweeping, Bound, LoopInv, LoopTyped, Point
<1>2. CASE at.phase = "event"
  <2>1. at' \in Point /\ at'.now = Hole /\ at'.phase = "poll"
    <3>1. at' = [at EXCEPT !.phase = "poll", !.slot = 0]
      BY <1>1, <1>2
    <3>2. "poll" \in Phases /\ 0 \in Int
      BY DEF Phases
    <3> QED  BY <1>1, <3>1, <3>2 DEF Point
  <2>2. CalledNow'
    BY <2>1, HoleAside DEF CalledNow
  <2> QED  BY <1>1, <2>1, <2>2, MovedOn
<1>3. CASE at.phase = "time"
  <2>1. at' \in Point /\ at'.now = Hole /\ at'.phase = "clean"
    <3>1. at' = [at EXCEPT !.phase = "clean", !.slot = 0]
      BY <1>1, <1>3
    <3>2. "clean" \in Phases /\ 0 \in Int
      BY DEF Phases
    <3> QED  BY <1>1, <3>1, <3>2 DEF Point
  <2>2. CalledNow' /\ Sweep'
    BY <2>1, HoleAside DEF CalledNow, Sweep
  <2>3. \A c \in stayed : c \in called
    BY <1>1, <1>3 DEF LoopInv, Sweep, Sits
  <2>4. EveryoneCalled'
    BY <1>1, <2>3 DEF EveryoneCalled
  <2> QED  BY <1>1, <2>1, <2>2, <2>4, PassKeeps DEF LoopInv
<1> QED  BY <1>1, <1>2, <1>3

LEMMA CleanKeeps ==
  ASSUME LoopInv, Clean
  PROVE  LoopInv'
<1> DEFINE gone == UNION {Dying(s) : s \in ToSet(garbage)}
<1>1. /\ at' = Rest /\ idles' = Removed(Compacted(idles), gone)
      /\ drawables' = Removed(Compacted(drawables), gone)
      /\ alive' = alive \ ToSet(garbage) /\ garbage' = <<>>
      /\ UNCHANGED <<stack, start, called, stayed>>
  BY DEF Clean
<1>2. gone = ToSet(garbage)
  BY DEF Dying
<1> HIDE DEF gone
<1>3. /\ Slotted(idles') /\ Listed(idles') = Listed(idles) \ gone
      /\ Slotted(drawables') /\ Listed(drawables') = Listed(drawables) \ gone
  BY <1>1, RemovedList, CompactedList DEF LoopInv, LoopTyped
<1>4. LoopTyped'
  BY <1>1, <1>3, RestPoint DEF LoopInv, LoopTyped
<1>5. Top \notin gone
  <2>1. Top \in ToSet(stack)
    BY DEF Top, Last, ToSet, LoopInv, LoopTyped
  <2> QED  BY <1>2, <2>1 DEF LoopInv, StackSound
<1>6. StackSound' /\ ListedAlive'
  <2>1. ToSet(garbage') = {}
    BY <1>1 DEF ToSet
  <2> QED  BY <1>1, <1>2, <1>3, <2>1 DEF LoopInv, StackSound, ListedAlive
<1>7. TopShown'
  BY <1>1, <1>3, <1>5 DEF LoopInv, TopShown, Top
<1>8. CalledNow' /\ Sweep' /\ EveryoneCalled'
  BY <1>1, RestPoint, HoleAside DEF CalledNow, Sweep, EveryoneCalled
<1> QED  BY <1>4, <1>6, <1>7, <1>8 DEF LoopInv

LEMMA LoopInitial == LoopInit => LoopInv
<1> SUFFICES ASSUME LoopInit PROVE LoopInv
  OBVIOUS
<1>1. /\ alive = {Main} /\ idles = <<Main>> /\ drawables = <<Main>> /\ stack = <<Main>>
      /\ garbage = <<>> /\ at = Rest /\ start = 0 /\ stayed = {}
  BY DEF LoopInit
<1>2. Main \in Screens /\ Main \in Components /\ Main \in Places
  BY ComponentAssumption DEF Components, Places
<1>3. Slotted(<<Main>>) /\ Listed(<<Main>>) = {Main}
  BY <1>2 DEF Slotted, Once, Listed
<1>4. ToSet(stack) = {Main} /\ ToSet(garbage) = {} /\ Top = Main
  BY <1>1 DEF ToSet, Top, Last
<1>5. LoopTyped
  BY <1>1, <1>2, <1>3, RestPoint DEF LoopTyped
<1>6. StackSound /\ ListedAlive /\ TopShown
  BY <1>1, <1>2, <1>3, <1>4 DEF StackSound, ListedAlive, TopShown
<1>7. CalledNow /\ Sweep /\ EveryoneCalled
  BY <1>1, RestPoint, HoleAside DEF CalledNow, Sweep, EveryoneCalled
<1> QED  BY <1>5, <1>6, <1>7 DEF LoopInv

LEMMA LoopStep == LoopInv /\ [LoopNext]_gvars => LoopInv'
<1> SUFFICES ASSUME LoopInv, [LoopNext]_gvars PROVE LoopInv'
  OBVIOUS
<1>1. ASSUME NEW c \in Components, Withdraw(c) PROVE LoopInv'
  BY <1>1, RemovalKeeps DEF Withdraw
<1>2. ASSUME NEW c \in Components, Delete(c) PROVE LoopInv'
  BY <1>2, RemovalKeeps DEF Delete, Dying
<1>3. CASE Callback
  BY <1>1, <1>2, <1>3, AddKeeps, PushKeeps, PopKeeps DEF Callback
<1>4. CASE Quit
  <2>1. /\ at' \in Point /\ at'.phase = "exit" /\ at'.now = Hole
        /\ UNCHANGED <<alive, lists, stack, garbage, start>>
    BY <1>4, RestPoint DEF Quit, Rest
  <2>2. CalledNow' /\ Sweep' /\ EveryoneCalled'
    BY <2>1, HoleAside DEF CalledNow, Sweep, EveryoneCalled
  <2> QED  BY <2>1, <2>2, PassKeeps DEF LoopInv, LoopTyped
<1>5. CASE UNCHANGED gvars
  BY <1>5 DEF gvars, lists, LoopInv, LoopTyped, StackSound, ListedAlive, TopShown, Top,
              CalledNow, Sweep, Sits, EveryoneCalled
<1> QED  BY <1>3, <1>4, <1>5, BeginKeeps, PollKeeps, VisitKeeps, ReturnKeeps, SweepDoneKeeps,
            CleanKeeps DEF LoopNext, Loop

LEMMA LoopInvariant == LoopSpec => []LoopInv
BY LoopInitial, LoopStep, PTL DEF LoopSpec

\* The loop only calls and draws objects that exist, for any components,
\* screens, callbacks and length of the lists.
THEOREM OnlyAliveCalled == LoopSpec => []AllAlive
<1>1. LoopInv => AllAlive
  <2> SUFFICES ASSUME LoopInv PROVE AllAlive
    OBVIOUS
  <2>1. ASSUME NEW list \in {idles, drawables}, NEW i \in DOMAIN list, NEW j \in DOMAIN list,
               list[i] # Hole
        PROVE  list[i] \in alive /\ (list[i] = list[j] => i = j)
    <3>1. Slotted(list) /\ Listed(list) \subseteq alive
      BY DEF LoopInv, LoopTyped, ListedAlive
    <3>2. list[i] \in Components
      BY <2>1, <3>1 DEF Slotted, Places
    <3> QED  BY <2>1, <3>1, <3>2 DEF Slotted, Once, Listed
  <2> QED  BY <2>1 DEF AllAlive, LoopInv, CalledNow, StackSound
<1> QED  BY <1>1, LoopInvariant, PTL

\* The screen on top of the stack, and no other, gets events and is drawn.
THEOREM TopAlwaysShown == LoopSpec => []TopShown
<1>1. LoopInv => TopShown
  BY DEF LoopInv
<1> QED  BY <1>1, LoopInvariant, PTL

\* Who stays listed during a pass is called in it, whatever the callbacks do.
THEOREM NobodyPassedOver == LoopSpec => []EveryoneCalled
<1>1. LoopInv => EveryoneCalled
  BY DEF LoopInv
<1> QED  BY <1>1, LoopInvariant, PTL
=============================================================================
