-------------------------------- MODULE GameLoop --------------------------------
(***************************************************************************)
(* The game loop (gametools/gameloop.cpp) and the stack of screens that    *)
(* lives in it (ScreenStack of gametools/gameui.cpp).  A pass of idle()    *)
(* gives each event, then the time, to every idle component; from within   *)
(* those callbacks components are added, removed and deleted, and screens  *)
(* are pushed and popped.  A slot whose component is gone is emptied at    *)
(* once and taken away at the end of the pass; a popped screen is deleted  *)
(* there.                                                                  *)
(***************************************************************************)
EXTENDS Integers, Sequences, FiniteSets, SequencesExt

CONSTANTS
  Screens,      \* components that are both idle and drawable, kept in a stack
  Idles,        \* components that are only idle
  AutoRelease,  \* the screens to delete once they are popped
  Main,         \* the screen pushed first
  Hole,         \* an emptied slot (NULL)
  MaxOps,       \* bound: changes made by one callback
  MaxEvents     \* bound: events waiting when a pass begins

Components == Screens \cup Idles

ASSUME ComponentAssumption ==
  /\ Main \in Screens /\ AutoRelease \subseteq Screens \ {Main}
  /\ Screens \cap Idles = {} /\ Hole \notin Components
ASSUME BoundAssumption == MaxOps \in Nat /\ MaxEvents \in Nat

VARIABLES
  alive,      \* the objects that exist
  idles, drawables,     \* the lists of the loop, with their holes
  stack,      \* ScreenStack, its top last
  garbage,    \* garbageCollector
  at,         \* where idle() is: phase, slot, component running, bounds used
  start,      \* idles_size_at_start
  called, stayed    \* history of the pass: called with the time, listed since its start

lists == <<idles, drawables>>
gvars == <<alive, lists, stack, garbage, at, start, called, stayed>>

-----------------------------------------------------------------------------
(* The lists.                                                              *)

Listed(list) == {c \in Components : \E i \in DOMAIN list : list[i] = c}

\* addIdle, addDrawable.
Added(list, c) == IF c \in Listed(list) THEN list ELSE Append(list, c)

\* Bug: the slot is taken away during the pass.
RemovedAtOnce(list, gone) == SelectSeq(list, LAMBDA c : c \notin gone)

\* Bug: those behind an emptied slot move up.
RemovedShifted(list, gone) ==
  LET kept == RemovedAtOnce(list, gone)
  IN  kept \o [i \in 1 .. Len(list) - Len(kept) |-> Hole]

\* removeIdle, removeDrawable: the slot is emptied, those behind it stay put.
Removed(list, gone) == [i \in DOMAIN list |-> IF list[i] \in gone THEN Hole ELSE list[i]]

\* A hole takes what the last slot has: of the n components that are left, those
\* beyond the n-th slot go to the holes before it, the last one to the first hole.
Compacted(list) ==
  LET full       == {i \in DOMAIN list : list[i] # Hole}
      n          == Cardinality(full)
      holes      == (1 .. n) \ full
      late       == full \ (1 .. n)
      Rank(S, i) == Cardinality({j \in S : j <= i})
      Mover(k)   == CHOOSE i \in late : Rank(late, i) = Cardinality(late) + 1 - Rank(holes, k)
  IN  [k \in 1 .. n |-> list[IF k \in full THEN k ELSE Mover(k)]]

\* What the destructor of a component takes off the lists.
Dying(c) == {c}

-----------------------------------------------------------------------------
(* What a callback may do.                                                 *)

Busy == at.now # Hole /\ at.ops < MaxOps
Used == at' = [at EXCEPT !.ops = @ + 1]

\* A component that does not exist yet is created when it is added.
Add(c) ==
  /\ Busy /\ Used /\ c \in Idles
  /\ alive' = alive \cup {c}
  /\ idles' = Added(idles, c)
  /\ UNCHANGED <<drawables, stack, garbage, start, called, stayed>>

Withdraw(c) ==
  /\ Busy /\ Used /\ c \in Idles \cap alive
  /\ idles' = Removed(idles, {c}) /\ stayed' = stayed \ {c}
  /\ UNCHANGED <<alive, drawables, stack, garbage, start, called>>

\* Deleting a component, itself perhaps, takes it off the loop.
Delete(c) ==
  /\ Busy /\ Used /\ c \in Idles \cap alive
  /\ alive' = alive \ {c}
  /\ idles' = Removed(idles, Dying(c)) /\ stayed' = stayed \ {c}
  /\ UNCHANGED <<drawables, stack, garbage, start, called>>

Top == Last(stack)

\* ScreenStack::push: the screen on top leaves the loop for the new one.  A
\* screen is not pushed while it is in the stack or waits to be deleted.
Push(s) ==
  /\ Busy /\ Used /\ s \in Screens
  /\ s \notin ToSet(stack) \cup ToSet(garbage)
  /\ alive' = alive \cup {s}
  /\ idles' = Added(Removed(idles, {Top}), s)
  /\ drawables' = Added(Removed(drawables, {Top}), s)
  /\ stack' = Append(stack, s)
  /\ stayed' = stayed \ {Top}
  /\ UNCHANGED <<garbage, start, called>>

\* Bug: the screen below is not put back in the loop.
PopAlone ==
  /\ Busy /\ Used /\ Len(stack) > 1
  /\ idles' = Removed(idles, {Top}) /\ drawables' = Removed(drawables, {Top})
  /\ stack' = Front(stack)
  /\ stayed' = stayed \ {Top}
  /\ garbage' = IF Top \in AutoRelease THEN Append(garbage, Top) ELSE garbage
  /\ UNCHANGED <<alive, start, called>>

\* Bug: the screen is deleted at once.
PopDeleting ==
  /\ Busy /\ Used /\ Len(stack) > 1
  /\ LET below == Last(Front(stack))
     IN  /\ idles' = Added(Removed(idles, {Top}), below)
         /\ drawables' = Added(Removed(drawables, {Top}), below)
  /\ stack' = Front(stack)
  /\ stayed' = stayed \ {Top}
  /\ alive' = IF Top \in AutoRelease THEN alive \ {Top} ELSE alive
  /\ UNCHANGED <<garbage, start, called>>

\* ScreenStack::pop: the screen below comes back; the one popped is handed to
\* the garbage collector if it asked for it.
Pop ==
  /\ Busy /\ Used /\ Len(stack) > 1
  /\ LET below == Last(Front(stack))
     IN  /\ idles' = Added(Removed(idles, {Top}), below)
         /\ drawables' = Added(Removed(drawables, {Top}), below)
  /\ stack' = Front(stack)
  /\ stayed' = stayed \ {Top}
  /\ garbage' = IF Top \in AutoRelease THEN Append(garbage, Top) ELSE garbage
  /\ UNCHANGED <<alive, start, called>>

Callback == (\E c \in Components : Add(c) \/ Withdraw(c) \/ Delete(c) \/ Push(c)) \/ Pop

-----------------------------------------------------------------------------
(* A pass of idle().                                                       *)

Rest == [phase |-> "rest", slot |-> 0, now |-> Hole, ops |-> 0, events |-> 0]

\* The size of the list is read once, before any callback.
BeginPass ==
  /\ at = Rest
  /\ at' = [Rest EXCEPT !.phase = "poll"]
  /\ start' = Len(idles) /\ called' = {} /\ stayed' = Listed(idles)
  /\ UNCHANGED <<alive, lists, stack, garbage>>

\* One more event, or none.
Poll ==
  /\ at.phase = "poll"
  /\ \/ at.events < MaxEvents
        /\ at' = [at EXCEPT !.phase = "event", !.slot = 1, !.events = @ + 1]
     \/ at' = [at EXCEPT !.phase = "time", !.slot = 1]
  /\ UNCHANGED <<alive, lists, stack, garbage, start, called, stayed>>

Sweeping == at.phase \in {"event", "time"} /\ at.now = Hole

\* How far a sweep goes.
Bound == start

\* The next slot: its component is called, or it is passed when it is empty.
Visit ==
  /\ Sweeping /\ at.slot <= Bound
  /\ IF idles[at.slot] = Hole
       THEN at' = [at EXCEPT !.slot = @ + 1] /\ UNCHANGED called
       ELSE /\ at' = [at EXCEPT !.now = idles[at.slot]]
            /\ called' = IF at.phase = "time" THEN called \cup {idles[at.slot]} ELSE called
  /\ UNCHANGED <<alive, lists, stack, garbage, start, stayed>>

Return ==
  /\ at.now # Hole
  /\ at' = [at EXCEPT !.now = Hole, !.ops = 0, !.slot = @ + 1]
  /\ UNCHANGED <<alive, lists, stack, garbage, start, called, stayed>>

SweepDone ==
  /\ Sweeping /\ at.slot > Bound
  /\ at' = [at EXCEPT !.phase = IF at.phase = "event" THEN "poll" ELSE "clean",
                      !.slot = 0]
  /\ UNCHANGED <<alive, lists, stack, garbage, start, called, stayed>>

\* The event was kQuit: the process exits.
Quit ==
  /\ Sweeping /\ at.phase = "event" /\ at.slot > Bound
  /\ at' = [Rest EXCEPT !.phase = "exit"]
  /\ UNCHANGED <<alive, lists, stack, garbage, start, called, stayed>>

\* The holes are taken away, then the garbage is deleted, and its destructors
\* may leave holes until the next pass.
Clean ==
  /\ at.phase = "clean"
  /\ at' = Rest
  /\ idles' = Removed(Compacted(idles), UNION {Dying(s) : s \in ToSet(garbage)})
  /\ drawables' = Removed(Compacted(drawables), UNION {Dying(s) : s \in ToSet(garbage)})
  /\ alive' = alive \ ToSet(garbage) /\ garbage' = <<>>
  /\ UNCHANGED <<stack, start, called, stayed>>

Loop == BeginPass \/ Poll \/ Visit \/ Return \/ SweepDone \/ Quit \/ Clean

LoopInit ==
  /\ alive = {Main} /\ idles = <<Main>> /\ drawables = <<Main>> /\ stack = <<Main>>
  /\ garbage = <<>> /\ at = Rest /\ start = 0 /\ called = {} /\ stayed = {}

LoopNext == Callback \/ Loop

LoopSpec == LoopInit /\ [][LoopNext]_gvars

\* Callbacks return and the loop goes on.
LoopFair == LoopSpec /\ WF_gvars(Loop)

-----------------------------------------------------------------------------
(* Properties.                                                             *)

\* The loop only ever calls and draws objects that exist: whatever is in a slot
\* is alive and in one slot only, and a screen is not deleted while it is in
\* the stack or one of its callbacks runs, even when it pops itself.
AllAlive ==
  /\ \A list \in {idles, drawables} :
       \A i, j \in DOMAIN list :
         list[i] # Hole => list[i] \in alive /\ (list[i] = list[j] => i = j)
  /\ at.now \in Screens => at.now \in alive
  /\ ToSet(stack) \subseteq alive

\* Exactly the screen on top of the stack gets events and is drawn.
TopShown ==
  /\ Listed(idles) \cap Screens = {Top}
  /\ Listed(drawables) = {Top}

\* A component that stays listed during the whole pass is called, whatever the
\* callbacks before it take off the list.
EveryoneCalled == at.phase = "clean" => stayed \subseteq called

=============================================================================
