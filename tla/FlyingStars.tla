------------------------------ MODULE FlyingStars ------------------------------
(***************************************************************************)
(* The particle pool of Goom/flying_stars_fx.c: an array that a frame      *)
(* fills by a burst and a trickle, ages, and prunes in place by moving the *)
(* last particle over a dead one.  The pruning loop is one step per turn.  *)
(*                                                                         *)
(* Positions, speeds and colours are left out; that a particle has left    *)
(* the screen is a choice.  The pattern of a mode shows by how many        *)
(* particles it spawns and how fast they age.  A particle carries a name,  *)
(* so that it can be followed through the array; the code has none.        *)
(***************************************************************************)
EXTENDS Integers, FiniteSets

CONSTANTS
  Alloc,        \* particles allocated (4096)
  Limits,       \* values of "Max Number of Particules"
  Modes,        \* values of "FX Mode", also those a draw gives
  Bursts,       \* what a mode may spawn on a goom
  Trickle,      \* what a mode spawns at every frame
  Rates,        \* what its particles age by in a frame
  Ncol,         \* age of death (15)
  Names,        \* names of the particles
  Junk          \* what a slot holds that is not in use, never to be read

ASSUME StarAssumption ==
  /\ Alloc \in Nat /\ Limits \subseteq 0 .. Alloc /\ Ncol \in Nat
  /\ Bursts \in [Modes -> SUBSET Nat] /\ Trickle \in [Modes -> Nat]
  /\ Rates \in [Modes -> Nat \ {0}]
  /\ Junk \notin [name : Names, age : Nat, rate : Nat, out : BOOLEAN]

VARIABLES
  stars,        \* the array: [name, age, rate, out]
  nbStars,      \* particles of it in use
  starLimit, fxMode,   \* the parameters nbStars_limit_p and fx_mode_p
  maxStars, starMode,  \* maxStars and fx_mode, read from them once a frame
  loop, turn,   \* "frame" between two calls, "prune" in the loop at index turn
  alive         \* history: the particles alive before the pruning

pool == <<stars, nbStars, starLimit, fxMode, maxStars, starMode, loop, turn, alive>>

-----------------------------------------------------------------------------
Slots == 0 .. Alloc - 1
Star == [name : Names, age : Nat, rate : Nat, out : BOOLEAN]

Live(s)  == s.age < Ncol /\ ~s.out
Used     == {stars[k].name : k \in 0 .. nbStars - 1}

\* Bug: one more than the limit.
AddedPastLimit(wanted, cap) ==
  IF nbStars > cap THEN 0 ELSE IF wanted > cap - nbStars + 1 THEN cap - nbStars + 1 ELSE wanted

\* addABomb, called wanted times: refused from the limit on, which may have
\* been lowered below what the pool holds.
Added(wanted, cap) ==
  IF nbStars >= cap THEN 0 ELSE IF wanted > cap - nbStars THEN cap - nbStars ELSE wanted

Born(name, m) == [name |-> name, age |-> 0, rate |-> Rates[m], out |-> FALSE]

\* updateStar; a dead particle stays in the array until it is pruned.
Aged(s, left) ==
  [name |-> s.name, age |-> s.age + s.rate, rate |-> s.rate, out |-> left]

\* Every particle of the pool moves, those beyond a lowered limit too.
Updated(array, count, left) ==
  [k \in Slots |-> IF k < count THEN Aged(array[k], k \in left) ELSE array[k]]

\* The last particle moves over slot k.
Filled(k) ==
  [j \in Slots |-> IF j = nbStars - 1 THEN Junk
                   ELSE IF j = k THEN stars[nbStars - 1] ELSE stars[j]]

\* Bug: the particle moved over a dead one is not looked at.
PrunedSkipping(k) ==
  IF Live(stars[k]) THEN [stars |-> stars, nbStars |-> nbStars, turn |-> k + 1]
  ELSE [stars |-> Filled(k), nbStars |-> nbStars - 1, turn |-> k + 1]

\* One turn of the loop: a dead particle is replaced by the last one, which
\* the next turn looks at.
Pruned(k) ==
  IF Live(stars[k]) THEN [stars |-> stars, nbStars |-> nbStars, turn |-> k + 1]
  ELSE [stars |-> Filled(k), nbStars |-> nbStars - 1, turn |-> k]

-----------------------------------------------------------------------------
\* The array is allocated and not initialised.
StarsInit ==
  /\ stars = [k \in Slots |-> Junk] /\ nbStars = 0
  /\ starLimit \in Limits /\ fxMode \in Modes
  /\ maxStars = Alloc /\ starMode = fxMode
  /\ loop = "frame" /\ turn = 0 /\ alive = {}

\* A parameter is written between two frames.
SetLimit == /\ loop = "frame" /\ starLimit' \in Limits
            /\ UNCHANGED <<stars, nbStars, fxMode, maxStars, starMode, loop, turn, alive>>
SetMode  == /\ loop = "frame" /\ fxMode' \in Modes
            /\ UNCHANGED <<stars, nbStars, starLimit, maxStars, starMode, loop, turn, alive>>

\* fs_apply up to the pruning.  A goom bursts with the mode read at the
\* beginning of the frame; the mode it may draw is for the next one.
Apply(goom) ==
  /\ loop = "frame"
  /\ maxStars' = starLimit /\ starMode' = fxMode
  /\ fxMode' \in IF goom THEN Modes ELSE {fxMode}
  /\ \E burst \in IF goom THEN Bursts[starMode'] ELSE {0} :
     \E count \in {nbStars + Added(burst + Trickle[starMode'], maxStars')} :
     \E names \in [nbStars .. count - 1 -> Names \ Used], left \in SUBSET (0 .. count - 1) :
       /\ \A j, k \in nbStars .. count - 1 : j # k => names[j] # names[k]
       /\ stars' = Updated([k \in Slots |-> IF k \in nbStars .. count - 1
                                              THEN Born(names[k], starMode') ELSE stars[k]],
                           count, left)
       /\ nbStars' = count
  /\ alive' = {stars'[k].name : k \in {j \in 0 .. nbStars' - 1 : Live(stars'[j])}}
  /\ loop' = "prune" /\ turn' = 0
  /\ UNCHANGED starLimit

PruneTurn ==
  /\ loop = "prune" /\ turn < nbStars
  /\ stars' = Pruned(turn).stars /\ nbStars' = Pruned(turn).nbStars /\ turn' = Pruned(turn).turn
  /\ UNCHANGED <<starLimit, fxMode, maxStars, starMode, loop, alive>>

PruneEnd ==
  /\ loop = "prune" /\ turn >= nbStars
  /\ loop' = "frame" /\ turn' = 0
  /\ UNCHANGED <<stars, nbStars, starLimit, fxMode, maxStars, starMode, alive>>

StarsNext == SetLimit \/ SetMode \/ PruneTurn \/ PruneEnd \/ \E goom \in BOOLEAN : Apply(goom)

StarsSpec == StarsInit /\ [][StarsNext]_pool

\* Frames follow each other and the loop runs on; parameters are not owed.
Turns     == PruneTurn \/ PruneEnd \/ \E goom \in BOOLEAN : Apply(goom)
StarsFair == StarsSpec /\ WF_pool(Turns)

-----------------------------------------------------------------------------
(* Properties.                                                             *)

StarsTypeOK ==
  /\ nbStars \in 0 .. Alloc
  /\ stars \in [Slots -> Star \cup {Junk}] /\ \A k \in 0 .. nbStars - 1 : stars[k] \in Star
  /\ starLimit \in Limits /\ fxMode \in Modes
  /\ maxStars \in 0 .. Alloc /\ starMode \in Modes
  /\ loop \in {"frame", "prune"} /\ turn \in 0 .. nbStars /\ alive \subseteq Names

\* Pruning in place removes the dead and nobody else: after a frame the array
\* holds the particles that were alive, each of them once.
PruneExact ==
  loop = "frame" =>
    /\ Used = alive
    /\ \A j, k \in 0 .. nbStars - 1 : stars[j].name = stars[k].name => j = k

\* A limit lowered below what the pool holds is reached, although nothing
\* takes the particles beyond it away: they die, and none replaces them.
PoolDrains ==
  \A l \in Limits : <>[](starLimit = l) => <>[](nbStars <= l)
=============================================================================
