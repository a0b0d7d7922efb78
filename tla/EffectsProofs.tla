----------------------------- MODULE EffectsProofs -----------------------------
(***************************************************************************)
(* The pruning of the particle pool, proved for every size of the array    *)
(* and every parameter, with what makes a pool above its limit drain; the  *)
(* shape of the tentacles; the periods without a goom; and of the          *)
(* microphone the window of samples that it gives to the effects and its   *)
(* gain, for every size of its ring and every loudness.                    *)
(***************************************************************************)
EXTENDS FlyingStars, Tentacles, SoundTester, MicSource, SequenceTheorems,
        WellFoundedInduction, TLAPS

\* The names of the particles in use that still live.
Survivors == {stars[k].name : k \in {j \in 0 .. nbStars - 1 : Live(stars[j])}}

Distinct == \A j, k \in 0 .. nbStars - 1 : stars[j].name = stars[k].name => j = k

\* The invariant of the loop: what it has passed lives, what lived is there.
Pruning ==
  IF loop = "frame" THEN Used = alive
  ELSE alive = Survivors /\ \A k \in 0 .. turn - 1 : Live(stars[k])

StarsInv == StarsTypeOK /\ Distinct /\ Pruning

-----------------------------------------------------------------------------
LEMMA StarsInitial == StarsInit => StarsInv
  BY StarAssumption
  DEF StarsInit, StarsInv, StarsTypeOK, Distinct, Pruning, Used, Slots

\* The pool never grows past the array, whatever was asked for and however
\* small the limit has become.
LEMMA AddedFits ==
  ASSUME nbStars \in 0 .. Alloc, NEW wanted \in Nat, NEW cap \in 0 .. Alloc
  PROVE  Added(wanted, cap) \in Nat /\ nbStars + Added(wanted, cap) \in nbStars .. Alloc
  BY StarAssumption DEF Added

\* A particle that is spawned or moved keeps its name.
LEMMA AgedStar ==
  ASSUME NEW s \in Star, NEW out \in BOOLEAN
  PROVE  Aged(s, out) \in Star /\ Aged(s, out).name = s.name
<1>1. s.name \in Names /\ s.age + s.rate \in Nat /\ s.rate \in Nat
  BY DEF Star
<1> QED  BY <1>1, Zenon DEF Aged, Star

LEMMA BornStar ==
  ASSUME NEW name \in Names, NEW m \in Modes
  PROVE  Born(name, m) \in Star /\ Born(name, m).name = name
<1>1. Rates[m] \in Nat
  BY StarAssumption
<1> QED  BY <1>1, Zenon DEF Born, Star

LEMMA ApplyKeeps ==
  ASSUME StarsInv, NEW hit \in BOOLEAN, Apply(hit)
  PROVE  StarsInv'
<1>1. /\ maxStars' \in 0 .. Alloc /\ starMode' \in Modes /\ fxMode' \in Modes
      /\ starLimit' \in Limits
  BY StarAssumption DEF StarsInv, StarsTypeOK, Apply
<1>2. PICK burst \in IF hit THEN Bursts[starMode'] ELSE {0} :
      \E count \in {nbStars + Added(burst + Trickle[starMode'], maxStars')} :
      \E names \in [nbStars .. count - 1 -> Names \ Used], out \in SUBSET (0 .. count - 1) :
        /\ \A j, k \in nbStars .. count - 1 : j # k => names[j] # names[k]
        /\ stars' = Updated([k \in Slots |-> IF k \in nbStars .. count - 1
                                               THEN Born(names[k], starMode') ELSE stars[k]],
                            count, out)
        /\ nbStars' = count
  BY DEF Apply
<1> DEFINE count == nbStars + Added(burst + Trickle[starMode'], maxStars')
<1>3. PICK names \in [nbStars .. count - 1 -> Names \ Used], out \in SUBSET (0 .. count - 1) :
        /\ \A j, k \in nbStars .. count - 1 : j # k => names[j] # names[k]
        /\ stars' = Updated([k \in Slots |-> IF k \in nbStars .. count - 1
                                               THEN Born(names[k], starMode') ELSE stars[k]],
                            count, out)
        /\ nbStars' = count
  BY <1>2
<1>4. burst + Trickle[starMode'] \in Nat
  BY <1>1, StarAssumption
<1>5. count \in nbStars .. Alloc
  BY <1>1, <1>4, AddedFits DEF StarsInv, StarsTypeOK
<1> HIDE DEF count
<1>6. ASSUME NEW k \in Slots
      PROVE  stars'[k] = IF k < count
                           THEN IF k < nbStars THEN Aged(stars[k], k \in out)
                                ELSE Aged(Born(names[k], starMode'), k \in out)
                           ELSE stars[k]
  BY <1>3, <1>5 DEF Updated, Slots, StarsInv, StarsTypeOK
<1>7. ASSUME NEW k \in 0 .. count - 1
      PROVE  stars'[k] \in Star /\
             stars'[k].name = IF k < nbStars THEN stars[k].name ELSE names[k]
  <2>1. k \in Slots
    BY <1>5, StarAssumption DEF Slots, StarsInv, StarsTypeOK
  <2>2. CASE k < nbStars
    <3>1. stars[k] \in Star
      BY <2>2 DEF StarsInv, StarsTypeOK
    <3> DEFINE gone == k \in out
    <3>2. gone \in BOOLEAN
      OBVIOUS
    <3>3. stars'[k] = Aged(stars[k], gone)
      BY <2>1, <2>2, <1>5, <1>6
    <3> HIDE DEF gone
    <3>4. Aged(stars[k], gone) \in Star /\ Aged(stars[k], gone).name = stars[k].name
      BY <3>1, <3>2, AgedStar
    <3> QED  BY <2>2, <3>3, <3>4
  <2>3. CASE k >= nbStars
    <3>1. names[k] \in Names
      BY <2>3, <1>3, <1>5 DEF StarsInv, StarsTypeOK
    <3> DEFINE born == Born(names[k], starMode')
               gone == k \in out
    <3>2. born \in Star /\ born.name = names[k]
      BY <1>1, <3>1, BornStar
    <3>3. gone \in BOOLEAN
      OBVIOUS
    <3>4. stars'[k] = Aged(born, gone)
      BY <2>1, <2>3, <1>5, <1>6 DEF StarsInv, StarsTypeOK
    <3> HIDE DEF born, gone
    <3>5. Aged(born, gone) \in Star /\ Aged(born, gone).name = names[k]
      BY <3>2, <3>3, AgedStar
    <3> QED  BY <2>3, <3>4, <3>5 DEF StarsInv, StarsTypeOK
  <2> QED  BY <2>2, <2>3, <1>5 DEF StarsInv, StarsTypeOK
<1>8. StarsTypeOK'
  <2>1. stars' \in [Slots -> Star \cup {Junk}]
    <3>1. \A k \in Slots : stars'[k] \in Star \cup {Junk}
      BY <1>5, <1>6, <1>7 DEF Slots, StarsInv, StarsTypeOK
    <3> QED  BY <3>1, <1>3 DEF Updated
  <2>2. alive' \subseteq Names
    <3>1. alive' = {stars'[k].name : k \in {j \in 0 .. nbStars' - 1 : Live(stars'[j])}}
      BY DEF Apply
    <3>2. \A k \in 0 .. nbStars' - 1 : stars'[k].name \in Names
      BY <1>3, <1>7 DEF Star
    <3> QED  BY <3>1, <3>2
  <2>3. nbStars' \in 0 .. Alloc /\ \A k \in 0 .. nbStars' - 1 : stars'[k] \in Star
    BY <1>3, <1>5, <1>7 DEF StarsInv, StarsTypeOK
  <2>4. loop' \in {"frame", "prune"}
    BY DEF Apply
  <2>5. turn' \in 0 .. nbStars'
    BY <2>3, StarAssumption DEF Apply
  <2> QED  BY <1>1, <2>1, <2>2, <2>3, <2>4, <2>5, Zenon DEF StarsTypeOK
<1>9. Distinct'
  <2> SUFFICES ASSUME NEW j \in 0 .. count - 1, NEW k \in 0 .. count - 1,
                      stars'[j].name = stars'[k].name
               PROVE  j = k
    BY <1>3 DEF Distinct
  <2>1. CASE j < nbStars /\ k < nbStars
    BY <2>1, <1>7 DEF StarsInv, StarsTypeOK, Distinct
  <2>2. CASE j >= nbStars /\ k >= nbStars
    BY <2>2, <1>3, <1>7 DEF StarsInv, StarsTypeOK
  <2>3. CASE (j < nbStars /\ k >= nbStars) \/ (j >= nbStars /\ k < nbStars)
    BY <2>3, <1>3, <1>7 DEF StarsInv, StarsTypeOK, Used
  <2> QED  BY <2>1, <2>2, <2>3, <1>5 DEF StarsInv, StarsTypeOK
<1>10. Pruning'
  BY DEF Apply, Pruning, Survivors
<1> QED  BY <1>8, <1>9, <1>10 DEF StarsInv

-----------------------------------------------------------------------------
\* A dead particle is replaced by the last one: the names of those that live
\* stay the same.
LEMMA FillKeeps ==
  ASSUME StarsInv, loop = "prune", turn < nbStars, ~Live(stars[turn]), PruneTurn
  PROVE  StarsInv'
<1>1. /\ stars' = Filled(turn) /\ nbStars' = nbStars - 1 /\ turn' = turn
      /\ UNCHANGED <<starLimit, fxMode, maxStars, starMode, loop, alive>>
  BY DEF PruneTurn, Pruned
<1>2. turn \in 0 .. nbStars - 1 /\ nbStars \in 1 .. Alloc /\ Alloc \in Nat
  BY StarAssumption DEF StarsInv, StarsTypeOK
<1>3. \A k \in 0 .. nbStars - 2 : stars'[k] = IF k = turn THEN stars[nbStars - 1] ELSE stars[k]
  BY <1>1, <1>2 DEF Filled, Slots
<1>4. StarsTypeOK'
  <2>1. stars' \in [Slots -> Star \cup {Junk}]
    BY <1>1, <1>2 DEF Filled, Slots, StarsInv, StarsTypeOK
  <2>2. \A k \in 0 .. nbStars - 2 : stars'[k] \in Star
    BY <1>2, <1>3 DEF StarsInv, StarsTypeOK
  <2> QED  BY <1>1, <1>2, <2>1, <2>2 DEF StarsInv, StarsTypeOK
<1>5. Distinct'
  BY <1>1, <1>2, <1>3 DEF StarsInv, Distinct
<1>6. alive' = Survivors'
  <2>1. ASSUME NEW k \in 0 .. nbStars - 1, Live(stars[k])
        PROVE  \E j \in 0 .. nbStars - 2 : stars'[j] = stars[k]
    <3>1. CASE k = nbStars - 1
      BY <2>1, <3>1, <1>2, <1>3
    <3>2. CASE k # nbStars - 1
      BY <2>1, <3>2, <1>2, <1>3
    <3> QED  BY <3>1, <3>2
  <2>2. ASSUME NEW j \in 0 .. nbStars - 2
        PROVE  \E k \in 0 .. nbStars - 1 : stars'[j] = stars[k]
    BY <1>2, <1>3
  <2>3. alive = Survivors
    BY DEF StarsInv, Pruning
  <2>4. Survivors' = {stars'[k].name : k \in {j \in 0 .. nbStars - 2 : Live(stars'[j])}}
    BY <1>1, <1>2 DEF Survivors, Live
  <2>5. Survivors' \subseteq Survivors
    BY <1>2, <2>2, <2>4 DEF Survivors
  <2>6. Survivors \subseteq Survivors'
    <3> SUFFICES ASSUME NEW k \in 0 .. nbStars - 1, Live(stars[k])
                 PROVE  stars[k].name \in Survivors'
      BY DEF Survivors
    <3>1. PICK j \in 0 .. nbStars - 2 : stars'[j] = stars[k]
      BY <2>1
    <3>2. Live(stars'[j])
      BY <3>1 DEF Live
    <3> QED  BY <2>4, <3>1, <3>2
  <2> QED  BY <2>3, <2>5, <2>6, <1>1
<1>7. \A k \in 0 .. turn' - 1 : Live(stars'[k])
  BY <1>1, <1>2, <1>3 DEF StarsInv, Pruning
<1> QED  BY <1>1, <1>4, <1>5, <1>6, <1>7 DEF StarsInv, Pruning

LEMMA StarsStep == StarsInv /\ [StarsNext]_pool => StarsInv'
<1> SUFFICES ASSUME StarsInv, [StarsNext]_pool PROVE StarsInv'
  OBVIOUS
<1>1. CASE SetLimit
  BY <1>1 DEF SetLimit, StarsInv, StarsTypeOK, Distinct, Pruning, Survivors, Used, Live
<1>2. CASE SetMode
  BY <1>2 DEF SetMode, StarsInv, StarsTypeOK, Distinct, Pruning, Survivors, Used, Live
<1>3. CASE PruneTurn
  <2>1. CASE Live(stars[turn])
    <3>1. UNCHANGED <<stars, nbStars, starLimit, fxMode, maxStars, starMode, loop, alive>>
          /\ turn' = turn + 1 /\ turn < nbStars /\ loop = "prune"
      BY <1>3, <2>1 DEF PruneTurn, Pruned
    <3>2. StarsTypeOK' /\ Distinct'
      BY <3>1 DEF StarsInv, StarsTypeOK, Distinct
    <3>3. Pruning'
      BY <2>1, <3>1 DEF StarsInv, StarsTypeOK, Pruning, Survivors, Live
    <3> QED  BY <3>2, <3>3 DEF StarsInv
  <2>2. CASE ~Live(stars[turn])
    BY <1>3, <2>2, FillKeeps DEF PruneTurn
  <2> QED  BY <2>1, <2>2
<1>4. CASE PruneEnd
  <2>1. UNCHANGED <<stars, nbStars, starLimit, fxMode, maxStars, starMode, alive>>
        /\ turn' = 0 /\ loop' = "frame" /\ turn = nbStars /\ loop = "prune"
    BY <1>4 DEF PruneEnd, StarsInv, StarsTypeOK
  <2>2. Used = alive
    BY <2>1 DEF StarsInv, Pruning, Survivors, Used
  <2> QED  BY <2>1, <2>2 DEF StarsInv, StarsTypeOK, Distinct, Pruning, Used
<1>5. ASSUME NEW hit \in BOOLEAN, Apply(hit) PROVE StarsInv'
  BY <1>5, ApplyKeeps
<1>6. CASE UNCHANGED pool
  BY <1>6 DEF pool, StarsInv, StarsTypeOK, Distinct, Pruning, Survivors, Used, Live
<1> QED  BY <1>1, <1>2, <1>3, <1>4, <1>5, <1>6 DEF StarsNext

LEMMA StarsInvariant == StarsSpec => []StarsInv
<1> QED  BY StarsInitial, StarsStep, PTL DEF StarsSpec

\* The values of the pool stay in range: a slot in use holds a particle, and
\* the count never passes the array.
THEOREM StarsTyped == StarsSpec => []StarsTypeOK
<1>1. StarsInv => StarsTypeOK
  BY DEF StarsInv
<1> QED  BY <1>1, StarsInvariant, PTL

\* Pruning in place is exact for every size of the array: after a frame the
\* pool holds the particles that were alive, each of them once.
THEOREM PoolPrunedExactly == StarsSpec => []PruneExact
<1>1. StarsInv => PruneExact
  BY DEF StarsInv, Pruning, Distinct, PruneExact
<1> QED  BY <1>1, StarsInvariant, PTL

-----------------------------------------------------------------------------
(* The pool above its limit.                                               *)

\* Between two frames no particle is dead, and every particle ages.
Mortal ==
  /\ loop = "frame" => \A k \in 0 .. nbStars - 1 : Live(stars[k])
  /\ \A k \in 0 .. nbStars - 1 : stars[k].rate > 0

\* The pool grows up to its limit only; a frame makes every particle older, and
\* the pruning makes none younger.
PoolShrinks ==
  /\ nbStars' > nbStars => nbStars' <= starLimit'
  /\ loop = "frame" /\ loop' = "prune" =>
       \A k \in 0 .. nbStars - 1 :
         stars'[k].name = stars[k].name /\ stars'[k].age > stars[k].age
  /\ loop = "prune" =>
       \A k \in 0 .. nbStars' - 1 : \E j \in 0 .. nbStars - 1 : stars'[k] = stars[j]

\* The bursts and the trickle fill the pool up to the limit, no further.
LEMMA AddedWithin ==
  ASSUME nbStars \in Nat, NEW wanted \in Nat, NEW cap \in Nat
  PROVE  /\ Added(wanted, cap) \in Nat
         /\ nbStars + Added(wanted, cap) > nbStars => nbStars + Added(wanted, cap) <= cap
BY DEF Added

LEMMA AgedMore ==
  ASSUME NEW s \in Star, NEW out \in BOOLEAN
  PROVE  /\ Aged(s, out).name = s.name /\ Aged(s, out).rate = s.rate
         /\ Aged(s, out).age = s.age + s.rate
BY DEF Aged

LEMMA ApplyShrinks ==
  ASSUME StarsInv, Mortal, NEW hit \in BOOLEAN, Apply(hit)
  PROVE  Mortal' /\ PoolShrinks
<1>1. /\ maxStars' = starLimit /\ starLimit' = starLimit /\ starMode' = fxMode
      /\ loop = "frame" /\ loop' = "prune"
      /\ starLimit \in 0 .. Alloc /\ fxMode \in Modes /\ Alloc \in Nat
      /\ nbStars \in 0 .. Alloc /\ \A k \in 0 .. nbStars - 1 : stars[k] \in Star
  BY StarAssumption DEF StarsInv, StarsTypeOK, Apply
<1>2. PICK burst \in IF hit THEN Bursts[starMode'] ELSE {0} :
      \E count \in {nbStars + Added(burst + Trickle[starMode'], maxStars')} :
      \E names \in [nbStars .. count - 1 -> Names \ Used], out \in SUBSET (0 .. count - 1) :
        /\ \A j, k \in nbStars .. count - 1 : j # k => names[j] # names[k]
        /\ stars' = Updated([k \in Slots |-> IF k \in nbStars .. count - 1
                                               THEN Born(names[k], starMode') ELSE stars[k]],
                            count, out)
        /\ nbStars' = count
  BY DEF Apply
<1> DEFINE count == nbStars + Added(burst + Trickle[starMode'], maxStars')
<1>3. PICK names \in [nbStars .. count - 1 -> Names \ Used], out \in SUBSET (0 .. count - 1) :
        /\ stars' = Updated([k \in Slots |-> IF k \in nbStars .. count - 1
                                               THEN Born(names[k], starMode') ELSE stars[k]],
                            count, out)
        /\ nbStars' = count
  BY <1>2
<1>4. burst + Trickle[starMode'] \in Nat
  BY <1>1, StarAssumption
<1>5. count \in nbStars .. Alloc /\ (count > nbStars => count <= starLimit)
  <2>1. nbStars \in Nat /\ maxStars' \in 0 .. Alloc /\ maxStars' \in Nat
    BY <1>1
  <2> QED  BY <1>1, <1>4, <2>1, AddedFits, AddedWithin
<1> HIDE DEF count
<1>6. ASSUME NEW k \in Slots, k < count
      PROVE  stars'[k] = IF k < nbStars THEN Aged(stars[k], k \in out)
                         ELSE Aged(Born(names[k], starMode'), k \in out)
  BY <1>1, <1>3, <1>5, <1>6 DEF Updated, Slots
<1>7. ASSUME NEW k \in 0 .. nbStars - 1
      PROVE  /\ stars'[k].name = stars[k].name /\ stars'[k].age > stars[k].age
             /\ stars'[k].rate > 0
  <2> DEFINE gone == k \in out
  <2>1. stars[k] \in Star /\ stars[k].rate > 0 /\ gone \in BOOLEAN
    BY <1>1 DEF Mortal
  <2>2. stars'[k] = Aged(stars[k], gone)
    BY <1>1, <1>5, <1>6 DEF Slots
  <2> HIDE DEF gone
  <2>3. /\ stars'[k].name = stars[k].name /\ stars'[k].rate = stars[k].rate
        /\ stars'[k].age = stars[k].age + stars[k].rate
    BY <2>1, <2>2, AgedMore
  <2>4. stars[k].age \in Nat /\ stars[k].rate \in Nat
    BY <2>1 DEF Star
  <2> QED  BY <2>1, <2>3, <2>4
<1>8. ASSUME NEW k \in nbStars .. count - 1
      PROVE  stars'[k].rate > 0
  <2> DEFINE gone == k \in out
             born == Born(names[k], starMode')
  <2>1. names[k] \in Names /\ gone \in BOOLEAN
    BY <1>3, <1>8
  <2>2. stars'[k] = Aged(born, gone)
    BY <1>1, <1>5, <1>6, <1>8 DEF Slots
  <2>3. born \in Star
    BY <1>1, <2>1, BornStar
  <2>4. born.rate = Rates[starMode'] /\ Rates[starMode'] \in Nat \ {0}
    BY <1>1, StarAssumption DEF Born
  <2> HIDE DEF gone, born
  <2> QED  BY <2>1, <2>2, <2>3, <2>4, AgedMore
<1>9. \A k \in 0 .. nbStars' - 1 : stars'[k].rate > 0
  <2>1. \A k \in 0 .. count - 1 : k \in 0 .. nbStars - 1 \/ k \in nbStars .. count - 1
    BY <1>1, <1>5
  <2> QED  BY <1>3, <1>7, <1>8, <2>1
<1> QED  BY <1>1, <1>3, <1>5, <1>7, <1>9 DEF Mortal, PoolShrinks

LEMMA ShrinkStep == StarsInv /\ Mortal /\ [StarsNext]_pool => Mortal' /\ [PoolShrinks]_pool
<1> SUFFICES ASSUME StarsInv, Mortal, [StarsNext]_pool PROVE Mortal' /\ PoolShrinks
  OBVIOUS
<1>0. nbStars \in Nat /\ turn \in 0 .. nbStars /\ nbStars <= Alloc /\ Alloc \in Nat
  BY StarAssumption DEF StarsInv, StarsTypeOK
<1>1. CASE SetLimit \/ SetMode \/ UNCHANGED pool
  BY <1>0, <1>1 DEF SetLimit, SetMode, pool, Mortal, PoolShrinks, Live
<1>2. CASE PruneTurn
  <2>1. loop = "prune" /\ loop' = "prune" /\ turn < nbStars
    BY <1>2 DEF PruneTurn
  <2>2. /\ nbStars' \in 0 .. nbStars
        /\ \A k \in 0 .. nbStars' - 1 : \E j \in 0 .. nbStars - 1 : stars'[k] = stars[j]
    <3>1. CASE Live(stars[turn])
      BY <1>0, <1>2, <3>1 DEF PruneTurn, Pruned
    <3>2. CASE ~Live(stars[turn])
      <4>1. stars' = Filled(turn) /\ nbStars' = nbStars - 1
        BY <1>2, <3>2 DEF PruneTurn, Pruned
      <4>2. \A k \in 0 .. nbStars - 2 :
              stars'[k] = IF k = turn THEN stars[nbStars - 1] ELSE stars[k]
        BY <1>0, <4>1 DEF Filled, Slots
      <4>3. nbStars - 1 \in 0 .. nbStars - 1 /\ \A k \in 0 .. nbStars - 2 : k \in 0 .. nbStars - 1
        BY <1>0, <2>1
      <4> QED  BY <1>0, <4>1, <4>2, <4>3
    <3> QED  BY <3>1, <3>2
  <2> QED  BY <1>0, <2>1, <2>2 DEF Mortal, PoolShrinks
<1>3. CASE PruneEnd
  <2>1. turn = nbStars /\ loop = "prune" /\ UNCHANGED <<stars, nbStars>>
    BY <1>0, <1>3 DEF PruneEnd
  <2>2. \A k \in 0 .. nbStars - 1 : Live(stars[k])
    BY <2>1 DEF StarsInv, Pruning
  <2> QED  BY <1>0, <2>1, <2>2 DEF Mortal, PoolShrinks, Live
<1>4. ASSUME NEW hit \in BOOLEAN, Apply(hit) PROVE Mortal' /\ PoolShrinks
  BY <1>4, ApplyShrinks
<1> QED  BY <1>1, <1>2, <1>3, <1>4 DEF StarsNext

\* A pool above its limit does not grow, and every particle of it comes nearer
\* to its death with every frame: it has fewer than Ncol frames left.
THEOREM PoolOnlyShrinks == StarsSpec => []Mortal /\ [][PoolShrinks]_pool
<1>1. StarsInit => Mortal
  BY DEF StarsInit, Mortal
<1> QED  BY <1>1, ShrinkStep, StarsInitial, StarsStep, PTL DEF StarsSpec

-----------------------------------------------------------------------------
(* The shape of the tentacles.                                             *)

TentTyped ==
  /\ param \in Params
  /\ tent \in [prevDrawit : BOOLEAN, wave : BOOLEAN, shape : Shapes,
               lastReq : Shapes \cup {AutoShape}, grids : Shapes]

\* Only tentacles wave, on grids of their shape; the shape that was asked for is
\* in force, and what is drawn has it unless it is classic tentacles.
ShapeHeld ==
  /\ tent.wave => tent.shape = "tentacle" /\ tent.grids = "tentacle"
  /\ tent.lastReq # AutoShape => tent.shape = tent.lastReq
  /\ fade > 0 /\ tent.shape # "tentacle" => tent.grids = tent.shape

\* A frame that draws does so with the shape that the parameter asks for: a
\* surface in a show too, tentacles when one begins.
DrawnAsAsked ==
  /\ Frame /\ param.enabled /\ param.shape # AutoShape /\ fade' > 0
  /\ param.shape # "tentacle" \/ (~tent.prevDrawit /\ tent'.prevDrawit)
  => tent'.grids = param.shape

LEMMA ShapeFrame ==
  ASSUME TentTyped, ShapeHeld, NEW drawit \in BOOLEAN, NEW next \in Resolved(drawit)
  PROVE  /\ next \in [prevDrawit : BOOLEAN, wave : BOOLEAN, shape : Shapes,
                      lastReq : Shapes \cup {AutoShape}, grids : Shapes]
         /\ next.wave => next.shape = "tentacle" /\ next.grids = "tentacle"
         /\ next.lastReq # AutoShape => next.shape = next.lastReq
         /\ param.shape # AutoShape => next.shape = param.shape
         /\ Faded(drawit) > 0 /\ next.shape # "tentacle" => next.grids = next.shape
         /\ Rising(drawit) /\ next.shape = "tentacle" => next.grids = "tentacle"
         /\ next.prevDrawit = drawit
<1>1. PICK s \in NewShapes(drawit) : \E w \in Waves(drawit, s) :
        next = [prevDrawit |-> drawit, wave |-> w, shape |-> s,
                lastReq |-> IF AsksShape(drawit) THEN param.shape ELSE tent.lastReq,
                grids   |-> Formed(drawit, w, s)]
  BY DEF Resolved
<1>2. PICK w \in Waves(drawit, s) :
        next = [prevDrawit |-> drawit, wave |-> w, shape |-> s,
                lastReq |-> IF AsksShape(drawit) THEN param.shape ELSE tent.lastReq,
                grids   |-> Formed(drawit, w, s)]
  BY <1>1
<1>3. /\ param.shape \in Shapes \cup {AutoShape} /\ tent.shape \in Shapes
      /\ tent.lastReq \in Shapes \cup {AutoShape} /\ tent.wave \in BOOLEAN
      /\ tent.grids \in Shapes
      /\ tent.wave => tent.shape = "tentacle" /\ tent.grids = "tentacle"
      /\ tent.lastReq # AutoShape => tent.shape = tent.lastReq
  BY DEF TentTyped, Params, ShapeHeld
<1>4. AutoShape \notin Shapes
  BY DEF AutoShape, Shapes
<1>5. /\ s \in Shapes
      /\ AsksShape(drawit) /\ param.shape # AutoShape => s = param.shape
      /\ ~AsksShape(drawit) => s = tent.shape /\ param.shape = tent.lastReq
      /\ AsksShape(drawit) /\ ~Rising(drawit) /\ param.shape = AutoShape => s = tent.shape
  BY <1>1, <1>3 DEF NewShapes, AsksShape
<1>6. /\ w \in BOOLEAN /\ (w => s = "tentacle")
      /\ w => Rising(drawit) \/ tent.wave
  BY <1>2, <1>3, <1>5 DEF Waves, AsksShape
<1>7. /\ Formed(drawit, w, s) \in Shapes
      /\ w => Formed(drawit, w, s) = "tentacle"
      /\ Faded(drawit) > 0 /\ s # "tentacle" => Formed(drawit, w, s) = s
      /\ Rising(drawit) /\ s = "tentacle" => Formed(drawit, w, s) = "tentacle"
  <2> DEFINE drawn == Faded(drawit) > 0
  <2>1. Formed(drawit, w, s) = IF drawn /\ (w \/ s # "tentacle") THEN s
                               ELSE IF Rising(drawit) THEN "tentacle" ELSE tent.grids
    BY DEF Formed
  <2>2. "tentacle" \in Shapes
    BY DEF Shapes
  <2> HIDE DEF drawn
  <2>3. /\ Formed(drawit, w, s) \in Shapes
        /\ w => Formed(drawit, w, s) = "tentacle"
        /\ drawn /\ s # "tentacle" => Formed(drawit, w, s) = s
        /\ Rising(drawit) /\ s = "tentacle" => Formed(drawit, w, s) = "tentacle"
    BY <1>3, <1>5, <1>6, <2>1, <2>2
  <2> QED  BY <2>3 DEF drawn
<1> QED  BY <1>2, <1>3, <1>5, <1>6, <1>7

LEMMA ShapeStep ==
  TentTyped /\ ShapeHeld /\ [TentNext]_tentacles
    => (TentTyped /\ ShapeHeld)' /\ [DrawnAsAsked]_tentacles
<1> SUFFICES ASSUME TentTyped, ShapeHeld, [TentNext]_tentacles
             PROVE  (TentTyped /\ ShapeHeld)' /\ [DrawnAsAsked]_tentacles
  OBVIOUS
<1>1. ASSUME SetParam PROVE TentTyped' /\ ShapeHeld' /\ tent' = tent
  BY <1>1 DEF SetParam, TentTyped, ShapeHeld
<1>2. ASSUME NEW shown \in BOOLEAN, NEW hit \in BOOLEAN, TentUpdate(shown, hit)
      PROVE  /\ TentTyped' /\ ShapeHeld'
             /\ /\ param.enabled /\ param.shape # AutoShape /\ fade' > 0
                /\ param.shape # "tentacle" \/ (~tent.prevDrawit /\ tent'.prevDrawit)
                => tent'.grids = param.shape
  <2>1. param' = param
    BY <1>2 DEF TentUpdate
  <2>2. CASE param.enabled
    <3> DEFINE drawit == shown \/ param.always
    <3>1. drawit \in BOOLEAN /\ tent' \in Resolved(drawit) /\ fade' = Faded(drawit)
      BY <1>2, <2>2 DEF TentUpdate
    <3> HIDE DEF drawit
    <3>2. Rising(drawit) <=> drawit /\ ~tent.prevDrawit
      BY DEF Rising
    <3> QED  BY <2>1, <3>1, <3>2, ShapeFrame DEF TentTyped, ShapeHeld
  <2>3. CASE ~param.enabled
    <3>1. tent' = [tent EXCEPT !.prevDrawit = FALSE] /\ fade' = fade
      BY <1>2, <2>3 DEF TentUpdate
    <3> QED  BY <2>1, <2>3, <3>1 DEF TentTyped, ShapeHeld
  <2> QED  BY <2>2, <2>3
<1>3. Frame => TentTyped' /\ ShapeHeld' /\ DrawnAsAsked
  BY <1>2 DEF Frame, DrawnAsAsked
<1>4. CASE UNCHANGED tentacles
  BY <1>4 DEF tentacles, TentTyped, ShapeHeld
<1>5. CASE TentNext
  <2>1. CASE Frame
    BY <2>1, <1>3
  <2>2. CASE SetParam /\ ~Frame
    BY <2>2, <1>1 DEF DrawnAsAsked
  <2> QED  BY <2>1, <2>2, <1>5 DEF TentNext
<1> QED  BY <1>4, <1>5

\* Only the tentacle shape waves, a surface in force is the one drawn, and a
\* frame that draws does so with the shape that was asked for, "meme si l'effet
\* est deja visible" when it is a surface, and when a show begins in any case.
THEOREM AskedShapeDrawn == TentSpec => []ShapeHeld /\ [][DrawnAsAsked]_tentacles
<1>1. TentInit => TentTyped /\ ShapeHeld
  BY DEF TentInit, TentTyped, ShapeHeld, Params, Shapes, AutoShape
<1> QED  BY <1>1, ShapeStep, PTL DEF TentSpec

-----------------------------------------------------------------------------
(* Periods without a goom.                                                 *)

\* In a period without a goom nothing was above the limit.
QuietSoFar ==
  /\ total \in Nat /\ goomLimit \in Int /\ heard \in Int
  /\ peak \in 0 .. 100 /\ cycle \in 0 .. Period - 1
  /\ cycle = 0 => peak = 0 /\ total = 0
  /\ cycle > 0 /\ total = 0 => peak <= goomLimit

\* The end of a period in which there was no goom.
SilentPeriod == cycle = Period - 1 /\ total = 0 /\ ~goom'

\* It leaves the limit below its own highest level, where the limit stays until
\* the next period ends; when that one is silent too, it was a softer one.
SilenceNoted ==
  /\ SoundNext /\ SilentPeriod => goomLimit' < heard' /\ (goomLimit < heard => heard' < heard)
  /\ SoundNext /\ cycle # Period - 1 => (goomLimit < heard => goomLimit' < heard')

LEMMA CorrectedInt ==
  ASSUME NEW l \in Int, NEW t \in Nat, NEW p \in Int, NEW calm \in BOOLEAN
  PROVE  Corrected(l, t, p, calm) \in Int /\ (t = 0 => Corrected(l, t, p, calm) = p - 2)
<1> DEFINE slack == IF calm THEN (l * 91) \div 100 ELSE l
           a == RaisedSome(slack, t)
           b == RaisedMany(a, t)
           c == RaisedStorm(b, t)
<1>1. \A x \in Int : x \div 100 \in Int
  OBVIOUS
<1>2. slack \in Int
  BY <1>1
<1> HIDE DEF slack
<1>3. a \in Int
  BY <1>2 DEF RaisedSome
<1> HIDE DEF a
<1>4. b \in Int
  BY <1>1, <1>3 DEF RaisedMany
<1> HIDE DEF b
<1>5. c \in Int
  BY <1>1, <1>4 DEF RaisedStorm
<1>6. Corrected(l, t, p, calm) = CASE t = 0            -> p - 2
                                   [] t = 1 /\ c > 2   -> c - 1
                                   [] OTHER            -> c
  BY DEF Corrected, a, b, c, slack
<1> HIDE DEF c
<1> QED  BY <1>5, <1>6

LEMMA QuietStep == QuietSoFar /\ [SoundNext]_sound => QuietSoFar' /\ [SilenceNoted]_sound
<1> SUFFICES ASSUME QuietSoFar, [SoundNext]_sound PROVE QuietSoFar' /\ [SilenceNoted]_sound
  OBVIOUS
<1>1. CASE UNCHANGED sound
  BY <1>1 DEF sound, QuietSoFar
<1>2. CASE SoundNext
  <2>1. PICK level \in Levels, calm \in BOOLEAN : Evaluate(level, calm)
    BY <1>2 DEF SoundNext
  <2> DEFINE gooms == IF level > goomLimit THEN total + 1 ELSE total
             top   == IF level > peak THEN level ELSE peak
             cap   == Capped(goomLimit)
  <2>2. level \in 0 .. 100 /\ Period \in Nat \ {0}
    BY SoundAssumption
  <2>3. /\ gooms \in Nat /\ top \in 0 .. 100 /\ cap \in Int /\ cap <= goomLimit
        /\ gooms = 0 => level <= goomLimit /\ total = 0
    BY <2>2 DEF QuietSoFar, Capped
  <2>4. gooms = 0 => top <= goomLimit /\ top <= cap
    BY <2>2 DEF QuietSoFar, Capped
  <2>5. CASE cycle # Period - 1
    <3>1. /\ goomLimit' = cap /\ total' = gooms /\ peak' = top /\ cycle' = (cycle + 1) % Period
          /\ heard' = heard
      BY <2>1, <2>5 DEF Evaluate, NextPeak
    <3>2. cycle' = cycle + 1 /\ cycle + 1 \in 1 .. Period - 1
      BY <2>2, <2>5, <3>1 DEF QuietSoFar
    <3> HIDE DEF gooms, top, cap
    <3>3. QuietSoFar'
      BY <2>3, <2>4, <3>1, <3>2 DEF QuietSoFar
    <3>4. goomLimit < heard => goomLimit' < heard'
      BY <2>3, <3>1 DEF QuietSoFar
    <3> QED  BY <2>5, <3>3, <3>4 DEF SilenceNoted, SilentPeriod
  <2>6. CASE cycle = Period - 1
    <3>1. /\ goomLimit' = Corrected(cap, gooms, top, calm) /\ total' = 0 /\ peak' = 0
          /\ cycle' = (cycle + 1) % Period /\ heard' = top /\ goom' = (level > goomLimit)
      BY <2>1, <2>6 DEF Evaluate, NextPeak
    <3>2. cycle' = 0
      BY <2>2, <2>6, <3>1
    <3>3. SilentPeriod => gooms = 0
      BY <3>1 DEF SilentPeriod
    <3> HIDE DEF gooms, top, cap
    <3>4. goomLimit' \in Int /\ (gooms = 0 => goomLimit' = top - 2)
      BY <2>3, <3>1, CorrectedInt
    <3>5. QuietSoFar'
      BY <2>2, <2>3, <3>1, <3>2, <3>4 DEF QuietSoFar
    <3>6. SilenceNoted
      <4> SUFFICES ASSUME SilentPeriod
                   PROVE  goomLimit' < heard' /\ (goomLimit < heard => heard' < heard)
        BY <2>6 DEF SilenceNoted
      <4>1. goomLimit' = top - 2 /\ heard' = top /\ top <= goomLimit
        BY <2>4, <3>1, <3>3, <3>4
      <4>2. goomLimit \in Int /\ heard \in Int
        BY DEF QuietSoFar
      <4>3. top \in Int
        BY <2>3
      <4> QED  BY <4>1, <4>2, <4>3
    <3> QED  BY <3>5, <3>6
  <2> QED  BY <2>5, <2>6
<1> QED  BY <1>1, <1>2

\* Periods without a goom follow each other only while their highest levels
\* fall: music at a loudness that stays has no two of them in a row.
THEOREM SilenceIsNoted == SoundSpec => [][SilenceNoted]_sound
<1>1. SoundInit => QuietSoFar
  BY SoundAssumption DEF SoundInit, QuietSoFar
<1> QED  BY <1>1, QuietStep, PTL DEF SoundSpec

-----------------------------------------------------------------------------
(* The window of the microphone.                                           *)

\* Places of a ring, from as far back as its size.
LEMMA RingPlaces ==
  ASSUME NEW n \in Nat \ {0}, NEW i \in Int, -n <= i, i <= n
  PROVE  i % n = IF i < 0 THEN i + n ELSE IF i = n THEN 0 ELSE i
<1>1. CASE i < 0
  <2> DEFINE q == i \div n
             r == i % n
  <2>1. q \in Int /\ r \in 0 .. n - 1 /\ i = n * q + r
    OBVIOUS
  <2> HIDE DEF q, r
  <2>2. ~(q >= 0)
    <3> SUFFICES ASSUME q >= 0 PROVE FALSE
      OBVIOUS
    <3>1. n * q >= 0
      BY <2>1
    <3> QED  BY <1>1, <2>1, <3>1
  <2>3. ~(q <= -2)
    <3> SUFFICES ASSUME q <= -2 PROVE FALSE
      OBVIOUS
    <3>1. n * q <= n * (-2)
      BY <2>1
    <3> QED  BY <2>1, <3>1
  <2>4. q = -1
    BY <2>1, <2>2, <2>3
  <2> QED  BY <1>1, <2>1, <2>4 DEF r
<1>2. CASE i >= 0 /\ i # n
  BY <1>2
<1>3. CASE i = n
  BY <1>3
<1> QED  BY <1>1, <1>2, <1>3

\* The place of the k-th sample of the window, when the next one is written at w.
Slot(w, k) == (w - Window + k - 1) % Ring

\* The window that ends before w is in the ring, at places of its own; the
\* place of a sample is one further for each one written after it.
LEMMA SlotPlaces ==
  ASSUME NEW w \in 0 .. Ring - 1
  PROVE  /\ \A k \in 1 .. Window + 1 : Slot(w, k) \in 0 .. Ring - 1
         /\ Slot(w, Window + 1) = w
         /\ \A k \in 2 .. Window : Slot(w, k) # w
         /\ \A k \in 1 .. Window : (Slot(w, k) + 1) % Ring = Slot(w, k + 1)
         /\ \A k \in 1 .. Window : Slot((w + 1) % Ring, k) = Slot(w, k + 1)
         /\ (w + 1) % Ring \in 0 .. Ring - 1
<1> USE MicAssumption
<1> DEFINE At(i) == IF i < 0 THEN i + Ring ELSE IF i = Ring THEN 0 ELSE i
<1>1. /\ Ring \in Nat \ {0} /\ Window \in 1 .. Ring
      /\ \A i \in Int : -Ring <= i /\ i <= Ring => i % Ring = At(i)
  BY RingPlaces
<1>2. ASSUME NEW k \in 1 .. Window + 1
      PROVE  Slot(w, k) = At(w - Window + k - 1)
  BY <1>1 DEF Slot
<1>3. (w + 1) % Ring = IF w + 1 = Ring THEN 0 ELSE w + 1
  BY <1>1
<1>4. ASSUME NEW k \in 1 .. Window PROVE (Slot(w, k) + 1) % Ring = Slot(w, k + 1)
  <2>1. Slot(w, k) = At(w - Window + k - 1) /\ Slot(w, k + 1) = At(w - Window + k)
    BY <1>1, <1>2
  <2>2. Slot(w, k) \in 0 .. Ring - 1
    BY <1>1, <2>1
  <2>3. (Slot(w, k) + 1) % Ring = IF Slot(w, k) + 1 = Ring THEN 0 ELSE Slot(w, k) + 1
    BY <1>1, <2>2
  <2> QED  BY <1>1, <2>1, <2>3
<1>5. ASSUME NEW k \in 1 .. Window PROVE Slot((w + 1) % Ring, k) = Slot(w, k + 1)
  <2>1. Slot(w, k + 1) = At(w - Window + k)
    BY <1>1, <1>2
  <2> DEFINE v == (w + 1) % Ring
  <2>2. v \in 0 .. Ring - 1 /\ (v = w + 1 \/ (v = 0 /\ w = Ring - 1))
    <3>1. v = IF w + 1 = Ring THEN 0 ELSE w + 1
      BY <1>3
    <3> HIDE DEF v
    <3> QED  BY <1>1, <3>1
  <2> HIDE DEF v
  <2>3. Slot(v, k) = At(v - Window + k - 1)
    BY <1>1, <2>2 DEF Slot
  <2>4. At(v - Window + k - 1) = At(w - Window + k)
    BY <1>1, <2>2
  <2> QED  BY <2>1, <2>3, <2>4 DEF v
<1> QED  BY <1>1, <1>2, <1>3, <1>4, <1>5

MicTyped ==
  /\ ring \in [0 .. Ring - 1 -> Int] /\ writePos \in 0 .. Ring - 1 /\ left \in Nat
  /\ pos \in 0 .. Ring - 1 /\ copied \in Seq(Int) /\ Len(copied) <= Window
  /\ recent \in Seq(Int) /\ Len(recent) = Window

\* The lock is with the callback while it has samples to write, and with the
\* reader while its copy is begun.
LockWith ==
  /\ left > 0 <=> holder = "callback"
  /\ copied # <<>> <=> holder = "reader"

\* The last window of samples is in the ring, behind the next write.
WindowInRing == \A k \in 1 .. Window : recent[k] = ring[Slot(writePos, k)]

\* What is copied is the beginning of the window, and the rest is next.
CopyBegun ==
  copied # <<>> => /\ \A k \in 1 .. Len(copied) : copied[k] = recent[k]
                   /\ pos = Slot(writePos, Len(copied) + 1)

MicInv == MicTyped /\ LockWith /\ WindowInRing /\ CopyBegun

LEMMA MicInitial == MicInit => MicInv
<1> SUFFICES ASSUME MicInit PROVE MicInv
  OBVIOUS
<1> USE MicAssumption DEF MicInit
<1>1. 0 \in 0 .. Ring - 1 /\ Window \in Nat
  OBVIOUS
<1>2. \A k \in 1 .. Window : Slot(writePos, k) \in 0 .. Ring - 1
  <2>1. \A k \in 1 .. Window + 1 : Slot(0, k) \in 0 .. Ring - 1
    BY ONLY <1>1, SlotPlaces
  <2> QED  BY <1>1, <2>1
<1>3. WindowInRing
  BY <1>2 DEF WindowInRing
<1>4. Len(recent) = Window /\ recent \in Seq(Int)
  OBVIOUS
<1> QED  BY <1>1, <1>3, <1>4 DEF MicInv, MicTyped, LockWith, CopyBegun, Nobody

LEMMA WriteKeeps ==
  ASSUME MicInv, Write
  PROVE  MicInv'
<1>1. PICK v \in Loudness : /\ ring' = [ring EXCEPT ![writePos] = v]
                            /\ recent' = Tail(recent) \o <<v>>
  BY DEF Write
<1>2. /\ writePos' = (writePos + 1) % Ring /\ left > 0 /\ left' = left - 1
      /\ holder' = IF left = 1 THEN Nobody ELSE holder
      /\ pos' = pos /\ copied' = copied
  BY DEF Write
<1>3. v \in Int /\ Window \in Nat \ {0} /\ Ring \in Nat \ {0}
  BY MicAssumption
<1>4. /\ recent' \in Seq(Int) /\ Len(recent') = Window
      /\ \A k \in 1 .. Window : recent'[k] = IF k = Window THEN v ELSE recent[k + 1]
  <2>1. recent # <<>>
    BY <1>3 DEF MicInv, MicTyped
  <2>2. /\ Tail(recent) \in Seq(Int) /\ Len(Tail(recent)) = Window - 1
        /\ \A k \in 1 .. Window - 1 : Tail(recent)[k] = recent[k + 1]
    BY <1>3, <2>1, HeadTailProperties DEF MicInv, MicTyped
  <2> DEFINE t == Tail(recent)
  <2>4. /\ t \in Seq(Int) /\ Len(t) = Window - 1 /\ recent' = t \o <<v>>
        /\ \A k \in 1 .. Window - 1 : t[k] = recent[k + 1]
    BY <1>1, <2>2
  <2> HIDE DEF t
  <2>3. /\ t \o <<v>> \in Seq(Int) /\ Len(t \o <<v>>) = Window
        /\ \A k \in 1 .. Window : (t \o <<v>>)[k] = IF k = Window THEN v ELSE t[k]
    BY <1>3, <2>4
  <2>5. \A k \in 1 .. Window : k = Window \/ k \in 1 .. Window - 1
    BY <1>3
  <2> QED  BY <2>3, <2>4, <2>5
<1>5. MicTyped'
  BY <1>1, <1>2, <1>3, <1>4, SlotPlaces DEF MicInv, MicTyped
<1>6. copied = <<>> /\ LockWith'
  BY <1>2 DEF MicInv, MicTyped, LockWith, Nobody
<1>7. WindowInRing'
  <2> SUFFICES ASSUME NEW k \in 1 .. Window PROVE recent'[k] = ring'[Slot(writePos', k)]
    BY DEF WindowInRing
  <2>1. Slot(writePos', k) = Slot(writePos, k + 1) /\ Slot(writePos, k + 1) \in 0 .. Ring - 1
    <3>1. writePos \in 0 .. Ring - 1 /\ k + 1 \in 1 .. Window + 1
      BY <1>3 DEF MicInv, MicTyped
    <3> QED  BY <1>2, <3>1, SlotPlaces
  <2>2. CASE k = Window
    <3>1. Slot(writePos, k + 1) = writePos
      BY <2>2, SlotPlaces DEF MicInv, MicTyped
    <3> QED  BY <1>1, <1>4, <2>1, <2>2, <3>1 DEF MicInv, MicTyped
  <2>3. CASE k # Window
    <3>1. k + 1 \in 2 .. Window
      BY <1>3, <2>3
    <3>2. Slot(writePos, k + 1) # writePos
      BY <3>1, SlotPlaces DEF MicInv, MicTyped
    <3>3. recent[k + 1] = ring[Slot(writePos, k + 1)]
      BY <1>3, <3>1 DEF MicInv, WindowInRing
    <3> QED  BY <1>1, <1>4, <2>1, <2>3, <3>2, <3>3 DEF MicInv, MicTyped
  <2> QED  BY <2>2, <2>3
<1> QED  BY <1>2, <1>5, <1>6, <1>7 DEF MicInv, CopyBegun

LEMMA LockKeeps ==
  ASSUME MicInv, Lock
  PROVE  MicInv'
<1>1. /\ holder = Nobody /\ copied = <<>> /\ holder' = "reader"
      /\ copied' = <<ring[Slot(writePos, 1)]>> /\ pos' = (Slot(writePos, 1) + 1) % Ring
      /\ UNCHANGED <<ring, writePos, left, recent>>
  <2>1. (writePos - Window) % Ring = Slot(writePos, 1)
    <3>1. writePos - Window = writePos - Window + 1 - 1
      BY MicAssumption DEF MicInv, MicTyped
    <3> QED  BY <3>1 DEF Slot
  <2> QED  BY <2>1 DEF Lock, DeviceFree
<1>2. Window \in Nat \ {0} /\ writePos \in 0 .. Ring - 1
  BY MicAssumption DEF MicInv, MicTyped
<1>3. /\ Slot(writePos, 1) \in 0 .. Ring - 1
      /\ pos' = Slot(writePos, 2) /\ Slot(writePos, 2) \in 0 .. Ring - 1
  BY <1>1, <1>2, SlotPlaces
<1>4. copied' \in Seq(Int) /\ Len(copied') = 1 /\ copied'[1] = recent[1] /\ copied' # <<>>
  BY <1>1, <1>2, <1>3 DEF MicInv, MicTyped, WindowInRing
<1>5. MicTyped' /\ LockWith'
  BY <1>1, <1>2, <1>3, <1>4 DEF MicInv, MicTyped, LockWith, Nobody
<1>6. CopyBegun'
  BY <1>1, <1>3, <1>4 DEF CopyBegun
<1> QED  BY <1>1, <1>5, <1>6 DEF MicInv, WindowInRing

LEMMA CopyKeeps ==
  ASSUME MicInv, Copy
  PROVE  MicInv'
<1> DEFINE n == Len(copied)
<1>1. /\ copied # <<>> /\ n < Window /\ copied' = Append(copied, ring[pos])
      /\ pos' = (pos + 1) % Ring
      /\ UNCHANGED <<ring, writePos, holder, left, recent>>
  BY DEF Copy
<1>2. Window \in Nat \ {0} /\ writePos \in 0 .. Ring - 1 /\ n \in Nat /\ n + 1 \in 1 .. Window
  BY <1>1, MicAssumption DEF MicInv, MicTyped
<1>3. /\ pos = Slot(writePos, n + 1) /\ pos \in 0 .. Ring - 1
      /\ pos' = Slot(writePos, n + 1 + 1) /\ pos' \in 0 .. Ring - 1
  BY <1>1, <1>2, SlotPlaces DEF MicInv, CopyBegun
<1>4. ring[pos] = recent[n + 1] /\ ring[pos] \in Int
  BY <1>2, <1>3 DEF MicInv, MicTyped, WindowInRing
<1>5. /\ copied' \in Seq(Int) /\ Len(copied') = n + 1 /\ copied' # <<>>
      /\ \A k \in 1 .. n + 1 : copied'[k] = recent[k]
  <2>1. \A k \in 1 .. n : copied[k] = recent[k]
    BY <1>1 DEF MicInv, CopyBegun
  <2>2. copied \in Seq(Int)
    BY DEF MicInv, MicTyped
  <2>3. /\ copied' \in Seq(Int) /\ Len(copied') = n + 1
        /\ \A k \in 1 .. n : copied'[k] = copied[k]
        /\ copied'[n + 1] = ring[pos]
    BY <1>1, <1>4, <2>2, AppendProperties
  <2> HIDE DEF n
  <2> QED  BY <1>2, <1>4, <2>1, <2>3
<1>6. MicTyped' /\ LockWith'
  <2>1. copied' \in Seq(Int) /\ Len(copied') <= Window /\ pos' \in 0 .. Ring - 1
    BY <1>2, <1>3, <1>5
  <2>2. copied # <<>> /\ copied' # <<>>
    BY <1>1, <1>5
  <2>3. MicTyped'
    BY <1>1, <2>1 DEF MicInv, MicTyped
  <2>4. LockWith'
    BY <1>1, <2>2 DEF MicInv, LockWith
  <2> QED  BY <2>3, <2>4
<1>7. CopyBegun'
  BY <1>1, <1>3, <1>5 DEF CopyBegun
<1> QED  BY <1>1, <1>6, <1>7 DEF MicInv, WindowInRing

LEMMA MicStep == MicInv /\ [MicNext]_mic => MicInv'
<1> SUFFICES ASSUME MicInv, [MicNext]_mic PROVE MicInv'
  OBVIOUS
<1>1. CASE Callback
  <2>1. left' \in Nat \ {0}
    BY <1>1, MicAssumption DEF Callback
  <2> QED  BY <1>1, <2>1 DEF Callback, Nobody, MicInv, MicTyped, LockWith, WindowInRing, CopyBegun
<1>2. CASE Give
  <2>1. /\ holder' = Nobody /\ copied' = <<>> /\ pos' = 0 /\ copied # <<>>
        /\ UNCHANGED <<ring, writePos, left, recent>>
    BY <1>2, MicAssumption DEF Give, MicInv, MicTyped
  <2>2. Ring \in Nat \ {0} /\ Window \in Nat
    BY MicAssumption
  <2>3. MicTyped' /\ LockWith'
    BY <2>1, <2>2 DEF MicInv, MicTyped, LockWith, Nobody
  <2> QED  BY <2>1, <2>3 DEF MicInv, WindowInRing, CopyBegun
<1>3. ASSUME NEW decay \in BOOLEAN, MicIdle(decay) PROVE MicInv'
  BY <1>3 DEF MicIdle, MicInv, MicTyped, LockWith, WindowInRing, CopyBegun
<1>4. CASE UNCHANGED mic
  BY <1>4 DEF mic, MicInv, MicTyped, LockWith, WindowInRing, CopyBegun
<1> QED  BY <1>1, <1>2, <1>3, <1>4, WriteKeeps, LockKeeps, CopyKeeps DEF MicNext

\* The window given to the engine is whole, for any ring, any window that fits
\* in it and chunks of any size.
THEOREM MicWindowWhole == MicSpec => []WindowWhole
<1>1. MicInv => WindowWhole
  <2> SUFFICES ASSUME MicInv, Len(copied) = Window PROVE copied = recent
    BY DEF WindowWhole
  <2>1. Window \in Nat \ {0} /\ copied \in Seq(Int) /\ recent \in Seq(Int)
    BY MicAssumption DEF MicInv, MicTyped
  <2>2. copied # <<>>
    BY <2>1
  <2>3. \A k \in 1 .. Len(copied) : copied[k] = recent[k]
    BY <2>2 DEF MicInv, CopyBegun
  <2>4. Len(recent) = Len(copied)
    BY DEF MicInv, MicTyped
  <2> QED  BY <2>1, <2>3, <2>4, SeqEqual
<1> QED  BY <1>1, MicInitial, MicStep, PTL DEF MicSpec

-----------------------------------------------------------------------------
(* The gain of the microphone.                                             *)

\* The loudest of some samples is one of them, and no other is louder.
LEMMA LoudestIsSample ==
  ASSUME NEW s \in Seq(0 .. ShortMax), s # <<>>
  PROVE  /\ Loudest(s) \in 0 .. ShortMax
         /\ \A k \in 1 .. Len(s) : s[k] <= Loudest(s)
<1> DEFINE T == ToSet(s)
           D == {ShortMax - v : v \in T}
<1>1. /\ T \subseteq 0 .. ShortMax /\ s[1] \in T /\ ShortMax \in Nat
      /\ \A k \in 1 .. Len(s) : s[k] \in T
  <2>1. Len(s) \in Nat \ {0} /\ DOMAIN s = 1 .. Len(s)
    BY LenProperties, EmptySeq
  <2>2. ShortMax \in Nat
    BY MicAssumption
  <2> QED  BY <2>1, <2>2 DEF ToSet
<1> HIDE DEF T
<1>2. D \subseteq Nat /\ D # {}
  BY <1>1
<1>3. PICK x \in D : \A y \in D : ~(<<y, x>> \in OpToRel(<, Nat))
  <2> HIDE DEF D
  <2> QED  BY <1>2, NatLessThanWellFounded, WFMin
<1>4. \A y \in D : ~(y < x)
  <2>1. \A y \in D : <<y, x>> \in Nat \X Nat /\ <<y, x>>[1] = y /\ <<y, x>>[2] = x
    BY <1>2
  <2> HIDE DEF D
  <2> QED  BY <1>3, <2>1 DEF OpToRel
<1>5. PICK v \in T : x = ShortMax - v
  BY <1>3
<1>6. \A w \in T : w <= v
  <2> SUFFICES ASSUME NEW w \in T PROVE w <= v
    OBVIOUS
  <2>1. ~(ShortMax - w < ShortMax - v)
    BY <1>4, <1>5
  <2> QED  BY <1>1, <2>1
<1>7. Loudest(s) \in T /\ \A w \in T : w <= Loudest(s)
  BY <1>6 DEF Loudest, T
<1> QED  BY <1>1, <1>7

\* A value that is not above the maximum is scaled within the full range, and
\* stays what it is when cut to sixteen bits.
LEMMA ScaledInRange ==
  ASSUME NEW top \in Nat, NEW v \in 0 .. top
  PROVE  Scaled(v, top) \in 0 .. Full
<1> DEFINE d == IF top = 0 THEN 1 ELSE top
           q == (Full * v) \div d
           r == (Full * v) % d
<1>1. /\ Full \in Nat /\ ShortMax \in Nat /\ Full <= ShortMax /\ d \in Nat \ {0}
      /\ v \in Nat /\ v <= d
  <2>1. /\ Full \in Nat /\ ShortMax \in Nat /\ Full <= ShortMax
    BY MicAssumption
  <2>2. d \in Nat \ {0} /\ v \in Nat /\ v <= d
    OBVIOUS
  <2> QED  BY <2>1, <2>2
<1>2. Full * v \in Nat /\ Full * v <= Full * d
  <2>1. Full * (d - v) >= 0 /\ Full * (d - v) = Full * d - Full * v
    BY <1>1
  <2> QED  BY <1>1, <2>1
<1> HIDE DEF d
<1>3. q \in Int /\ r \in 0 .. d - 1 /\ Full * v = d * q + r
  BY <1>1, <1>2
<1> DEFINE m == Full * v
<1>4. m \in Nat /\ m <= Full * d /\ m = d * q + r
  BY <1>2, <1>3
<1> HIDE DEF q, r, m
<1>5. q >= 0
  <2> SUFFICES ASSUME q <= -1 PROVE FALSE
    BY <1>3
  <2>1. d * (-1 - q) >= 0 /\ d * (-1 - q) = -d - d * q
    BY <1>1, <1>3
  <2> QED  BY <1>1, <1>3, <1>4, <2>1
<1>6. q <= Full
  <2> SUFFICES ASSUME q >= Full + 1 PROVE FALSE
    BY <1>1, <1>3
  <2>1. d * (q - Full - 1) >= 0 /\ d * (q - Full - 1) = d * q - Full * d - d
    BY <1>1, <1>3
  <2> QED  BY <1>1, <1>3, <1>4, <2>1
<1>7. Short(q) = q
  <2>1. q + ShortMax + 1 \in 0 .. 2 * (ShortMax + 1) - 1
    BY <1>1, <1>3, <1>5, <1>6
  <2> DEFINE n == 2 * (ShortMax + 1)
             i == q + ShortMax + 1
  <2>2. n \in Nat \ {0} /\ i \in 0 .. n - 1
    BY <1>1, <2>1
  <2> HIDE DEF n, i
  <2>3. i % n = i
    BY <2>2
  <2> QED  BY <1>1, <1>3, <2>3 DEF Short, n, i
<1>8. Scaled(v, top) = Short(q)
  BY DEF Scaled, q, d
<1> QED  BY <1>1, <1>3, <1>5, <1>6, <1>7, <1>8

\* Samples are loudnesses, and the maximum the gain is taken from is at most half
\* of the loudest peak there ever was.
GainInv ==
  /\ ring \in [0 .. Ring - 1 -> 0 .. ShortMax] /\ copied \in Seq(0 .. ShortMax)
  /\ micMax \in Nat /\ absoluteMax \in Nat /\ windowPeak \in Nat
  /\ 2 * micMax <= absoluteMax

LEMMA GainStep == MicInv /\ GainInv /\ [MicNext]_mic => GainInv'
<1> SUFFICES ASSUME MicInv, GainInv, [MicNext]_mic PROVE GainInv'
  OBVIOUS
<1>1. CASE Callback
  BY <1>1 DEF Callback, GainInv
<1>2. CASE Write
  <2>1. PICK v \in Loudness : ring' = [ring EXCEPT ![writePos] = v]
    BY <1>2 DEF Write
  <2>2. v \in 0 .. ShortMax
    BY MicAssumption
  <2>3. UNCHANGED <<copied, micMax, absoluteMax, windowPeak>>
    BY <1>2 DEF Write
  <2> QED  BY <2>1, <2>2, <2>3 DEF GainInv
<1>3. CASE Lock
  <2>1. (writePos - Window) % Ring \in 0 .. Ring - 1
    BY MicAssumption DEF MicInv, MicTyped
  <2>2. /\ copied' = <<ring[(writePos - Window) % Ring]>>
        /\ UNCHANGED <<ring, micMax, absoluteMax, windowPeak>>
    BY <1>3 DEF Lock
  <2>3. ring[(writePos - Window) % Ring] \in 0 .. ShortMax
    BY <2>1 DEF GainInv
  <2> QED  BY <2>2, <2>3 DEF GainInv
<1>4. CASE Copy
  <2>1. pos \in 0 .. Ring - 1 /\ copied' = Append(copied, ring[pos])
        /\ UNCHANGED <<ring, micMax, absoluteMax, windowPeak>>
    BY <1>4 DEF Copy, MicInv, MicTyped
  <2>2. ring[pos] \in 0 .. ShortMax
    BY <2>1 DEF GainInv
  <2> QED  BY <2>1, <2>2, AppendProperties DEF GainInv
<1>5. CASE Give
  <2>1. copied # <<>>
    BY <1>5, MicAssumption DEF Give
  <2>2. Loudest(copied) \in Nat
    BY <2>1, LoudestIsSample, MicAssumption DEF GainInv
  <2>3. /\ copied' = <<>> /\ UNCHANGED <<ring, micMax, absoluteMax>>
        /\ windowPeak' = IF Loudest(copied) > windowPeak THEN Loudest(copied) ELSE windowPeak
    BY <1>5 DEF Give
  <2> QED  BY <2>2, <2>3 DEF GainInv
<1>6. ASSUME NEW decay \in BOOLEAN, MicIdle(decay) PROVE GainInv'
  <2> DEFINE a == Adjusted(decay)
  <2>1. a \in Nat
    BY DEF GainInv, Adjusted
  <2>2. /\ absoluteMax' = IF a > absoluteMax THEN a ELSE absoluteMax
        /\ micMax' = IF a > absoluteMax' \div 2 THEN absoluteMax' \div 2 ELSE a
        /\ windowPeak' = 0 /\ UNCHANGED <<ring, copied>>
    BY <1>6 DEF MicIdle, Highest, Halved
  <2> HIDE DEF a
  <2>3. absoluteMax' \in Nat
    BY <2>1, <2>2 DEF GainInv
  <2> DEFINE h == absoluteMax' \div 2
  <2>5. h \in Nat /\ 2 * h <= absoluteMax'
    <3> DEFINE t == absoluteMax'
    <3>1. t \in Nat
      BY <2>3
    <3> HIDE DEF t
    <3>2. t \div 2 \in Nat /\ 2 * (t \div 2) <= t
      BY <3>1
    <3> QED  BY <3>2 DEF t
  <2>6. micMax' = IF a > h THEN h ELSE a
    BY <2>2
  <2> HIDE DEF h
  <2>4. micMax' \in Nat /\ 2 * micMax' <= absoluteMax'
    BY <2>1, <2>3, <2>5, <2>6
  <2> QED  BY <2>2, <2>3, <2>4 DEF GainInv
<1>7. CASE UNCHANGED mic
  BY <1>7 DEF mic, GainInv
<1> QED  BY <1>1, <1>2, <1>3, <1>4, <1>5, <1>6, <1>7 DEF MicNext

LEMMA GainInvariant == MicSpec => [](MicInv /\ GainInv)
<1>1. MicInit => GainInv
  BY MicAssumption DEF MicInit, GainInv
<1> QED  BY <1>1, MicInitial, MicStep, GainStep, PTL DEF MicSpec

\* What getSample returns of a sample that is not above the maximum it is scaled by.
QuietNormalised ==
  Give => \A k \in 1 .. Window : copied[k] <= micMax => given'[k] \in 0 .. Full

\* Samples that are not above the maximum are normalised as the code says, with
\* any gain the microphone reaches: only a louder one can turn over.
THEOREM QuietIsNormalised == MicSpec => [][QuietNormalised]_mic
<1>1. MicInv /\ GainInv /\ [MicNext]_mic => [QuietNormalised]_mic
  <2> SUFFICES ASSUME GainInv, Give, NEW k \in 1 .. Window, copied[k] <= micMax
               PROVE  given'[k] \in 0 .. Full
    BY DEF QuietNormalised
  <2>1. given'[k] = Scaled(copied[k], micMax) /\ Len(copied) = Window
    BY DEF Give
  <2>2. copied[k] \in 0 .. ShortMax /\ micMax \in Nat
    <3>1. copied \in Seq(0 .. ShortMax) /\ k \in 1 .. Len(copied)
      BY <2>1 DEF GainInv
    <3>2. copied[k] \in 0 .. ShortMax
      BY <3>1, ElementOfSeq
    <3> QED  BY <3>2 DEF GainInv
  <2>3. copied[k] \in 0 .. micMax
    BY <2>2
  <2> QED  BY <2>1, <2>2, <2>3, ScaledInRange
<1> QED  BY <1>1, GainInvariant, PTL DEF MicSpec

\* The maximum is at most half of the loudest peak there ever was, whatever is
\* captured: a sample as loud as that one is never within what is normalised.
THEOREM LoudestNeverFits == MicSpec => [](2 * micMax <= absoluteMax)
<1>1. GainInv => 2 * micMax <= absoluteMax
  BY DEF GainInv
<1> QED  BY <1>1, GainInvariant, PTL
=============================================================================
