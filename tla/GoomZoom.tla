-------------------------------- MODULE GoomZoom --------------------------------
(***************************************************************************)
(* The part of goom_update (Goom/goom_core.c) that decides which zoom      *)
(* configuration reaches the displacement filter and when, composed with   *)
(* that filter.  One Update step is one call of goom_update: the fold is   *)
(* drawn, forced or set by hand, a goom moves the apex and re-sectors the  *)
(* fold, one of several conditions delivers the configuration, freeze and  *)
(* the manual mode have their say, and the filter runs.                    *)
(*                                                                         *)
(* Speeds, planes and the choice of the base mode are data no property     *)
(* tells apart: the conditions on them are inputs of the step.             *)
(***************************************************************************)
EXTENDS ZoomFilter

CONSTANTS
  FoldCounts,   \* kaleidoFoldCounts
  Angles,       \* angles of the first mirror a draw can give
  ParamSets,    \* values of the writable zoom parameters
  ForceModes,   \* values of the forceMode argument: -1 none, 0 free, 1 forced
  TimeBtwChg,   \* TIME_BTW_CHG (300)
  Locks,        \* frames a goom locks for: 50, 75 back to forward, 100 to reverse
  LockMore,     \* added when the zoom accelerates or crawls (50)
  LongLock      \* a lock beyond which the switch is a plain ramp (150)

ASSUME EngineAssumption ==
  /\ FoldCounts \subseteq 2 .. 25 /\ Angles \subseteq Nat \ {0}
  /\ ParamSets \subseteq [freeze : BOOLEAN, manual : BOOLEAN, mode : 0 .. 2,
                          n : 2 .. 16, angle : Nat, style : Styles]
  /\ ForceModes \subseteq {-1, 0, 1} /\ TimeBtwChg \in Nat
  /\ Locks \subseteq Nat \ {0} /\ LockMore \in Nat /\ LongLock \in Nat

\* The configurations the engine composes, and so those it may deliver: the
\* angle is drawn or set by hand, the apex is at an edge or in the middle.
Composed == [effect : BOOLEAN, n : 2 .. 25,
             angle : {0} \cup Angles \cup {p.angle : p \in ParamSets},
             mid : {1} \cup UNION {{h - 1, h \div 2} : h \in Heights}]

ASSUME ComposedAssumption == Composed \subseteq Configs

VARIABLES
  screen,       \* goomInfo->screen, named by its height
  params,       \* the parameters, written by the control server and the UI
  zfd,          \* update.zoomFilterData, the configuration being composed
  lockvar,      \* frames during which a goom changes nothing
  sinceChange,  \* update.cyclesSinceLastChange
  manual,       \* update.kaleidoManualOn / N / Angle: what was last delivered
  switch        \* update.switchIncr and switchMult

engine == <<screen, params, zfd, lockvar, sinceChange, manual, switch>>
gvars  == <<vars, engine>>

-----------------------------------------------------------------------------
Centre  == screen \div 2
Middles == {1, screen - 1, Centre}

\* Bug: the fold that starts is not recentred before the next goom.
KaleidoDrawsInPlace(z) ==
  {z} \cup
  (IF params.manual THEN {}
   ELSE IF z.effect THEN {[z EXCEPT !.effect = FALSE]}
   ELSE {[effect |-> TRUE, n |-> n, angle |-> a, mid |-> z.mid] :
           n \in FoldCounts, a \in Angles})

\* The draw that starts or stops a fold, at each opening of the window.
KaleidoDraws(z) ==
  {z} \cup
  (IF params.manual THEN {}
   ELSE IF z.effect THEN {[z EXCEPT !.effect = FALSE]}
   ELSE {[effect |-> TRUE, n |-> n, angle |-> a, mid |-> Centre] :
           n \in FoldCounts, a \in Angles})

\* The parameter "Kaleido": 0 off, 1 automatic (where manual counts), 2 on.
Forced(z) ==
  CASE params.mode = 0 -> [z EXCEPT !.effect = FALSE]
    [] params.mode = 2 -> [z EXCEPT !.effect = TRUE]
    [] params.mode = 1 /\ params.manual ->
         [z EXCEPT !.effect = TRUE, !.n = params.n, !.angle = params.angle]
    [] OTHER -> z

\* Re-sectorisation: the drawn number of sectors, kept within [cur/2, 2 cur].
ResectorN(cur, drawn_n) ==
  CASE cur < 2                             -> cur
    [] cur >= 2 /\ drawn_n * 2 <= cur      -> cur \div 2
    [] cur >= 2 /\ drawn_n >= cur * 2      -> cur * 2
    [] OTHER                               -> drawn_n

NearAngles(cur) == IF cur = 0 THEN Angles ELSE {a \in Angles : a \in cur - 1 .. cur + 1}

\* Bug: a goom moves the apex under a fold too.
GoomDrawsOffCentre(z) ==
  IF ~z.effect \/ params.manual THEN {[z EXCEPT !.mid = m] : m \in Middles}
  ELSE {[z EXCEPT !.mid = m, !.n = ResectorN(z.n, n), !.angle = a] :
          m \in Middles, n \in FoldCounts, a \in NearAngles(z.angle)}

\* What a goom outside a lock does to the configuration: a new apex, the
\* middle of the screen under a fold, and a neighbouring fold.
GoomDraws(z) ==
  IF ~z.effect THEN {[z EXCEPT !.mid = m] : m \in Middles}
  ELSE IF params.manual THEN {[z EXCEPT !.mid = Centre]}
  ELSE {[z EXCEPT !.mid = Centre, !.n = ResectorN(z.n, n), !.angle = a] :
          n \in FoldCounts, a \in NearAngles(z.angle)}

\* The lock is doubled when noise is drawn, longer when the zoom accelerates.
GoomLocks(accel) ==
  {base * times + (IF accel THEN LockMore ELSE 0) : base \in Locks, times \in {1, 2}}

Amounts == {s \in Switches : ~s[2]}
Chases  == {s \in Switches : s[2]}

-----------------------------------------------------------------------------
EngineInit ==
  /\ Init
  /\ screen \in Heights
  /\ params \in ParamSets
  /\ zfd = [effect |-> FALSE, n |-> 4, angle |-> 0, mid |-> 1]
  /\ lockvar = 0 /\ sinceChange = 0
  /\ manual = [on |-> FALSE, n |-> -1, angle |-> 0]
  /\ switch \in Amounts

\* A parameter is written between two frames.
SetParams == /\ params' \in ParamSets
             /\ UNCHANGED <<vars, screen, zfd, lockvar, sinceChange, manual, switch>>

\* goom_set_resolution: the configuration being composed keeps its apex.
SetResolution == /\ screen' \in Heights
                 /\ UNCHANGED <<vars, params, zfd, lockvar, sinceChange, manual, switch>>

\* The manual mode delivers when the mode is switched on or its fold changes.
ManualChange == /\ params.manual
                /\ \/ ~manual.on
                   \/ manual.n # params.n \/ manual.angle # params.angle

ManualNext ==
  manual' = CASE ManualChange    -> [on |-> TRUE, n |-> params.n, angle |-> params.angle]
              [] ~params.manual  -> [manual EXCEPT !.on = FALSE]
              [] OTHER           -> manual

\* Bug: in the manual mode the configuration is delivered on a change only.
DeliveredOnChange(z, wanted) == IF ManualChange THEN z ELSE NoConfig

\* The configuration the filter receives, after the freeze and the manual mode.
Delivered(z, wanted) ==
  IF ManualChange \/ (wanted /\ ~params.freeze) THEN z ELSE NoConfig

\* No configuration was delivered for a long time.
Aged == sinceChange > TimeBtwChg

\* One frame.  goom: a goom was detected; force: the forceMode argument;
\* accel, trim, slow: the conditions on the speeds that deliver the
\* configuration.  The switch of a delivery depends on the gooms of late.
Update(goom, force, accel, trim, slow) ==
  LET unlocked == lockvar <= 1
      window   == goom \/ force > 0 \/ Aged
  IN \E drawn_z \in IF window THEN KaleidoDraws(zfd) ELSE {zfd} :
     \E forced \in {Forced(drawn_z)} :
     \E z \in IF unlocked /\ goom THEN GoomDraws(forced) ELSE {forced} :
     \E lock \in IF unlocked /\ goom THEN GoomLocks(accel)
                 ELSE {IF unlocked THEN 0 ELSE lockvar - 1} :
       LET asked == /\ force # -1
                    /\ \/ unlocked /\ goom /\ accel
                       \/ unlocked /\ slow
                       \/ trim \/ force > 0
       IN /\ zfd' = z
          /\ lockvar' = IF unlocked /\ slow THEN lock + LockMore ELSE lock
          /\ sinceChange' = IF asked \/ Aged THEN 0 ELSE sinceChange + 1
          /\ switch' \in IF asked
                           THEN IF force > 0 THEN Chases
                                ELSE IF goom THEN Switches ELSE Amounts
                           ELSE IF unlocked /\ (slow \/ (goom /\ lock > LongLock))
                                  THEN Amounts ELSE {switch}
          /\ ManualNext
          /\ \E frames \in WipeParams :
               Frame(Delivered(z, asked \/ Aged), screen, params.style, frames, switch')
          /\ UNCHANGED <<screen, params>>

Tick ==
  \E goom, accel, trim, slow \in BOOLEAN, force \in ForceModes :
    Update(goom, force, accel, trim, slow)

EngineNext == SetParams \/ SetResolution \/ Tick

EngineSpec == EngineInit /\ [][EngineNext]_gvars

\* The display loop calls goom_update for ever.
EngineFair == EngineSpec /\ WF_gvars(Tick)

-----------------------------------------------------------------------------
(* Properties.                                                             *)

\* Every composed fold is around the middle of the screen, for the gauge of
\* the tables ignores the apex: "le pli tourne autour du milieu".
FoldCentred == zfd.effect => zfd.mid = Centre

\* Every fold, composed or in force, has a number of sectors the kernels are
\* dimensioned for.
SectorsLegal == zfd.n \in 2 .. 25 /\ (data.rows > 0 /\ data.effect => data.n \in 2 .. 25)

\* Both, whatever the order of draws, gooms, re-sectorisations ("N dans
\* [N/2, 2N]") and deliveries.
FoldLegal == FoldCentred /\ SectorsLegal

\* In the manual mode the fold follows the parameters: once they stay as they
\* are, the filter comes to show their fold and keeps it.
Shown(p) == /\ data.effect /\ data.n = p.n /\ data.angle = p.angle
            /\ data.interlace = -2
ManualFoldShown ==
  \A p \in ParamSets :
    p.manual => ([]<>(params # p) \/ []<>Shown(p))
=============================================================================
