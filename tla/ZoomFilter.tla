------------------------------- MODULE ZoomFilter -------------------------------
(***************************************************************************)
(* The displacement filter of Goom (Goom/filters.c), one call of           *)
(* zoomFilterFastRGB per step.                                             *)
(*                                                                         *)
(* The filter keeps three displacement tables: brutS (source) and brutD    *)
(* (destination), which the kernel interpolates or selects between, and    *)
(* brutT, the table under construction, generated a stripe per frame.  A   *)
(* table row is abstracted to the FRAME its entries are expressed in: the  *)
(* plain plane, or the plane folded by a kaleidoscope (number of sectors,  *)
(* angle, apex).  Two rows may be interpolated only in the same frame.     *)
(***************************************************************************)
EXTENDS Integers

CONSTANTS
  Configs,      \* zoom configurations the engine can deliver (ZoomFilterData)
  NoConfig,     \* zf = NULL
  Heights,      \* resolutions, named by their number of rows
  Styles,       \* values of "Fold Transition": 0 linear, 1 and 2 the wipes
  WipeParams,   \* values of the parameter "Wipe Frames"
  PlainDiv,     \* rows per frame of an unfolded build is resy / PlainDiv (16)
  FoldDiv,      \* rows per frame of a folded build is resy / FoldDiv (64)
  Mask,         \* BUFFPOINTMASK, the ratio at which brutD alone is shown
  Switches,     \* the pairs <<switchIncr, switchMult is not 1>>
  ChaseDen      \* switchMultAmount is (ChaseDen - 1) / ChaseDen (30)

ConfigSpace == [effect : BOOLEAN, n : Nat, angle : Nat, mid : Int]

ASSUME ConfigAssumption == Configs \subseteq ConfigSpace /\ NoConfig \notin Configs
ASSUME HeightAssumption == Heights \subseteq Nat \ {0}
ASSUME ParamAssumption  == /\ Styles \subseteq 0 .. 2 /\ WipeParams \subseteq Nat
                           /\ Switches \subseteq Nat \X BOOLEAN
ASSUME NumberAssumption == /\ PlainDiv \in Nat \ {0} /\ FoldDiv \in Nat \ {0}
                           /\ Mask \in Nat \ {0}     /\ ChaseDen \in Nat \ {0}

VARIABLES
  data,         \* the filter's state, ZoomFilterFXWrapperData
  drawn         \* what the last kernel call was given

vars == <<data, drawn>>

-----------------------------------------------------------------------------
(* Frames and tables.                                                      *)

Plain == [n |-> 0, angle |-> 0, mid |-> 0]
Torn  == [n |-> -1, angle |-> 0, mid |-> 0]   \* entries of no single frame

FoldFrame(n, angle, mid) == [n |-> n, angle |-> angle, mid |-> mid]

Frames == [n : Int, angle : Nat, mid : Int]

\* The frame of the configuration in force, and the one the tables were
\* last committed to.
LiveFolded(d) == d.effect /\ d.n > 0
LiveFrame(d)  == IF LiveFolded(d) THEN FoldFrame(d.n, d.angle, d.mid) ELSE Plain
GaugeFrame(d) == IF d.gauge.active
                   THEN FoldFrame(d.gauge.n, d.gauge.angle, d.gauge.mid) ELSE Plain

Rows(d)        == 0 .. (d.rows - 1)
Uniform(d, fr) == [r \in Rows(d) |-> fr]
NoTable        == [r \in {} |-> Plain]

\* brutS + (brutD - brutS) * buffratio, row by row.
Lerp(d, r) ==
  CASE d.S[r] = d.D[r]    -> d.S[r]
    [] d.buffratio = 0    -> d.S[r]
    [] d.buffratio = Mask -> d.D[r]
    [] OTHER              -> Torn

-----------------------------------------------------------------------------
(* The phases of zoomFilterFastRGB, in the order of the code.              *)

CommitGauge(d) ==
  [d EXCEPT !.gauge = [active |-> LiveFolded(d), n |-> d.n,
                       angle |-> d.angle, mid |-> d.mid]]

\* wipeComplete: both tables become brutD read at the folded point.
WipeComplete(d) ==
  LET converged == Uniform(d, FoldFrame(d.n, d.angle, d.mid))
  IN  CommitGauge([d EXCEPT !.wipeActive = FALSE, !.buffratio = Mask,
                            !.sweepValid = FALSE,
                            !.S = converged, !.D = converged])

\* A change of size frees the tables and recentres the live configuration.
Resize(d, h) ==
  IF d.rows = h THEN d
  ELSE [d EXCEPT !.rows = h, !.mid = h \div 2, !.mustInit = TRUE,
                 !.S = NoTable, !.D = NoTable, !.T = NoTable]

\* The number of sectors and the angle after the delivery of zf.
NextFold(d, zf) ==
  IF ~zf.effect THEN <<0, 0>>
  ELSE IF zf.n # d.n \/ zf.angle # d.angle
         THEN <<IF zf.n = 0 THEN 4 ELSE zf.n, zf.angle>>
         ELSE <<d.n, d.angle>>

ClampFrames(f) == IF f < 2 THEN 2 ELSE IF f > 120 THEN 120 ELSE f

\* Bug: a wipe is armed from one fold to the next.
ArmAnyFold(c, zf, fold, style) == IF zf.effect /\ fold[1] > 0 THEN style ELSE 0

\* A wipe is armed when a fold starts, if the style asks for one.
Arm(c, zf, fold, style) ==
  IF ~c.effect /\ zf.effect /\ fold[1] > 0 THEN style ELSE 0

\* The configuration zf is put in force and its build starts.
Taken(c, zf, style, frames) ==
  LET fold == NextFold(c, zf)
  IN  [c EXCEPT !.effect = zf.effect, !.n = fold[1], !.angle = fold[2],
                !.mid = zf.mid, !.interlace = 0,
                !.wipeMode = Arm(c, zf, fold, style),
                !.wipeFrames = ClampFrames(frames)]

\* Bug: a delivery during a wipe does not force it to its end.
AcceptDuringWipe(d, zf, style, frames) ==
  IF zf = NoConfig \/ d.interlace # -2 THEN d ELSE Taken(d, zf, style, frames)

\* A configuration is taken only when no table is being built; a wipe in
\* progress is first forced to its end.
Accept(d, zf, style, frames) ==
  IF zf = NoConfig \/ d.interlace # -2 THEN d
  ELSE Taken(IF d.wipeActive THEN WipeComplete(d) ELSE d, zf, style, frames)

\* Bug: a step of no row at all.
StripeWithoutMinimum(d, step) ==
  LET incr == step
      last == IF d.rows > d.interlace + incr THEN d.interlace + incr ELSE d.rows
  IN  [d EXCEPT !.T = [r \in Rows(d) |-> IF r \in d.interlace .. (last - 1)
                                           THEN LiveFrame(d) ELSE d.T[r]],
                !.interlace = IF last >= d.rows THEN -1 ELSE d.interlace + incr]

\* makeZoomBufferStripe: the next rows of brutT, -1 once all are there.
Stripe(d, step) ==
  LET incr == IF step < 1 THEN 1 ELSE step
      last == IF d.rows > d.interlace + incr THEN d.interlace + incr ELSE d.rows
  IN  [d EXCEPT !.T = [r \in Rows(d) |-> IF r \in d.interlace .. (last - 1)
                                           THEN LiveFrame(d) ELSE d.T[r]],
                !.interlace = IF last >= d.rows THEN -1 ELSE d.interlace + incr]

\* Bug: the tables rebuilt after a change of size are said to be in service.
InitBuffersInService(d) ==
  IF ~d.mustInit THEN d
  ELSE LET fresh == [d EXCEPT !.mustInit = FALSE, !.wipeActive = FALSE,
                              !.sweepValid = FALSE, !.buffratio = 0,
                              !.T = Uniform(d, Plain), !.interlace = 0]
           built == Stripe(fresh, fresh.rows)
       IN  [built EXCEPT !.S = built.T, !.D = built.T, !.interlace = -2]

\* After a change of size (and on the first call) the tables are built whole.
InitBuffers(d) ==
  IF ~d.mustInit THEN d
  ELSE LET fresh == [d EXCEPT !.mustInit = FALSE, !.wipeActive = FALSE,
                              !.sweepValid = FALSE, !.buffratio = 0,
                              !.T = Uniform(d, Plain), !.interlace = 0]
           built == Stripe(fresh, fresh.rows)
       IN  [built EXCEPT !.S = built.T, !.D = built.T]

\* Bug: the projection of a fold that stops is not undone.
RegaugeTowardsFold(d) ==
  /\ ~d.wipeActive /\ d.wipeMode = 0 /\ LiveFolded(d)
  /\ ~d.gauge.active \/ d.gauge.n # d.n \/ d.gauge.angle # d.angle

\* Must the old state be re-expressed in the target's frame?
Regauge(d) ==
  /\ ~d.wipeActive /\ d.wipeMode = 0
  /\ IF LiveFolded(d)
       THEN ~d.gauge.active \/ d.gauge.n # d.n \/ d.gauge.angle # d.angle
       ELSE d.gauge.active

\* Towards a fold the state is read at the folded point; away from it the
\* projection of the committed gauge is undone, which is right only on rows
\* that are in that gauge.
Resample(d, fr) ==
  IF ~Regauge(d) THEN fr
  ELSE IF LiveFolded(d) THEN LiveFrame(d)
  ELSE IF fr = GaugeFrame(d) THEN Plain
  ELSE Torn

\* Bug: the finished table stays in brutT.
BakeKeepsTable(d) ==
  [d EXCEPT !.S = [r \in Rows(d) |-> Resample(d, Lerp(d, r))], !.buffratio = 0,
            !.interlace = -2]

\* The state shown becomes brutS, the finished table becomes brutD.
Bake(d) ==
  [d EXCEPT !.S = [r \in Rows(d) |-> Resample(d, Lerp(d, r))], !.buffratio = 0,
            !.D = d.T, !.T = d.D, !.interlace = -2]

\* A finished table goes into service: an armed wipe starts, or the gauge of
\* the configuration in force is committed.
Swap(d) ==
  CASE d.interlace # -1                   -> d
    [] d.interlace = -1 /\ d.wipeMode # 0 ->
         [Bake(d) EXCEPT !.wipeActive = TRUE, !.wipeK = 0, !.wipeMode = 0]
    [] d.interlace = -1 /\ d.wipeMode = 0 ->
         IF d.wipeActive THEN Bake(d) ELSE CommitGauge(Bake(d))

Build(d) ==
  IF d.interlace >= 0
    THEN Stripe(d, IF d.effect THEN d.rows \div FoldDiv ELSE d.rows \div PlainDiv)
    ELSE d

\* switchIncr, capped, then switchMult when it is not 1.
Ramp(d, switch) ==
  LET sum    == d.buffratio + switch[1]
      capped == IF sum > Mask THEN Mask ELSE sum
      ratio  == IF switch[2] THEN (Mask + capped * (ChaseDen - 1)) \div ChaseDen
                ELSE capped
  IN  IF d.wipeActive THEN d ELSE [d EXCEPT !.buffratio = ratio]

Kernel(d) ==
  [wipe |-> d.wipeActive, k |-> d.wipeK, frames |-> d.wipeFrames,
   torn |-> ~d.wipeActive /\ \E r \in Rows(d) : Lerp(d, r) = Torn]

\* Bug: the wipe does not count its frames.
SettleWithoutCount(d) ==
  LET ended == IF d.wipeActive /\ d.wipeK >= d.wipeFrames THEN WipeComplete(d) ELSE d
  IN  [ended EXCEPT !.sweepValid = TRUE]

\* After the kernel: the wipe counts its frame and ends on the last one.
Settle(d) ==
  LET counted == [d EXCEPT !.wipeK = @ + 1]
      ended   == IF ~d.wipeActive THEN d
                 ELSE IF counted.wipeK >= d.wipeFrames THEN WipeComplete(counted)
                 ELSE counted
  IN  [ended EXCEPT !.sweepValid = TRUE]

-----------------------------------------------------------------------------
(* zoomFilterVisualFXWrapper_init: no table yet, no fold, the mirrors of a *)
(* four-sector fold precomputed.                                           *)
InitData ==
  [rows |-> 0, S |-> NoTable, D |-> NoTable, T |-> NoTable, mustInit |-> TRUE,
   effect |-> FALSE, n |-> 4, angle |-> 0, mid |-> 0,
   gauge |-> [active |-> FALSE, n |-> 0, angle |-> 0, mid |-> 0],
   interlace |-> -2, buffratio |-> 0, sweepValid |-> FALSE, wipeActive |-> FALSE,
   wipeMode |-> 0, wipeK |-> 0, wipeFrames |-> 20]

Init == /\ data = InitData
        /\ drawn = [wipe |-> FALSE, k |-> 0, frames |-> 20, torn |-> FALSE]

\* One call with the "Enabled" parameter set (a disabled filter returns at once).
\* style and frames are the parameters "Fold Transition" and "Wipe Frames".
\* Each \E names the one value a phase computes.
Frame(zf, h, style, frames, switch) ==
  \E sized \in {Resize(data, h)} :
  \E taken \in {Accept(sized, zf, style, frames)} :
  \E ready \in {InitBuffers(taken)} :
  \E built \in {Build(Swap(ready))} :
  \E ramped \in {Ramp(built, switch)} :
    data' = Settle(ramped) /\ drawn' = Kernel(ramped)

Next ==
  \E zf \in Configs \cup {NoConfig}, h \in Heights, style \in Styles,
     frames \in WipeParams, switch \in Switches :
       Frame(zf, h, style, frames, switch)

Spec == Init /\ [][Next]_vars

\* The display loop keeps calling the filter; that it delivers a configuration
\* or a new size is not asked.
Call == /\ data.rows > 0
        /\ \E style \in Styles, frames \in WipeParams, switch \in Switches :
             Frame(NoConfig, data.rows, style, frames, switch)

FairSpec == Spec /\ WF_vars(Call)

-----------------------------------------------------------------------------
(* Properties.                                                             *)

Gauges == [active : BOOLEAN, n : Nat, angle : Nat, mid : Int]

\* The type invariant: the three tables are NULL together before the first
\* call and have one frame per row after it.
TypeOK ==
  /\ data \in [rows : {0} \cup Heights, mustInit : BOOLEAN, effect : BOOLEAN,
               n : Nat, angle : Nat, mid : Int, gauge : Gauges,
               interlace : Int, buffratio : 0 .. Mask,
               sweepValid : BOOLEAN, wipeActive : BOOLEAN,
               wipeMode : 0 .. 2, wipeK : Nat, wipeFrames : 2 .. 120,
               S : [Rows(data) -> Frames], D : [Rows(data) -> Frames],
               T : [Rows(data) -> Frames]]
  /\ drawn \in [wipe : BOOLEAN, k : Nat, frames : 2 .. 120, torn : BOOLEAN]
  /\ data.mustInit <=> data.rows = 0
  /\ data.interlace \in {-2, -1} \cup Rows(data)

\* brutS and brutD sample in one gauge, the committed one, outside a wipe:
\* "brutS et brutD doivent echantillonner dans le meme referentiel".
GaugeCoherent ==
  data.rows > 0 /\ ~data.wipeActive =>
    \A r \in Rows(data) : data.S[r] = GaugeFrame(data) /\ data.D[r] = GaugeFrame(data)

\* No frame shown to the user interpolates rows of two different gauges.
NoTornFrame == ~drawn.torn

\* During a wipe no table is being built, no gauge is committed, and brutD is
\* the complete map of the fold in force: nothing is shown but the two maps.
WipeTargetWhole ==
  data.wipeActive =>
    /\ data.interlace = -2 /\ LiveFolded(data) /\ ~data.gauge.active
    /\ data.D = Uniform(data, LiveFrame(data))

\* ... and brutS is one complete map: the old unfolded one or, when the wipe
\* was armed by the very first delivery, the new one already.
WipeSourceWhole ==
  data.wipeActive => data.S = data.D \/ data.S = Uniform(data, Plain)

\* A table put into service is whole: when no build is in progress every row
\* of brutD, the last one included, is of the configuration in force.
TableWhole ==
  data.interlace = -2 /\ data.rows > 0 =>
    \A r \in Rows(data) : data.D[r] = LiveFrame(data)

\* The rows already built are all of one configuration, the one in force:
\* no delivery changes it under the builder.
BuiltRows(d) == IF d.interlace = -1 THEN Rows(d) ELSE 0 .. (d.interlace - 1)

StripesOfOneConfig ==
  data.rows > 0 => \A r \in BuiltRows(data) : data.T[r] = LiveFrame(data)

\* An armed wipe waits for the map of a fold, from a state without a fold; it
\* is armed only while that map is being built, and never beside another wipe.
WipeArmed ==
  data.wipeMode # 0 =>
    data.interlace # -2 /\ ~data.wipeActive /\ LiveFolded(data) /\ ~data.gauge.active

\* Between builds, outside a wipe, the committed gauge is the frame of the
\* configuration in force.
GaugeCommitted ==
  data.interlace = -2 /\ ~data.wipeActive => GaugeFrame(data) = LiveFrame(data)

\* A delivery is never lost in a build that does not end: the table of the
\* configuration in force is eventually the one shown.
BuildEnds ==
  data.interlace # -2 ~>
    data.interlace = -2 /\ \A r \in Rows(data) : data.D[r] = LiveFrame(data)

\* Every wipe ends: by itself, by the next delivery or by a change of size.
WipeEnds == data.wipeActive ~> ~data.wipeActive
=============================================================================
