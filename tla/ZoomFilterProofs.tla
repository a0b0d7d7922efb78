---------------------------- MODULE ZoomFilterProofs ----------------------------
(***************************************************************************)
(* The invariant of the displacement filter, for every canvas, fold, wipe  *)
(* and sequence of calls.  A call is a chain of phases on the record of    *)
(* the filter; there is one lemma per phase: from a record that is Sized   *)
(* (the tables may be missing) or Good (they are there), the phase gives a *)
(* record that is Sized or Good.  FrameGood chains them.                   *)
(***************************************************************************)
EXTENDS ZoomFilter, TLAPS

\* Tables of any height.
Tables == UNION {[0 .. (k - 1) -> Frames] : k \in Nat}

\* The record of the filter, whatever the size of its tables.
Shape ==
  [rows : Nat, mustInit : BOOLEAN, effect : BOOLEAN, n : Nat, angle : Nat,
   mid : Int, gauge : Gauges, interlace : Int, buffratio : 0 .. Mask,
   sweepValid : BOOLEAN, wipeActive : BOOLEAN, wipeMode : 0 .. 2, wipeK : Nat,
   wipeFrames : 2 .. 120, S : Tables, D : Tables, T : Tables]

\* The three tables have the height of the canvas.
Fits(d) == /\ d.S \in [Rows(d) -> Frames]
           /\ d.D \in [Rows(d) -> Frames]
           /\ d.T \in [Rows(d) -> Frames]

\* A wipe, armed or active, is towards a fold and leaves no gauge committed.
Flags(d) ==
  /\ d.wipeActive => d.interlace = -2 /\ LiveFolded(d) /\ ~d.gauge.active
  /\ d.wipeMode # 0 => d.interlace # -2 /\ LiveFolded(d) /\ ~d.gauge.active
  /\ d.interlace = -2 /\ ~d.wipeActive => (d.gauge.active <=> LiveFolded(d))

\* What the tables hold: brutD once in service, brutT as far as it is built.
Core(d) ==
  /\ d.interlace \in {-2, -1} \cup Rows(d)
  /\ d.interlace = -2 => \A r \in Rows(d) : d.D[r] = LiveFrame(d)
  /\ \A r \in BuiltRows(d) : d.T[r] = LiveFrame(d)
  /\ d.interlace = -2 /\ ~d.wipeActive => GaugeFrame(d) = LiveFrame(d)

Sound(d) == d \in Shape /\ d.rows \in Heights /\ Flags(d)

\* Before the tables are known to exist: sound, and good if they do.
Sized(d) == Sound(d) /\ (~d.mustInit => Fits(d) /\ Core(d))

\* The state between two calls, once the tables exist.
Good(d) == Sound(d) /\ ~d.mustInit /\ Fits(d) /\ Core(d)

\* The frame in force and the committed one are frames.
LEMMA LiveFrameType ==
  ASSUME NEW d \in Shape PROVE LiveFrame(d) \in Frames /\ GaugeFrame(d) \in Frames
BY DEF LiveFrame, GaugeFrame, FoldFrame, Plain, Frames, Shape, Gauges

\* A function on the rows of a canvas is a table.
LEMMA TableIntro ==
  ASSUME NEW k \in Nat, NEW f \in [0 .. (k - 1) -> Frames] PROVE f \in Tables
BY DEF Tables

\* switchMult moves the ratio towards BUFFPOINTMASK and never beyond.
LEMMA RatioBounded ==
  ASSUME NEW ratio \in 0 .. Mask
  PROVE  (Mask + ratio * (ChaseDen - 1)) \div ChaseDen \in 0 .. Mask
<1>. DEFINE x == Mask + ratio * (ChaseDen - 1)
<1>1. Mask \in Nat /\ ChaseDen \in Nat \ {0} BY NumberAssumption
<1>2. ratio * (ChaseDen - 1) \in Nat BY <1>1
<1>3. ratio * (ChaseDen - 1) <= Mask * (ChaseDen - 1) BY <1>1
<1>4. Mask * (ChaseDen - 1) = Mask * ChaseDen - Mask BY <1>1
<1>5. x \in Nat /\ x <= Mask * ChaseDen BY <1>1, <1>2, <1>3, <1>4
<1>. HIDE DEF x
<1>6. x \div ChaseDen \in 0 .. Mask BY <1>1, <1>5
<1>. QED BY <1>6 DEF x

\* The ramp of the ratio keeps it within 0 .. BUFFPOINTMASK.
LEMMA RampGood ==
  ASSUME NEW d, Good(d), NEW switch \in Switches
  PROVE  Good(Ramp(d, switch))
<1>. DEFINE sum    == d.buffratio + switch[1]
            capped == IF sum > Mask THEN Mask ELSE sum
            ratio  == IF switch[2] THEN (Mask + capped * (ChaseDen - 1)) \div ChaseDen
                      ELSE capped
<1>1. ratio \in 0 .. Mask
  <2>1. sum \in Nat /\ Mask \in Nat
    BY ParamAssumption, NumberAssumption DEF Good, Sound, Shape
  <2>2. capped \in 0 .. Mask BY <2>1
  <2>. HIDE DEF sum, capped
  <2>. QED BY <2>2, RatioBounded
<1>2. CASE ~d.wipeActive
  <2>1. Ramp(d, switch) = [d EXCEPT !.buffratio = ratio] BY <1>2 DEF Ramp
  <2>. DEFINE e == [d EXCEPT !.buffratio = ratio]
  <2>. HIDE DEF ratio
  <2>2. d \in Shape BY DEF Good, Sound
  <2>3. e \in Shape BY <1>1, <2>2 DEF Shape
  <2>4. /\ e.S = d.S /\ e.D = d.D /\ e.T = d.T /\ e.rows = d.rows
        /\ e.mustInit = d.mustInit /\ e.effect = d.effect /\ e.n = d.n
        /\ e.angle = d.angle /\ e.mid = d.mid /\ e.interlace = d.interlace
        /\ e.wipeActive = d.wipeActive /\ e.wipeMode = d.wipeMode /\ e.gauge = d.gauge
    BY <2>2 DEF Shape
  <2>. HIDE DEF e
  <2>5. Good(e)
    BY <2>3, <2>4 DEF Good, Sound, Flags, Fits, Core, LiveFrame, LiveFolded, GaugeFrame,
       BuiltRows, Rows
  <2>. QED BY <2>1, <2>5 DEF e
<1>3. CASE d.wipeActive BY <1>3 DEF Ramp
<1>. QED BY <1>2, <1>3

\* A stripe extends the built rows of brutT without touching the others, and
\* a stripe as high as the canvas finishes the table.
LEMMA StripeBuilds ==
  ASSUME NEW d, Sound(d), d.T \in [Rows(d) -> Frames], d.interlace \in Rows(d),
         \A r \in 0 .. (d.interlace - 1) : d.T[r] = LiveFrame(d),
         NEW step \in Nat
  PROVE  LET e == Stripe(d, step)
         IN  /\ Sound(e) /\ e.T \in [Rows(e) -> Frames]
             /\ \A r \in BuiltRows(e) : e.T[r] = LiveFrame(e)
             /\ e.interlace = -1 \/ e.interlace \in Rows(e)
             /\ step = d.rows => e.interlace = -1
             /\ e.S = d.S /\ e.D = d.D /\ e.rows = d.rows /\ e.mustInit = d.mustInit
             /\ LiveFrame(e) = LiveFrame(d) /\ e.wipeActive = d.wipeActive
             /\ e.gauge = d.gauge /\ e.wipeMode = d.wipeMode
             /\ e.effect = d.effect /\ e.n = d.n /\ e.mid = d.mid
<1>. DEFINE incr == IF step < 1 THEN 1 ELSE step
            last == IF d.rows > d.interlace + incr THEN d.interlace + incr ELSE d.rows
            T    == [r \in Rows(d) |-> IF r \in d.interlace .. (last - 1)
                                         THEN LiveFrame(d) ELSE d.T[r]]
            next == IF last >= d.rows THEN -1 ELSE d.interlace + incr
            e    == Stripe(d, step)
<1>1. e = [d EXCEPT !.T = T, !.interlace = next] BY DEF Stripe
<1>2. d.rows \in Nat \ {0} /\ d.interlace \in 0 .. (d.rows - 1)
  BY HeightAssumption DEF Sound, Rows
<1>3. next = -1 \/ (next \in 1 .. (d.rows - 1) /\ next = last)
  BY <1>2
<1>4. T \in [Rows(d) -> Frames] /\ T \in Tables
  BY <1>2, LiveFrameType, TableIntro DEF Sound, Rows
<1>5. \A r \in (IF next = -1 THEN Rows(d) ELSE 0 .. (next - 1)) : T[r] = LiveFrame(d)
  BY <1>2, <1>3 DEF Rows
<1>6. step = d.rows => next = -1 BY <1>2
<1>7. next \in Int BY <1>2, <1>3
<1>. HIDE DEF T, next, e
<1>8. e \in Shape BY <1>1, <1>4, <1>7 DEF Sound, Shape
<1>9. /\ e.T = T /\ e.interlace = next
      /\ e.S = d.S /\ e.D = d.D /\ e.rows = d.rows /\ e.mustInit = d.mustInit
      /\ e.effect = d.effect /\ e.n = d.n /\ e.angle = d.angle /\ e.mid = d.mid
      /\ e.gauge = d.gauge /\ e.wipeActive = d.wipeActive /\ e.wipeMode = d.wipeMode
  BY <1>1 DEF Sound, Shape
<1>10. Rows(e) = Rows(d) /\ LiveFrame(e) = LiveFrame(d) /\ (LiveFolded(e) <=> LiveFolded(d))
  BY <1>9 DEF Rows, LiveFrame, LiveFolded
<1>11. Sound(e)
  BY <1>2, <1>3, <1>8, <1>9, <1>10 DEF Sound, Flags
<1>12. \A r \in BuiltRows(e) : e.T[r] = LiveFrame(e)
  BY <1>5, <1>9, <1>10 DEF BuiltRows
<1>13. e.interlace = -1 \/ e.interlace \in Rows(e)
  BY <1>2, <1>3, <1>9 DEF Rows
<1>. QED BY <1>4, <1>6, <1>9, <1>10, <1>11, <1>12, <1>13 DEF e

\* A table of one frame is a table of the canvas.
LEMMA UniformTable ==
  ASSUME NEW d, d.rows \in Nat, NEW fr \in Frames
  PROVE  Uniform(d, fr) \in [Rows(d) -> Frames] /\ Uniform(d, fr) \in Tables
BY TableIntro DEF Uniform, Rows

\* The end of a wipe leaves both tables in the gauge it commits.
LEMMA WipeCompleteSized ==
  ASSUME NEW d, Sized(d), d.wipeActive
  PROVE  LET e == WipeComplete(d)
         IN  /\ Sized(e) /\ ~e.wipeActive /\ e.interlace = -2
             /\ e.rows = d.rows /\ e.mustInit = d.mustInit /\ e.effect = d.effect
             /\ LiveFolded(e) /\ e.mid = d.mid
             /\ e.gauge = [active |-> TRUE, n |-> d.n, angle |-> d.angle, mid |-> d.mid]
             /\ \A r \in Rows(e) : e.S[r] = GaugeFrame(e) /\ e.D[r] = GaugeFrame(e)
<1>. DEFINE fr    == FoldFrame(d.n, d.angle, d.mid)
            U     == Uniform(d, fr)
            gauge == [active |-> LiveFolded(d), n |-> d.n, angle |-> d.angle, mid |-> d.mid]
            e     == WipeComplete(d)
<1>1. d \in Shape /\ d.interlace = -2 /\ LiveFolded(d) /\ d.wipeMode = 0
  BY DEF Sized, Sound, Flags
<1>2. fr \in Frames /\ fr = LiveFrame(d)
  BY <1>1 DEF Shape, FoldFrame, Frames, LiveFrame
<1>3. U \in [Rows(d) -> Frames] /\ U \in Tables /\ \A r \in Rows(d) : U[r] = fr
  BY <1>1, <1>2, UniformTable DEF Shape, Uniform
<1>4. gauge \in Gauges
  BY <1>1 DEF Shape, Gauges, LiveFolded
<1>5. e = [d EXCEPT !.wipeActive = FALSE, !.buffratio = Mask, !.sweepValid = FALSE,
                    !.S = U, !.D = U, !.gauge = gauge]
  BY <1>1 DEF WipeComplete, CommitGauge, LiveFolded, Shape
<1>. HIDE DEF fr, U, gauge, e
<1>6. e \in Shape
  <2>1. Mask \in 0 .. Mask BY NumberAssumption
  <2>. DEFINE d0 == [d EXCEPT !.wipeActive = FALSE]
              d1 == [d0 EXCEPT !.buffratio = Mask]
              d2 == [d1 EXCEPT !.sweepValid = FALSE]
              d3 == [d2 EXCEPT !.S = U]
              d4 == [d3 EXCEPT !.D = U]
  <2>2. e = [d4 EXCEPT !.gauge = gauge] BY <1>5
  <2>3. d0 \in Shape
    <3>1. d \in Shape BY <1>1
    <3>2. FALSE \in BOOLEAN OBVIOUS
    <3>. QED BY ONLY <3>1, <3>2 DEF Shape, d0
  <2>. HIDE DEF d0
  <2>4. d1 \in Shape BY <2>1, <2>3 DEF Shape
  <2>. HIDE DEF d1
  <2>5. d2 \in Shape BY <2>4 DEF Shape
  <2>. HIDE DEF d2
  <2>6. d3 \in Shape BY <1>3, <2>5 DEF Shape
  <2>. HIDE DEF d3
  <2>7. d4 \in Shape BY <1>3, <2>6 DEF Shape
  <2>. HIDE DEF d4
  <2>. QED BY <1>4, <2>2, <2>7 DEF Shape
<1>7. /\ e.T = d.T /\ e.D = U /\ e.S = U /\ e.gauge = gauge /\ e.rows = d.rows
      /\ e.mustInit = d.mustInit /\ e.effect = d.effect /\ e.n = d.n /\ e.angle = d.angle
      /\ e.mid = d.mid /\ ~e.wipeActive /\ e.interlace = d.interlace /\ e.wipeMode = d.wipeMode
  BY <1>1, <1>5 DEF Shape
<1>8. Rows(e) = Rows(d) /\ LiveFrame(e) = LiveFrame(d) /\ (LiveFolded(e) <=> LiveFolded(d))
  BY <1>7 DEF Rows, LiveFrame, LiveFolded
<1>9. GaugeFrame(e) = LiveFrame(e) /\ e.gauge.active
  BY <1>1, <1>7, <1>8 DEF GaugeFrame, LiveFrame, gauge
<1>10. Sound(e)
  BY <1>1, <1>6, <1>7, <1>8, <1>9 DEF Sized, Sound, Flags
<1>11. ~d.mustInit => Fits(e) /\ Core(e)
  BY <1>1, <1>2, <1>3, <1>7, <1>8, <1>9 DEF Sized, Fits, Core, BuiltRows
<1>12. \A r \in Rows(e) : e.S[r] = GaugeFrame(e) /\ e.D[r] = GaugeFrame(e)
  BY <1>2, <1>3, <1>7, <1>8, <1>9
<1>13. e.gauge = [active |-> TRUE, n |-> d.n, angle |-> d.angle, mid |-> d.mid]
  BY <1>1, <1>7 DEF gauge, LiveFolded
<1>. QED BY <1>1, <1>7, <1>8, <1>10, <1>11, <1>12, <1>13 DEF Sized, e

\* A delivery either changes nothing, or starts a build and leaves the two
\* tables shown as they are, a wipe in progress being ended first.
LEMMA AcceptSized ==
  ASSUME NEW d, Sized(d), NEW zf \in Configs \cup {NoConfig},
         NEW style \in Styles, NEW frames \in WipeParams
  PROVE  LET e == Accept(d, zf, style, frames)
             c == IF d.wipeActive THEN WipeComplete(d) ELSE d
         IN  /\ Sized(e) /\ e.rows = d.rows /\ e.mustInit = d.mustInit
             /\ \/ e = d
                \/ /\ zf \in Configs /\ d.interlace = -2
                   /\ e.S = c.S /\ e.D = c.D /\ e.gauge = c.gauge
                   /\ e.effect = zf.effect /\ e.mid = zf.mid /\ ~e.wipeActive
<1>1. CASE zf = NoConfig \/ d.interlace # -2
  BY <1>1 DEF Accept
<1>2. CASE zf # NoConfig /\ d.interlace = -2
  <2>. DEFINE c    == IF d.wipeActive THEN WipeComplete(d) ELSE d
              fold == NextFold(c, zf)
              mode == IF ~c.effect /\ zf.effect /\ fold[1] > 0 THEN style ELSE 0
              len  == ClampFrames(frames)
              e    == Accept(d, zf, style, frames)
  <2>1. /\ Sized(c) /\ ~c.wipeActive /\ c.interlace = -2
        /\ c.rows = d.rows /\ c.mustInit = d.mustInit
    BY <1>2, WipeCompleteSized
  <2>2. e = [c EXCEPT !.effect = zf.effect, !.n = fold[1], !.angle = fold[2], !.mid = zf.mid,
                      !.interlace = 0, !.wipeMode = mode, !.wipeFrames = len]
    <3>1. e = Taken(c, zf, style, frames)
      BY <1>2 DEF Accept
    <3>. HIDE DEF c, e
    <3>. QED BY <3>1 DEF Taken, Arm
  <2>. HIDE DEF c, e
  <2>3. c \in Shape /\ c.rows \in Nat \ {0} /\ c.gauge.active = LiveFolded(c)
    BY <2>1, HeightAssumption DEF Sized, Sound, Flags, Shape, Gauges, LiveFolded
  <2>4. zf \in ConfigSpace
    BY <1>2, ConfigAssumption
  <2>5. fold[1] \in Nat /\ fold[2] \in Nat
    BY <2>3, <2>4 DEF NextFold, Shape, ConfigSpace
  <2>6. len \in 2 .. 120
    BY ParamAssumption DEF ClampFrames
  <2>7. mode \in 0 .. 2
    BY ParamAssumption
  <2>8. mode # 0 => ~c.effect /\ zf.effect /\ fold[1] > 0
    OBVIOUS
  <2>. HIDE DEF fold, mode, len
  <2>9. e \in Shape
    <3>. DEFINE c1 == [c EXCEPT !.effect = zf.effect, !.n = fold[1], !.angle = fold[2]]
                c2 == [c1 EXCEPT !.mid = zf.mid]
                c3 == [c2 EXCEPT !.interlace = 0]
    <3>1. c1 \in Shape BY <2>3, <2>4, <2>5 DEF Shape, ConfigSpace
    <3>2. e = [c3 EXCEPT !.wipeMode = mode, !.wipeFrames = len] BY <2>2
    <3>. HIDE DEF c1
    <3>3. zf.mid \in Int BY <2>4 DEF ConfigSpace
    <3>4. c2 \in Shape BY <3>1, <3>3 DEF Shape
    <3>. HIDE DEF c2
    <3>5. c3 \in Shape BY <3>4 DEF Shape
    <3>. HIDE DEF c3
    <3>. QED BY <2>6, <2>7, <3>2, <3>5 DEF Shape
  <2>10. /\ e.S = c.S /\ e.D = c.D /\ e.T = c.T /\ e.rows = c.rows /\ e.mustInit = c.mustInit
         /\ e.effect = zf.effect /\ e.n = fold[1] /\ e.interlace = 0 /\ e.wipeMode = mode
         /\ e.mid = zf.mid
         /\ e.wipeActive = c.wipeActive /\ e.gauge = c.gauge
    BY <2>2, <2>3 DEF Shape
  <2>11. Sound(e)
    BY <2>1, <2>3, <2>4, <2>8, <2>9, <2>10 DEF Sized, Sound, Flags, LiveFolded, ConfigSpace
  <2>12. ~e.mustInit => Fits(e) /\ Core(e)
    BY <2>1, <2>3, <2>10 DEF Sized, Fits, Core, BuiltRows, Rows
  <2>. QED BY <1>2, <2>1, <2>10, <2>11, <2>12 DEF Sized, e, c
<1>. QED BY <1>1, <1>2

\* makeZoomBufferStripe keeps the state good.
LEMMA StripeGood ==
  ASSUME NEW d, Good(d), d.interlace \in Rows(d), NEW step \in Nat
  PROVE  Good(Stripe(d, step))
<1>. DEFINE e == Stripe(d, step)
<1>1. \A r \in 0 .. (d.interlace - 1) : d.T[r] = LiveFrame(d)
  BY DEF Good, Core, BuiltRows, Rows
<1>2. d.T \in [Rows(d) -> Frames] /\ Sound(d)
  BY DEF Good, Fits
<1>3. /\ Sound(e) /\ e.T \in [Rows(e) -> Frames]
      /\ \A r \in BuiltRows(e) : e.T[r] = LiveFrame(e)
      /\ e.interlace = -1 \/ e.interlace \in Rows(e)
      /\ e.S = d.S /\ e.D = d.D /\ e.rows = d.rows /\ e.mustInit = d.mustInit
  BY <1>1, <1>2, StripeBuilds
<1>. HIDE DEF e
<1>4. e.interlace # -2
  BY <1>3, HeightAssumption DEF Sound, Rows
<1>5. Fits(e) /\ Core(e)
  BY <1>3, <1>4 DEF Good, Fits, Core, Rows
<1>. QED BY <1>3, <1>5 DEF Good, e

\* The build of the call keeps the state good, whatever its divisor.
LEMMA BuildGood ==
  ASSUME NEW d, Good(d) PROVE Good(Build(d))
<1>1. d.rows \div FoldDiv \in Nat /\ d.rows \div PlainDiv \in Nat
  BY NumberAssumption DEF Good, Sound, Shape
<1>2. d.interlace >= 0 => d.interlace \in Rows(d)
  BY HeightAssumption DEF Good, Sound, Core, Rows
<1>. QED BY <1>1, <1>2, StripeGood DEF Build

\* Tables built whole after a change of size are good, and all three the same.
LEMMA InitBuffersGood ==
  ASSUME NEW d, Sized(d)
  PROVE  LET e == InitBuffers(d)
         IN  /\ Good(e) /\ (~d.mustInit => e = d)
             /\ d.mustInit => /\ e.S = e.T /\ e.D = e.T /\ e.interlace = -1
                              /\ e.gauge = d.gauge /\ e.effect = d.effect
                              /\ e.n = d.n /\ e.mid = d.mid
<1>1. CASE ~d.mustInit
  BY <1>1 DEF InitBuffers, Sized, Good
<1>2. CASE d.mustInit
  <2>. DEFINE U     == Uniform(d, Plain)
              fresh == [d EXCEPT !.mustInit = FALSE, !.wipeActive = FALSE,
                                 !.sweepValid = FALSE, !.buffratio = 0,
                                 !.T = U, !.interlace = 0]
              built == Stripe(fresh, fresh.rows)
              e     == InitBuffers(d)
  <2>1. d \in Shape /\ d.rows \in Nat \ {0} /\ Sound(d)
    BY HeightAssumption DEF Sized, Sound
  <2>2. U \in [Rows(d) -> Frames] /\ U \in Tables
    BY <2>1, UniformTable DEF Plain, Frames
  <2>. HIDE DEF U
  <2>3. fresh \in Shape
    <3>. DEFINE d1 == [d EXCEPT !.mustInit = FALSE, !.wipeActive = FALSE]
                d2 == [d1 EXCEPT !.sweepValid = FALSE, !.buffratio = 0]
                d3 == [d2 EXCEPT !.T = U]
    <3>1. d1 \in Shape BY <2>1 DEF Shape
    <3>2. 0 \in 0 .. Mask BY NumberAssumption
    <3>3. fresh = [d3 EXCEPT !.interlace = 0] OBVIOUS
    <3>. HIDE DEF d1, fresh
    <3>4. d2 \in Shape BY <3>1, <3>2 DEF Shape
    <3>. HIDE DEF d2
    <3>5. d3 \in Shape BY <2>2, <3>4 DEF Shape
    <3>. HIDE DEF d3
    <3>. QED BY <3>3, <3>5 DEF Shape
  <2>4. /\ fresh.S = d.S /\ fresh.D = d.D /\ fresh.T = U /\ fresh.rows = d.rows
        /\ ~fresh.mustInit /\ ~fresh.wipeActive /\ fresh.interlace = 0
        /\ fresh.effect = d.effect /\ fresh.n = d.n /\ fresh.gauge = d.gauge
        /\ fresh.mid = d.mid /\ fresh.wipeMode = d.wipeMode
    BY <2>1 DEF Shape
  <2>5. e = [built EXCEPT !.S = built.T, !.D = built.T]
    BY <1>2 DEF InitBuffers, U
  <2>. HIDE DEF fresh, e
  <2>6. Sound(fresh)
    BY <2>1, <2>3, <2>4 DEF Sound, Flags, LiveFolded
  <2>7. /\ fresh.T \in [Rows(fresh) -> Frames] /\ fresh.interlace \in Rows(fresh)
        /\ fresh.rows \in Nat /\ \A r \in 0 .. (fresh.interlace - 1) : fresh.T[r] = LiveFrame(fresh)
    BY <2>1, <2>2, <2>4 DEF Rows
  <2>8. /\ Sound(built) /\ built.T \in [Rows(built) -> Frames]
        /\ \A r \in BuiltRows(built) : built.T[r] = LiveFrame(built)
        /\ built.interlace = -1 /\ ~built.mustInit /\ built.gauge = d.gauge
        /\ built.effect = d.effect /\ built.n = d.n /\ built.mid = d.mid
    BY <2>4, <2>6, <2>7, StripeBuilds
  <2>. HIDE DEF built
  <2>9. e \in Shape
    BY <2>5, <2>8 DEF Sound, Shape
  <2>10. /\ e.S = built.T /\ e.D = built.T /\ e.T = built.T /\ e.rows = built.rows
         /\ e.mustInit = built.mustInit /\ e.wipeActive = built.wipeActive
         /\ e.interlace = built.interlace /\ e.effect = built.effect /\ e.n = built.n
         /\ e.angle = built.angle /\ e.mid = built.mid /\ e.gauge = built.gauge
         /\ e.wipeMode = built.wipeMode
    BY <2>5, <2>8 DEF Sound, Shape
  <2>11. Sound(e)
    BY <2>8, <2>9, <2>10 DEF Sound, Flags, LiveFolded
  <2>12. Fits(e)
    BY <2>8, <2>10 DEF Fits, Rows
  <2>13. Core(e)
    BY <2>8, <2>10 DEF Core, BuiltRows, Rows, LiveFrame, LiveFolded
  <2>. QED BY <1>2, <2>8, <2>10, <2>11, <2>12, <2>13 DEF Good, e
<1>. QED BY <1>1, <1>2

\* The commit of the gauge changes the gauge alone, to the fold in force.
LEMMA CommitShape ==
  ASSUME NEW d \in Shape
  PROVE  LET e == CommitGauge(d)
         IN  /\ e \in Shape
             /\ e.S = d.S /\ e.D = d.D /\ e.T = d.T /\ e.rows = d.rows
             /\ e.mustInit = d.mustInit /\ e.effect = d.effect /\ e.n = d.n
             /\ e.angle = d.angle /\ e.mid = d.mid /\ e.interlace = d.interlace
             /\ e.wipeActive = d.wipeActive /\ e.wipeMode = d.wipeMode
             /\ e.gauge = [active |-> LiveFolded(d), n |-> d.n, angle |-> d.angle, mid |-> d.mid]
             /\ e.gauge.active = LiveFolded(d) /\ GaugeFrame(e) = LiveFrame(e)
<1>. DEFINE gauge == [active |-> LiveFolded(d), n |-> d.n, angle |-> d.angle, mid |-> d.mid]
            e     == CommitGauge(d)
<1>1. gauge \in Gauges
  BY DEF Gauges, Shape, LiveFolded
<1>2. e = [d EXCEPT !.gauge = gauge]
  BY DEF CommitGauge
<1>3. /\ gauge.active = LiveFolded(d) /\ gauge.n = d.n
      /\ gauge.angle = d.angle /\ gauge.mid = d.mid
  OBVIOUS
<1>. HIDE DEF gauge, e
<1>4. /\ e.S = d.S /\ e.D = d.D /\ e.T = d.T /\ e.rows = d.rows
      /\ e.mustInit = d.mustInit /\ e.effect = d.effect /\ e.n = d.n
      /\ e.angle = d.angle /\ e.mid = d.mid /\ e.interlace = d.interlace
      /\ e.wipeActive = d.wipeActive /\ e.wipeMode = d.wipeMode /\ e.gauge = gauge
  BY <1>2 DEF Shape
<1>5. e \in Shape BY <1>1, <1>2 DEF Shape
<1>6. GaugeFrame(e) = LiveFrame(e)
  BY <1>3, <1>4 DEF GaugeFrame, LiveFrame, LiveFolded
<1>. QED BY <1>3, <1>4, <1>5, <1>6 DEF e, gauge

\* Re-expressing the state shown gives a table of the canvas.
LEMMA ResampledTable ==
  ASSUME NEW d, Good(d)
  PROVE  LET S == [r \in Rows(d) |-> Resample(d, Lerp(d, r))]
         IN  S \in [Rows(d) -> Frames] /\ S \in Tables
<1>1. Torn \in Frames /\ Plain \in Frames
  BY DEF Torn, Plain, Frames
<1>2. \A r \in Rows(d) : Lerp(d, r) \in Frames
  BY <1>1 DEF Good, Fits, Lerp
<1>3. LiveFrame(d) \in Frames
  BY LiveFrameType DEF Good, Sound
<1>4. \A fr \in Frames : Resample(d, fr) \in Frames
  BY <1>1, <1>3 DEF Resample
<1>5. d.rows \in Nat
  BY DEF Good, Sound, Shape
<1>6. [r \in Rows(d) |-> Resample(d, Lerp(d, r))] \in [Rows(d) -> Frames]
  BY <1>2, <1>4
<1>. QED BY <1>5, <1>6, TableIntro DEF Rows

\* What the bake changes: brutS, and the exchange of brutD and brutT.
LEMMA BakeFields ==
  ASSUME NEW d, Good(d)
  PROVE  LET baked == Bake(d)
         IN  /\ baked \in Shape
             /\ baked.S = [r \in Rows(d) |-> Resample(d, Lerp(d, r))]
             /\ baked.D = d.T /\ baked.T = d.D /\ baked.rows = d.rows
             /\ baked.mustInit = d.mustInit /\ baked.effect = d.effect /\ baked.n = d.n
             /\ baked.angle = d.angle /\ baked.mid = d.mid /\ baked.interlace = -2
             /\ baked.wipeActive = d.wipeActive /\ baked.wipeMode = d.wipeMode
             /\ baked.gauge = d.gauge
<1>. DEFINE S     == [r \in Rows(d) |-> Resample(d, Lerp(d, r))]
            baked == Bake(d)
            d1    == [d EXCEPT !.S = S, !.buffratio = 0]
            d2    == [d1 EXCEPT !.D = d.T, !.T = d.D]
<1>1. d \in Shape BY DEF Good, Sound
<1>2. S \in Tables BY ResampledTable
<1>3. baked = [d2 EXCEPT !.interlace = -2] BY DEF Bake
<1>. HIDE DEF S
<1>4. 0 \in 0 .. Mask BY NumberAssumption
<1>5. d1 \in Shape BY <1>1, <1>2, <1>4 DEF Shape
<1>6. d.T \in Tables /\ d.D \in Tables BY <1>1 DEF Shape
<1>7. /\ d2.S = S /\ d2.D = d.T /\ d2.T = d.D /\ d2.rows = d.rows
      /\ d2.mustInit = d.mustInit /\ d2.effect = d.effect /\ d2.n = d.n
      /\ d2.angle = d.angle /\ d2.mid = d.mid /\ d2.gauge = d.gauge
      /\ d2.wipeActive = d.wipeActive /\ d2.wipeMode = d.wipeMode
  BY <1>1 DEF Shape
<1>. HIDE DEF d1, baked
<1>8. d2 \in Shape BY <1>5, <1>6 DEF Shape
<1>. HIDE DEF d2
<1>9. baked \in Shape BY <1>3, <1>8 DEF Shape
<1>. QED BY <1>3, <1>7, <1>8, <1>9 DEF Shape, S, baked

\* A finished table goes into service whole, the gauge following it.
LEMMA SwapGood ==
  ASSUME NEW d, Good(d) PROVE Good(Swap(d))
<1>1. CASE d.interlace # -1
  BY <1>1 DEF Swap
<1>2. CASE d.interlace = -1
  <2>. DEFINE S     == [r \in Rows(d) |-> Resample(d, Lerp(d, r))]
              baked == Bake(d)
  <2>1. d \in Shape /\ ~d.wipeActive /\ ~d.mustInit /\ d.rows \in Heights
    BY <1>2 DEF Good, Sound, Flags
  <2>2. S \in [Rows(d) -> Frames] /\ S \in Tables
    BY ResampledTable
  <2>3. \A r \in Rows(d) : d.T[r] = LiveFrame(d)
    BY <1>2 DEF Good, Core, BuiltRows
  <2>4. /\ d.wipeMode # 0 => Swap(d) = [baked EXCEPT !.wipeActive = TRUE, !.wipeK = 0,
                                                      !.wipeMode = 0]
        /\ d.wipeMode = 0 => Swap(d) = CommitGauge(baked)
    BY <1>2, <2>1 DEF Swap
  <2>5. baked \in Shape
    BY BakeFields
  <2>6. /\ baked.S = S /\ baked.D = d.T /\ baked.T = d.D /\ baked.rows = d.rows
        /\ baked.mustInit = d.mustInit /\ baked.effect = d.effect /\ baked.n = d.n
        /\ baked.angle = d.angle /\ baked.mid = d.mid /\ baked.interlace = -2
        /\ baked.wipeActive = d.wipeActive /\ baked.wipeMode = d.wipeMode
        /\ baked.gauge = d.gauge
    BY BakeFields
  <2>. HIDE DEF S, baked
  <2>7. Rows(baked) = Rows(d) /\ LiveFrame(baked) = LiveFrame(d)
    BY <2>6 DEF Rows, LiveFrame, LiveFolded
  <2>8. CASE d.wipeMode # 0
    <3>. DEFINE e == [baked EXCEPT !.wipeActive = TRUE, !.wipeK = 0, !.wipeMode = 0]
    <3>1. e \in Shape
      <4>. DEFINE d1 == [baked EXCEPT !.wipeActive = TRUE]
                  d2 == [d1 EXCEPT !.wipeK = 0]
      <4>1. d1 \in Shape BY <2>5 DEF Shape
      <4>2. e = [d2 EXCEPT !.wipeMode = 0] OBVIOUS
      <4>. HIDE DEF d1, e
      <4>3. d2 \in Shape BY <4>1 DEF Shape
      <4>. HIDE DEF d2
      <4>. QED BY <4>2, <4>3 DEF Shape
    <3>2. /\ e.S = baked.S /\ e.D = baked.D /\ e.T = baked.T /\ e.rows = baked.rows
          /\ e.mustInit = baked.mustInit /\ e.effect = baked.effect /\ e.n = baked.n
          /\ e.angle = baked.angle /\ e.mid = baked.mid /\ e.interlace = baked.interlace
          /\ e.wipeActive /\ e.wipeMode = 0 /\ e.gauge = baked.gauge
      BY <2>5 DEF Shape
    <3>. HIDE DEF e
    <3>3. Sound(e)
      BY <2>1, <2>6, <2>8, <3>1, <3>2 DEF Good, Sound, Flags, LiveFolded
    <3>4. Fits(e)
      BY <2>2, <2>6, <3>2 DEF Good, Fits, Rows
    <3>5. Core(e)
      BY <2>3, <2>6, <2>7, <3>2 DEF Core, BuiltRows, Rows, LiveFrame, LiveFolded
    <3>. QED BY <2>1, <2>4, <2>6, <2>8, <3>2, <3>3, <3>4, <3>5 DEF Good, e
  <2>9. CASE d.wipeMode = 0
    <3>. DEFINE e == CommitGauge(baked)
    <3>1. /\ e \in Shape
          /\ e.S = baked.S /\ e.D = baked.D /\ e.T = baked.T /\ e.rows = baked.rows
          /\ e.mustInit = baked.mustInit /\ e.effect = baked.effect /\ e.n = baked.n
          /\ e.angle = baked.angle /\ e.mid = baked.mid /\ e.interlace = baked.interlace
          /\ e.wipeActive = baked.wipeActive /\ e.wipeMode = baked.wipeMode
          /\ e.gauge.active = LiveFolded(baked) /\ GaugeFrame(e) = LiveFrame(e)
      BY <2>5, CommitShape
    <3>. HIDE DEF e
    <3>2. Sound(e)
      BY <2>1, <2>6, <2>9, <3>1 DEF Sound, Flags, LiveFolded
    <3>3. Fits(e)
      BY <2>2, <2>6, <3>1 DEF Good, Fits, Rows
    <3>4. Core(e)
      BY <2>3, <2>6, <2>7, <3>1 DEF Core, BuiltRows, Rows, LiveFrame, LiveFolded
    <3>. QED BY <2>1, <2>4, <2>6, <2>9, <3>1, <3>2, <3>3, <3>4 DEF Good, e
  <2>. QED BY <2>8, <2>9
<1>. QED BY <1>1, <1>2

-----------------------------------------------------------------------------
(* The whole call.                                                         *)

\* The end of a call, with or without the end of a wipe, keeps the state good.
LEMMA SettleGood ==
  ASSUME NEW d, Good(d) PROVE Good(Settle(d))
<1>. DEFINE counted == [d EXCEPT !.wipeK = @ + 1]
            ended   == IF ~d.wipeActive THEN d
                       ELSE IF counted.wipeK >= d.wipeFrames THEN WipeComplete(counted)
                       ELSE counted
            e       == [ended EXCEPT !.sweepValid = TRUE]
<1>1. d \in Shape BY DEF Good, Sound
<1>2. counted \in Shape BY <1>1 DEF Shape
<1>3. /\ counted.S = d.S /\ counted.D = d.D /\ counted.T = d.T /\ counted.rows = d.rows
      /\ counted.mustInit = d.mustInit /\ counted.effect = d.effect /\ counted.n = d.n
      /\ counted.angle = d.angle /\ counted.mid = d.mid /\ counted.interlace = d.interlace
      /\ counted.wipeActive = d.wipeActive /\ counted.wipeMode = d.wipeMode
      /\ counted.gauge = d.gauge
  BY <1>1 DEF Shape
<1>4. Settle(d) = e BY DEF Settle
<1>. HIDE DEF counted
<1>5. Good(counted)
  BY <1>2, <1>3 DEF Good, Sound, Flags, Fits, Core, LiveFolded, LiveFrame, GaugeFrame,
     BuiltRows, Rows
<1>6. d.wipeActive => Good(WipeComplete(counted))
  BY <1>3, <1>5, WipeCompleteSized DEF Good, Sized
<1>7. Good(ended)
  BY <1>5, <1>6
<1>. HIDE DEF ended
<1>8. ended \in Shape BY <1>7 DEF Good, Sound
<1>9. e \in Shape BY <1>8 DEF Shape
<1>10. /\ e.S = ended.S /\ e.D = ended.D /\ e.T = ended.T /\ e.rows = ended.rows
       /\ e.mustInit = ended.mustInit /\ e.effect = ended.effect /\ e.n = ended.n
       /\ e.angle = ended.angle /\ e.mid = ended.mid /\ e.interlace = ended.interlace
       /\ e.wipeActive = ended.wipeActive /\ e.wipeMode = ended.wipeMode
       /\ e.gauge = ended.gauge
  BY <1>8 DEF Shape
<1>. HIDE DEF e
<1>11. Good(e)
  BY <1>7, <1>9, <1>10 DEF Good, Sound, Flags, Fits, Core, LiveFolded, LiveFrame, GaugeFrame,
     BuiltRows, Rows
<1>. QED BY <1>4, <1>11

\* Between two calls: nothing was drawn yet, or the state is good.
IInv ==
  /\ data = InitData \/ Good(data)
  /\ drawn \in [wipe : BOOLEAN, k : Nat, frames : 2 .. 120, torn : BOOLEAN]

\* The initial record has the shape of the filter's.
LEMMA InitDataShape == InitData \in Shape /\ Flags(InitData)
<1>1. NoTable \in Tables
  <2>1. NoTable \in [0 .. (0 - 1) -> Frames] BY DEF NoTable, Plain, Frames
  <2>. QED BY <2>1, TableIntro
<1>2. 0 \in 0 .. Mask BY NumberAssumption
<1>. QED BY <1>1, <1>2 DEF InitData, Shape, Flags, Gauges, LiveFolded

\* A change of size frees the tables and keeps the rest sound.
LEMMA ResizeSized ==
  ASSUME NEW d, d = InitData \/ Good(d), NEW h \in Heights
  PROVE  Sized(Resize(d, h)) /\ Resize(d, h).rows = h
<1>1. d \in Shape /\ Flags(d) /\ h \in Nat \ {0}
  BY InitDataShape, HeightAssumption DEF Good, Sound
<1>2. CASE d.rows = h
  <2>1. Good(d)
    BY <1>1, <1>2 DEF InitData
  <2>. QED BY <1>2, <2>1 DEF Resize, Sized, Good
<1>3. CASE d.rows # h
  <2>. DEFINE d1 == [d EXCEPT !.rows = h, !.mid = h \div 2]
              d2 == [d1 EXCEPT !.mustInit = TRUE, !.S = NoTable]
              e  == [d2 EXCEPT !.D = NoTable, !.T = NoTable]
  <2>1. Resize(d, h) = e BY <1>3 DEF Resize
  <2>2. NoTable \in Tables
    <3>1. NoTable \in [0 .. (0 - 1) -> Frames] BY DEF NoTable, Plain, Frames
    <3>. QED BY <3>1, TableIntro
  <2>3. h \div 2 \in Int BY <1>1
  <2>4. /\ e.rows = h /\ e.mustInit = TRUE /\ e.effect = d.effect /\ e.n = d.n
        /\ e.interlace = d.interlace /\ e.wipeActive = d.wipeActive
        /\ e.wipeMode = d.wipeMode /\ e.gauge = d.gauge
    BY <1>1 DEF Shape
  <2>. HIDE DEF e
  <2>5. e \in Shape
    <3>1. d1 \in Shape
      <4>. DEFINE m == h \div 2
      <4>1. m \in Int BY <2>3
      <4>. HIDE DEF m
      <4>2. [d EXCEPT !.rows = h, !.mid = m] \in Shape BY <1>1, <4>1 DEF Shape
      <4>. QED BY <4>2 DEF m
    <3>. HIDE DEF d1
    <3>2. d2 \in Shape BY <2>2, <3>1 DEF Shape
    <3>. HIDE DEF d2
    <3>. QED BY <2>2, <3>2 DEF Shape, e
  <2>6. Sized(e)
    BY <1>1, <2>4, <2>5 DEF Sized, Sound, Flags, LiveFolded
  <2>. QED BY <2>1, <2>4, <2>6
<1>. QED BY <1>2, <1>3

\* One call, phase after phase.
LEMMA FrameGood ==
  ASSUME IInv, NEW zf \in Configs \cup {NoConfig}, NEW h \in Heights,
         NEW style \in Styles, NEW frames \in WipeParams, NEW switch \in Switches,
         Frame(zf, h, style, frames, switch)
  PROVE  IInv'
<1>1. PICK sized \in {Resize(data, h)} :
      \E taken \in {Accept(sized, zf, style, frames)} :
      \E ready \in {InitBuffers(taken)} :
      \E built \in {Build(Swap(ready))} :
      \E ramped \in {Ramp(built, switch)} :
        data' = Settle(ramped) /\ drawn' = Kernel(ramped)
  BY DEF Frame
<1>2. PICK taken \in {Accept(sized, zf, style, frames)} :
      \E ready \in {InitBuffers(taken)} :
      \E built \in {Build(Swap(ready))} :
      \E ramped \in {Ramp(built, switch)} :
        data' = Settle(ramped) /\ drawn' = Kernel(ramped)
  BY <1>1
<1>3. PICK ready \in {InitBuffers(taken)} :
      \E built \in {Build(Swap(ready))} :
      \E ramped \in {Ramp(built, switch)} :
        data' = Settle(ramped) /\ drawn' = Kernel(ramped)
  BY <1>2
<1>4. PICK built \in {Build(Swap(ready))} :
      \E ramped \in {Ramp(built, switch)} :
        data' = Settle(ramped) /\ drawn' = Kernel(ramped)
  BY <1>3
<1>5. PICK ramped \in {Ramp(built, switch)} :
        data' = Settle(ramped) /\ drawn' = Kernel(ramped)
  BY <1>4
<1>6. Sized(sized)   BY ResizeSized DEF IInv
<1>7. Sized(taken)   BY <1>6, AcceptSized
<1>8. Good(ready)    BY <1>7, InitBuffersGood
<1>9. Good(built)    BY <1>8, SwapGood, BuildGood
<1>10. Good(ramped)  BY <1>9, RampGood
<1>11. Good(data')   BY <1>5, <1>10, SettleGood
<1>12. drawn' \in [wipe : BOOLEAN, k : Nat, frames : 2 .. 120, torn : BOOLEAN]
  BY <1>5, <1>10 DEF Kernel, Good, Sound, Shape
<1>. QED BY <1>11, <1>12 DEF IInv

\* The invariant holds in every state of every behaviour.
LEMMA InductiveInvariant == Spec => []IInv
<1>1. Init => IInv
  BY DEF Init, IInv
<1>2. IInv /\ [Next]_vars => IInv'
  <2>. SUFFICES ASSUME IInv, [Next]_vars PROVE IInv'
    OBVIOUS
  <2>1. CASE Next
    BY <2>1, FrameGood DEF Next
  <2>2. CASE UNCHANGED vars
    BY <2>2 DEF vars, IInv
  <2>. QED BY <2>1, <2>2
<1>. QED BY <1>1, <1>2, PTL DEF Spec

-----------------------------------------------------------------------------
(* What the invariant gives.                                               *)

\* The filter's state keeps its type, and its tables their size.
THEOREM TypeCorrect == Spec => []TypeOK
<1>1. IInv => TypeOK
  <2>. SUFFICES ASSUME IInv PROVE TypeOK
    OBVIOUS
  <2>1. CASE data = InitData
    <3>1. 0 \in 0 .. Mask BY NumberAssumption
    <3>2. NoTable \in [0 .. (0 - 1) -> Frames] BY DEF NoTable, Plain, Frames
    <3>. QED BY <2>1, <3>1, <3>2 DEF IInv, TypeOK, InitData, Gauges, Rows
  <2>2. CASE Good(data)
    <3>1. data.rows \in Nat \ {0} BY <2>2, HeightAssumption DEF Good, Sound
    <3>. QED BY <2>2, <3>1 DEF IInv, TypeOK, Good, Sound, Shape, Fits, Core
  <2>. QED BY <2>1, <2>2 DEF IInv
<1>. QED BY <1>1, InductiveInvariant, PTL

\* A table put into service is whole.
THEOREM TablesAreWhole == Spec => []TableWhole
<1>1. IInv => TableWhole
  BY DEF IInv, TableWhole, InitData, Good, Core
<1>. QED BY <1>1, InductiveInvariant, PTL

\* No delivery mixes two configurations in the table under construction.
THEOREM StripesAgree == Spec => []StripesOfOneConfig
<1>1. IInv => StripesOfOneConfig
  BY DEF IInv, StripesOfOneConfig, InitData, Good, Core
<1>. QED BY <1>1, InductiveInvariant, PTL

\* The target of a wipe is the complete map of the fold in force.
THEOREM WipeTargetIsWhole == Spec => []WipeTargetWhole
<1>1. IInv => WipeTargetWhole
  <2>. SUFFICES ASSUME Good(data), data.wipeActive PROVE WipeTargetWhole
    BY DEF IInv, WipeTargetWhole, InitData
  <2>1. data.interlace = -2 /\ LiveFolded(data) /\ ~data.gauge.active
    BY DEF Good, Sound, Flags
  <2>2. data.D \in [Rows(data) -> Frames] /\ \A r \in Rows(data) : data.D[r] = LiveFrame(data)
    BY <2>1 DEF Good, Fits, Core
  <2>3. data.D = [r \in Rows(data) |-> LiveFrame(data)]
    BY <2>2
  <2>. QED BY <2>1, <2>3 DEF WipeTargetWhole, Uniform
<1>. QED BY <1>1, InductiveInvariant, PTL

\* A wipe is armed only towards a fold, from no fold, beside no other wipe.
THEOREM WipeIsArmedAlone == Spec => []WipeArmed
<1>1. IInv => WipeArmed
  BY DEF IInv, WipeArmed, InitData, Good, Sound, Flags
<1>. QED BY <1>1, InductiveInvariant, PTL

\* Between builds the committed gauge is that of the configuration in force.
THEOREM GaugeIsCommitted == Spec => []GaugeCommitted
<1>1. IInv => GaugeCommitted
  BY DEF IInv, GaugeCommitted, InitData, Good, Core, GaugeFrame, LiveFrame, LiveFolded
<1>. QED BY <1>1, InductiveInvariant, PTL

-----------------------------------------------------------------------------
(* Progress: what a call does for the build and for the wipe.  A build and *)
(* a wipe can then take no more calls than they have rows and frames.      *)

\* A call without a change of size never takes back rows that are built, builds
\* at least one when some are missing, and puts a finished table into service.
BuildAdvances ==
  data.rows > 0 /\ data'.rows = data.rows =>
    /\ data.interlace >= 0  => data'.interlace = -1 \/ data'.interlace > data.interlace
    /\ data.interlace = -1 => data'.interlace = -2

\* A wipe that goes on has counted the frame and kept its length.
WipeAdvances ==
  data.wipeActive /\ data'.wipeActive =>
    data'.wipeK = data.wipeK + 1 /\ data'.wipeFrames = data.wipeFrames

\* A wipe in progress has frames left: the last one ends it.  The kernel never
\* draws it at its full progress.
WipeCounted ==
  /\ data.wipeActive => data.wipeK < data.wipeFrames
  /\ drawn.wipe => drawn.k < drawn.frames

\* The call, as the chain of the records it goes through.
Chain(sized, taken, ready, built, ramped, zf, h, style, frames, switch) ==
  /\ sized = Resize(data, h)
  /\ taken = Accept(sized, zf, style, frames)
  /\ ready = InitBuffers(taken)
  /\ built = Build(Swap(ready))
  /\ ramped = Ramp(built, switch)
  /\ data' = Settle(ramped) /\ drawn' = Kernel(ramped)
  /\ Sized(sized) /\ Sized(taken) /\ Good(ready) /\ Good(Swap(ready))
  /\ Good(built) /\ Good(ramped)

LEMMA FrameChain ==
  ASSUME IInv, NEW zf \in Configs \cup {NoConfig}, NEW h \in Heights,
         NEW style \in Styles, NEW frames \in WipeParams, NEW switch \in Switches,
         Frame(zf, h, style, frames, switch)
  PROVE  \E sized, taken, ready, built, ramped :
           Chain(sized, taken, ready, built, ramped, zf, h, style, frames, switch)
<1>. DEFINE sized  == Resize(data, h)
            taken  == Accept(sized, zf, style, frames)
            ready  == InitBuffers(taken)
            built  == Build(Swap(ready))
            ramped == Ramp(built, switch)
<1>1. data' = Settle(ramped) /\ drawn' = Kernel(ramped)
  BY DEF Frame
<1>2. Sized(sized)   BY ResizeSized DEF IInv
<1>. HIDE DEF sized
<1>3. Sized(taken)   BY <1>2, AcceptSized
<1>. HIDE DEF taken
<1>4. Good(ready)    BY <1>3, InitBuffersGood
<1>. HIDE DEF ready
<1>5. Good(Swap(ready)) BY <1>4, SwapGood
<1>6. Good(built)    BY <1>5, BuildGood
<1>. HIDE DEF built
<1>7. Good(ramped)   BY <1>6, RampGood
<1>8. ramped = Ramp(built, switch)  OBVIOUS
<1>. HIDE DEF ramped
<1>9. /\ sized = Resize(data, h) /\ taken = Accept(sized, zf, style, frames)
      /\ ready = InitBuffers(taken) /\ built = Build(Swap(ready))
  BY DEF sized, taken, ready, built
<1>. QED BY <1>1, <1>2, <1>3, <1>4, <1>5, <1>6, <1>7, <1>8, <1>9 DEF Chain

\* What the phases after the delivery leave alone, or do to the build and the
\* wipe.
LEMMA InitBuffersKeeps ==
  ASSUME NEW d, d \in Shape
  PROVE  /\ InitBuffers(d).rows = d.rows /\ InitBuffers(d).wipeMode = d.wipeMode
         /\ ~d.mustInit => InitBuffers(d) = d
         /\ d.mustInit => ~InitBuffers(d).wipeActive
<1>1. CASE ~d.mustInit
  BY <1>1 DEF InitBuffers
<1>2. CASE d.mustInit
  <2>. DEFINE fresh == [d EXCEPT !.mustInit = FALSE, !.wipeActive = FALSE,
                                 !.sweepValid = FALSE, !.buffratio = 0,
                                 !.T = Uniform(d, Plain), !.interlace = 0]
              built == Stripe(fresh, fresh.rows)
  <2>1. InitBuffers(d) = [built EXCEPT !.S = built.T, !.D = built.T]
    BY <1>2 DEF InitBuffers
  <2>2. /\ fresh.rows = d.rows /\ fresh.wipeMode = d.wipeMode /\ ~fresh.wipeActive
        /\ DOMAIN fresh = DOMAIN d
    BY DEF Shape
  <2>. HIDE DEF fresh
  <2>3. /\ built.rows = fresh.rows /\ built.wipeMode = fresh.wipeMode
        /\ built.wipeActive = fresh.wipeActive /\ DOMAIN built = DOMAIN fresh
    BY <2>2 DEF Shape, Stripe
  <2>. HIDE DEF built
  <2>. QED BY <1>2, <2>1, <2>2, <2>3 DEF Shape
<1>. QED BY <1>1, <1>2

LEMMA SwapKeeps ==
  ASSUME NEW d, d \in Shape
  PROVE  /\ Swap(d).rows = d.rows /\ Swap(d).wipeFrames = d.wipeFrames
         /\ Swap(d).interlace = IF d.interlace = -1 THEN -2 ELSE d.interlace
         /\ d.wipeActive => Swap(d).wipeActive
         /\ d.interlace # -1 => Swap(d) = d
         /\ Swap(d).wipeActive =>
              d.wipeActive \/ (d.wipeMode # 0 /\ Swap(d).wipeK = 0)
<1>1. CASE d.interlace # -1
  BY <1>1 DEF Swap
<1>2. CASE d.interlace = -1
  <2>1. /\ Bake(d).rows = d.rows /\ Bake(d).interlace = -2
        /\ Bake(d).wipeActive = d.wipeActive /\ Bake(d).wipeFrames = d.wipeFrames
        /\ DOMAIN Bake(d) = DOMAIN d
    BY DEF Bake, Shape
  <2>2. CASE d.wipeMode # 0
    <3>1. Swap(d) = [Bake(d) EXCEPT !.wipeActive = TRUE, !.wipeK = 0, !.wipeMode = 0]
      BY <1>2, <2>2 DEF Swap
    <3>. QED BY <1>2, <2>1, <2>2, <3>1 DEF Shape
  <2>3. CASE d.wipeMode = 0 /\ d.wipeActive
    BY <1>2, <2>1, <2>3 DEF Swap
  <2>4. CASE d.wipeMode = 0 /\ ~d.wipeActive
    <3>1. Swap(d) = CommitGauge(Bake(d))
      BY <1>2, <2>4 DEF Swap
    <3>. QED BY <1>2, <2>1, <2>4, <3>1 DEF CommitGauge, Shape
  <2>. QED BY <2>2, <2>3, <2>4
<1>. QED BY <1>1, <1>2

LEMMA StripeKeeps ==
  ASSUME NEW d, d \in Shape, NEW step \in Int, d.interlace \in Nat
  PROVE  /\ Stripe(d, step).rows = d.rows
         /\ Stripe(d, step).wipeActive = d.wipeActive
         /\ Stripe(d, step).wipeK = d.wipeK
         /\ Stripe(d, step).wipeFrames = d.wipeFrames
         /\ Stripe(d, step).interlace = -1 \/ Stripe(d, step).interlace > d.interlace
BY DEF Stripe, Shape

LEMMA BuildKeeps ==
  ASSUME NEW d, d \in Shape, d.interlace \in {-2, -1} \cup Nat
  PROVE  /\ Build(d).rows = d.rows /\ Build(d).wipeActive = d.wipeActive
         /\ Build(d).wipeK = d.wipeK /\ Build(d).wipeFrames = d.wipeFrames
         /\ d.interlace < 0 => Build(d).interlace = d.interlace
         /\ d.interlace >= 0 => Build(d).interlace = -1 \/ Build(d).interlace > d.interlace
<1>1. CASE d.interlace < 0
  BY <1>1 DEF Build
<1>2. CASE d.interlace >= 0
  <2>. DEFINE step == IF d.effect THEN d.rows \div FoldDiv ELSE d.rows \div PlainDiv
  <2>1. step \in Int /\ Build(d) = Stripe(d, step) /\ d.interlace \in Nat
    BY <1>2, NumberAssumption DEF Build, Shape
  <2>. HIDE DEF step
  <2>. QED BY <1>2, <2>1, StripeKeeps
<1>. QED BY <1>1, <1>2 DEF Shape

LEMMA RampKeeps ==
  ASSUME NEW d, d \in Shape, NEW switch
  PROVE  /\ Ramp(d, switch).rows = d.rows /\ Ramp(d, switch).interlace = d.interlace
         /\ Ramp(d, switch).wipeActive = d.wipeActive
         /\ Ramp(d, switch).wipeK = d.wipeK /\ Ramp(d, switch).wipeFrames = d.wipeFrames
BY DEF Ramp, Shape

LEMMA SettleKeeps ==
  ASSUME NEW d, d \in Shape
  PROVE  /\ Settle(d).rows = d.rows /\ Settle(d).interlace = d.interlace
         /\ Settle(d).wipeFrames = d.wipeFrames
         /\ Settle(d).wipeActive =>
              /\ d.wipeActive /\ Settle(d).wipeK = d.wipeK + 1
              /\ d.wipeK + 1 < d.wipeFrames
<1>1. CASE ~d.wipeActive
  BY <1>1 DEF Settle, Shape
<1>2. CASE d.wipeActive
  <2>. DEFINE counted == [d EXCEPT !.wipeK = @ + 1]
  <2>1. counted \in Shape /\ counted.rows = d.rows /\ counted.interlace = d.interlace
        /\ counted.wipeFrames = d.wipeFrames /\ counted.wipeK = d.wipeK + 1
        /\ counted.wipeActive
    BY <1>2 DEF Shape
  <2>2. CASE counted.wipeK >= d.wipeFrames
    <3>1. Settle(d) = [WipeComplete(counted) EXCEPT !.sweepValid = TRUE]
      BY <1>2, <2>2 DEF Settle
    <3>. HIDE DEF counted
    <3>2. /\ WipeComplete(counted).rows = d.rows /\ ~WipeComplete(counted).wipeActive
          /\ WipeComplete(counted).interlace = d.interlace
          /\ WipeComplete(counted).wipeFrames = d.wipeFrames
          /\ DOMAIN WipeComplete(counted) = DOMAIN counted
      BY <2>1 DEF WipeComplete, CommitGauge, Shape
    <3>. QED BY <2>1, <3>1, <3>2 DEF Shape
  <2>3. CASE ~(counted.wipeK >= d.wipeFrames)
    <3>1. Settle(d) = [counted EXCEPT !.sweepValid = TRUE]
      BY <1>2, <2>3 DEF Settle
    <3>. HIDE DEF counted
    <3>. QED BY <1>2, <2>1, <2>3, <3>1 DEF Shape
  <2>. QED BY <2>2, <2>3
<1>. QED BY <1>1, <1>2

\* A delivery changes neither the canvas nor a build; it leaves no wipe active,
\* or changes nothing.
LEMMA AcceptKeeps ==
  ASSUME NEW d, d \in Shape, NEW zf \in Configs \cup {NoConfig},
         NEW style \in Styles, NEW frames \in WipeParams
  PROVE  /\ Accept(d, zf, style, frames).rows = d.rows
         /\ Accept(d, zf, style, frames).mustInit = d.mustInit
         /\ d.interlace # -2 => Accept(d, zf, style, frames) = d
         /\ \/ Accept(d, zf, style, frames) = d
            \/ /\ ~Accept(d, zf, style, frames).wipeActive
               /\ d.effect => Accept(d, zf, style, frames).wipeMode = 0
<1>1. CASE zf = NoConfig \/ d.interlace # -2
  BY <1>1 DEF Accept
<1>2. CASE ~(zf = NoConfig \/ d.interlace # -2)
  <2>. DEFINE c == IF d.wipeActive THEN WipeComplete(d) ELSE d
  <2>1. /\ c.rows = d.rows /\ c.mustInit = d.mustInit /\ ~c.wipeActive
        /\ c.effect = d.effect /\ DOMAIN c = DOMAIN d
    BY DEF WipeComplete, CommitGauge, Shape
  <2>2. Accept(d, zf, style, frames) = Taken(c, zf, style, frames)
    BY <1>2 DEF Accept
  <2>. HIDE DEF c
  <2>. QED BY <1>2, <2>1, <2>2 DEF Taken, Arm, Shape
<1>. QED BY <1>1, <1>2

\* The builder of a record with tables is idle, done or at a row.
LEMMA GoodInterlace ==
  ASSUME NEW d, Good(d) PROVE d.interlace \in {-2, -1} \cup Nat
<1>1. d.interlace \in {-2, -1} \cup Rows(d)
  BY DEF Good, Core
<1>. QED BY <1>1 DEF Rows

\* A wipe that is drawn goes on from the call before, or begins in this one:
\* then none was in progress.
LEMMA WipeDrawn ==
  ASSUME Good(data) \/ data = InitData,
         NEW zf \in Configs \cup {NoConfig}, NEW h \in Heights,
         NEW style \in Styles, NEW frames \in WipeParams, NEW switch \in Switches,
         NEW sized, NEW taken, NEW ready, NEW built, NEW ramped,
         Chain(sized, taken, ready, built, ramped, zf, h, style, frames, switch),
         ramped.wipeActive
  PROVE  \/ /\ data.wipeActive /\ ramped.wipeK = data.wipeK
            /\ ramped.wipeFrames = data.wipeFrames
         \/ ~data.wipeActive /\ ramped.wipeK = 0
<1>0. \/ taken = sized
      \/ ~taken.wipeActive /\ (sized.effect => taken.wipeMode = 0)
  <2>1. sized \in Shape /\ taken = Accept(sized, zf, style, frames)
    BY DEF Chain, Sized, Sound
  <2>2. \/ Accept(sized, zf, style, frames) = sized
        \/ /\ ~Accept(sized, zf, style, frames).wipeActive
           /\ sized.effect => Accept(sized, zf, style, frames).wipeMode = 0
    BY <2>1, AcceptKeeps
  <2>. QED BY <2>1, <2>2
<1>. DEFINE swapped == Swap(ready)
<1>1. /\ sized \in Shape /\ taken \in Shape /\ ready \in Shape /\ swapped \in Shape
      /\ built \in Shape
  BY DEF Chain, Sized, Good, Sound
<1>2. /\ ready = InitBuffers(taken) /\ taken = Accept(sized, zf, style, frames)
      /\ built = Build(swapped) /\ ramped = Ramp(built, switch) /\ sized = Resize(data, h)
  BY DEF Chain
<1>3. swapped.interlace \in {-2, -1} \cup Nat
  BY GoodInterlace DEF Chain
<1>. HIDE DEF swapped
<1>4. /\ swapped.wipeActive /\ swapped.wipeK = ramped.wipeK
      /\ swapped.wipeFrames = ramped.wipeFrames
  BY <1>1, <1>2, <1>3, RampKeeps, BuildKeeps
<1>5. CASE ready.wipeActive
  <2>1. ready = taken /\ ~taken.mustInit
    BY <1>1, <1>2, <1>5, InitBuffersKeeps
  <2>2. taken = sized
    BY <1>0, <1>5, <2>1
  <2>3. sized = data
    BY <1>2, <2>1, <2>2 DEF Resize, Good, Sound, Shape, InitData
  <2>4. data.wipeActive /\ data.interlace # -1
    BY <1>5, <2>1, <2>2, <2>3 DEF Good, Sound, Flags, InitData
  <2>5. swapped = ready
    BY <1>1, <2>1, <2>2, <2>3, <2>4, SwapKeeps DEF swapped
  <2>. QED BY <1>4, <2>1, <2>2, <2>3, <2>4, <2>5
<1>6. CASE ~ready.wipeActive
  <2>1. ready.wipeMode # 0 /\ swapped.wipeK = 0
    BY <1>1, <1>4, <1>6, SwapKeeps DEF swapped
  <2>2. taken.wipeMode # 0
    BY <1>1, <1>2, <2>1, InitBuffersKeeps
  <2>3. ASSUME data.wipeActive PROVE FALSE
    <3>1. data.effect /\ data.wipeMode = 0 /\ Good(data)
      BY <2>3 DEF Good, Sound, Flags, InitData, LiveFolded
    <3>2. sized.effect /\ sized.wipeMode = 0
      BY <1>2, <3>1 DEF Resize, Good, Sound, Shape
    <3>3. taken.wipeMode = 0
      BY <1>0, <3>2
    <3>. QED BY <2>2, <3>3
  <2>. QED BY <1>4, <2>1, <2>3
<1>. QED BY <1>5, <1>6

\* The build advances at every call that keeps the size of the canvas.
THEOREM BuildMovesOn == Spec => [][BuildAdvances]_vars
<1>1. IInv /\ [Next]_vars => BuildAdvances \/ UNCHANGED vars
  <2>. SUFFICES ASSUME IInv, Next, data.rows > 0, data'.rows = data.rows
                PROVE  /\ data.interlace >= 0 => data'.interlace = -1
                                                 \/ data'.interlace > data.interlace
                       /\ data.interlace = -1 => data'.interlace = -2
    BY DEF BuildAdvances
  <2>1. PICK zf \in Configs \cup {NoConfig}, h \in Heights, style \in Styles,
             frames \in WipeParams, switch \in Switches :
               Frame(zf, h, style, frames, switch)
    BY DEF Next
  <2>2. PICK sized, taken, ready, built, ramped :
          Chain(sized, taken, ready, built, ramped, zf, h, style, frames, switch)
    BY <2>1, FrameChain
  <2>. DEFINE swapped == Swap(ready)
  <2>3. /\ sized \in Shape /\ taken \in Shape /\ ready \in Shape /\ swapped \in Shape
        /\ built \in Shape /\ ramped \in Shape
    BY <2>2 DEF Chain, Sized, Good, Sound
  <2>4. /\ ready = InitBuffers(taken) /\ taken = Accept(sized, zf, style, frames)
        /\ built = Build(swapped) /\ ramped = Ramp(built, switch)
        /\ sized = Resize(data, h) /\ data' = Settle(ramped)
    BY <2>2 DEF Chain
  <2>5. swapped.interlace \in {-2, -1} \cup Nat
    BY <2>2, GoodInterlace DEF Chain
  <2>6. Good(data)
    BY DEF IInv, InitData
  <2>7. swapped.rows = ready.rows
    BY <2>3, SwapKeeps
  <2>8. swapped.interlace = IF ready.interlace = -1 THEN -2 ELSE ready.interlace
    BY <2>3, SwapKeeps
  <2>. HIDE DEF swapped
  <2>9. data'.rows = sized.rows
    BY <2>3, <2>4, <2>5, <2>7, AcceptKeeps, InitBuffersKeeps, BuildKeeps, RampKeeps,
       SettleKeeps
  <2>10. data'.interlace = built.interlace
    BY <2>3, <2>4, RampKeeps, SettleKeeps
  <2>11. sized = data
    BY <2>4, <2>6, <2>9 DEF Resize, Good, Sound, Shape
  <2>12. data.interlace # -2 => ready = data
    BY <2>3, <2>4, <2>6, <2>11, AcceptKeeps, InitBuffersKeeps DEF Good
  <2>13. data.interlace >= 0 => built.interlace = -1 \/ built.interlace > data.interlace
    BY <2>3, <2>4, <2>5, <2>8, <2>12, BuildKeeps
  <2>14. data.interlace = -1 => built.interlace = -2
    BY <2>3, <2>4, <2>5, <2>8, <2>12, BuildKeeps
  <2>. QED BY <2>10, <2>13, <2>14
<1>. QED BY <1>1, InductiveInvariant, PTL DEF Spec

\* A wipe that goes on is the same wipe, one frame later.
THEOREM WipeMovesOn == Spec => [][WipeAdvances]_vars
<1>1. IInv /\ [Next]_vars => WipeAdvances \/ UNCHANGED vars
  <2>. SUFFICES ASSUME IInv, Next, data.wipeActive, data'.wipeActive
                PROVE  data'.wipeK = data.wipeK + 1 /\ data'.wipeFrames = data.wipeFrames
    BY DEF WipeAdvances
  <2>1. PICK zf \in Configs \cup {NoConfig}, h \in Heights, style \in Styles,
             frames \in WipeParams, switch \in Switches :
               Frame(zf, h, style, frames, switch)
    BY DEF Next
  <2>2. PICK sized, taken, ready, built, ramped :
          Chain(sized, taken, ready, built, ramped, zf, h, style, frames, switch)
    BY <2>1, FrameChain
  <2>3. ramped \in Shape /\ data' = Settle(ramped)
    BY <2>2 DEF Chain, Good, Sound
  <2>4. ramped.wipeActive /\ data'.wipeK = ramped.wipeK + 1
        /\ data'.wipeFrames = ramped.wipeFrames
    BY <2>3, SettleKeeps
  <2>5. ramped.wipeK = data.wipeK /\ ramped.wipeFrames = data.wipeFrames
    BY <2>2, <2>4, WipeDrawn DEF IInv
  <2>. QED BY <2>4, <2>5
<1>. QED BY <1>1, InductiveInvariant, PTL DEF Spec

\* A wipe ends with its last frame, and is never shown at its full progress.
THEOREM WipeEndsInTime == Spec => []WipeCounted
<1>1. Init => WipeCounted
  BY DEF Init, InitData, WipeCounted
<1>2. IInv /\ WipeCounted /\ [Next]_vars => WipeCounted'
  <2>. SUFFICES ASSUME IInv, WipeCounted, [Next]_vars PROVE WipeCounted'
    OBVIOUS
  <2>1. CASE Next
    <3>1. PICK zf \in Configs \cup {NoConfig}, h \in Heights, style \in Styles,
               frames \in WipeParams, switch \in Switches :
                 Frame(zf, h, style, frames, switch)
      BY <2>1 DEF Next
    <3>2. PICK sized, taken, ready, built, ramped :
            Chain(sized, taken, ready, built, ramped, zf, h, style, frames, switch)
      BY <3>1, FrameChain
    <3>3. ramped \in Shape /\ data' = Settle(ramped) /\ drawn' = Kernel(ramped)
      BY <3>2 DEF Chain, Good, Sound
    <3>4. data'.wipeActive => data'.wipeK < data'.wipeFrames
      BY <3>3, SettleKeeps
    <3>5. ramped.wipeActive => ramped.wipeK < ramped.wipeFrames
      <4>. SUFFICES ASSUME ramped.wipeActive PROVE ramped.wipeK < ramped.wipeFrames
        OBVIOUS
      <4>1. ramped.wipeFrames \in 2 .. 120
        BY <3>3 DEF Shape
      <4>2. \/ /\ data.wipeActive /\ ramped.wipeK = data.wipeK
               /\ ramped.wipeFrames = data.wipeFrames
            \/ ~data.wipeActive /\ ramped.wipeK = 0
        BY <3>2, WipeDrawn DEF IInv
      <4>. QED BY <4>1, <4>2 DEF WipeCounted
    <3>. QED BY <3>3, <3>4, <3>5 DEF WipeCounted, Kernel
  <2>2. CASE UNCHANGED vars
    BY <2>2 DEF vars, WipeCounted
  <2>. QED BY <2>1, <2>2
<1>. QED BY <1>1, <1>2, InductiveInvariant, PTL DEF Spec
=============================================================================
