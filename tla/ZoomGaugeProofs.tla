----------------------------- MODULE ZoomGaugeProofs ----------------------------
(***************************************************************************)
(* The gauge of the displacement tables, for a canvas that keeps its size  *)
(* and folds that share one apex: the two tables the kernel mixes are      *)
(* always in one and the same frame.  Then the engine that delivers the    *)
(* configurations: each of its steps is a call of the filter or leaves it  *)
(* alone, the folds it composes are legal, those set by hand are followed, *)
(* and in its automatic mode they share one apex, so that the gauge of its *)
(* own filter is coherent.                                                 *)
(***************************************************************************)
EXTENDS GoomZoom, ZoomFilterProofs

\* Both tables are in the committed gauge.
InGauge(d) == \A r \in Rows(d) : d.S[r] = GaugeFrame(d) /\ d.D[r] = GaugeFrame(d)

\* Live fold and committed gauge are folds around the apex A.
AroundApex(d, A) == /\ LiveFolded(d) => d.mid = A
                    /\ d.gauge.active => d.gauge.n > 0 /\ d.gauge.mid = A

\* At the start of a build on a new canvas the three tables are one.
JustBuilt(d) == d.interlace = -1 /\ d.S = d.T /\ d.D = d.T /\ ~d.gauge.active

\* brutS is one map during a wipe: the target's, or the unfolded one.
OneMap(d) == d.wipeActive => d.S = d.D \/ d.S = Uniform(d, Plain)

\* The strengthening the gauge theorems rest on.
Coherent(d, A) == /\ AroundApex(d, A) /\ OneMap(d)
                  /\ ~d.wipeActive => InGauge(d)

\* A delivery keeps the tables coherent: they are not touched, or the wipe it
\* ends has just put them in one gauge.
LEMMA AcceptCoherent ==
  ASSUME NEW A, NEW zf \in Configs \cup {NoConfig}, zf \in Configs /\ zf.effect => zf.mid = A,
         NEW d, Sized(d), AroundApex(d, A), d.mustInit => ~d.gauge.active /\ ~d.wipeActive,
         ~d.mustInit => Coherent(d, A), NEW style \in Styles, NEW frames \in WipeParams
  PROVE  LET e == Accept(d, zf, style, frames)
         IN  /\ AroundApex(e, A) /\ (e.mustInit => ~e.gauge.active)
             /\ ~e.mustInit => Coherent(e, A)
<1>. DEFINE e == Accept(d, zf, style, frames)
            c == IF d.wipeActive THEN WipeComplete(d) ELSE d
<1>1. /\ Sized(e) /\ e.rows = d.rows /\ e.mustInit = d.mustInit
      /\ \/ e = d
         \/ /\ zf \in Configs /\ d.interlace = -2
            /\ e.S = c.S /\ e.D = c.D /\ e.gauge = c.gauge
            /\ e.effect = zf.effect /\ e.mid = zf.mid /\ ~e.wipeActive
  BY AcceptSized
<1>2. CASE e = d
  BY <1>1, <1>2
<1>3. CASE e # d
  <2>1. d.wipeActive => /\ c.rows = d.rows /\ LiveFolded(d)
                        /\ c.gauge = [active |-> TRUE, n |-> d.n, angle |-> d.angle, mid |-> d.mid]
                        /\ InGauge(c)
    BY WipeCompleteSized DEF Sized, Sound, Flags, InGauge
  <2>2. ~d.wipeActive => c = d
    OBVIOUS
  <2>. HIDE DEF c, e
  <2>3. c.gauge.active => c.gauge.n > 0 /\ c.gauge.mid = A
    BY <2>1, <2>2 DEF AroundApex, LiveFolded
  <2>4. AroundApex(e, A)
    BY <1>1, <1>3, <2>3 DEF AroundApex, LiveFolded
  <2>5. e.mustInit => ~e.gauge.active
    BY <1>1, <1>3, <2>2
  <2>6. ~e.mustInit => InGauge(c) /\ c.rows = d.rows
    BY <1>1, <2>1, <2>2 DEF Coherent
  <2>7. ~e.mustInit => InGauge(e)
    BY <1>1, <1>3, <2>6 DEF InGauge, Rows, GaugeFrame
  <2>8. ~e.wipeActive
    BY <1>1, <1>3
  <2>. QED BY <2>4, <2>5, <2>7, <2>8 DEF Coherent, OneMap, e
<1>. QED BY <1>2, <1>3

\* Tables just rebuilt on the first call are one and the same.
LEMMA InitBuffersCoherent ==
  ASSUME NEW A, NEW d, Sized(d), AroundApex(d, A), d.mustInit => ~d.gauge.active,
         ~d.mustInit => Coherent(d, A)
  PROVE  LET e == InitBuffers(d)
         IN  Good(e) /\ AroundApex(e, A) /\ (Coherent(e, A) \/ JustBuilt(e))
<1>. DEFINE e == InitBuffers(d)
<1>1. /\ Good(e) /\ (~d.mustInit => e = d)
      /\ d.mustInit => /\ e.S = e.T /\ e.D = e.T /\ e.interlace = -1
                       /\ e.gauge = d.gauge /\ e.effect = d.effect
                       /\ e.n = d.n /\ e.mid = d.mid
  BY InitBuffersGood
<1>. HIDE DEF e
<1>. QED BY <1>1 DEF AroundApex, JustBuilt, LiveFolded, e

\* What the exchange of the tables leaves, with and without an armed wipe.
LEMMA SwapFields ==
  ASSUME NEW d, Good(d), d.interlace = -1
  PROVE  LET e == Swap(d)
         IN  /\ e.S = [r \in Rows(d) |-> Resample(d, Lerp(d, r))]
             /\ e.D = d.T /\ e.rows = d.rows /\ e.effect = d.effect /\ e.n = d.n
             /\ e.angle = d.angle /\ e.mid = d.mid /\ (e.wipeActive <=> d.wipeMode # 0)
             /\ d.wipeMode # 0 => e.gauge = d.gauge
             /\ d.wipeMode = 0 => /\ e.gauge.active = LiveFolded(d) /\ e.gauge.n = d.n
                                 /\ e.gauge.angle = d.angle /\ e.gauge.mid = d.mid
<1>. DEFINE baked == Bake(d)
<1>1. ~d.wipeActive
  BY DEF Good, Sound, Flags
<1>2. /\ d.wipeMode # 0 => Swap(d) = [baked EXCEPT !.wipeActive = TRUE, !.wipeK = 0,
                                                    !.wipeMode = 0]
      /\ d.wipeMode = 0 => Swap(d) = CommitGauge(baked)
  BY <1>1 DEF Swap
<1>3. /\ baked \in Shape
      /\ baked.S = [r \in Rows(d) |-> Resample(d, Lerp(d, r))]
      /\ baked.D = d.T /\ baked.rows = d.rows /\ baked.effect = d.effect
      /\ baked.n = d.n /\ baked.angle = d.angle /\ baked.mid = d.mid
      /\ baked.wipeActive = d.wipeActive /\ baked.gauge = d.gauge
  BY BakeFields
<1>. HIDE DEF baked
<1>4. LiveFolded(baked) = LiveFolded(d)
  BY <1>3 DEF LiveFolded
<1>5. CASE d.wipeMode # 0
  BY <1>2, <1>3, <1>5 DEF Shape
<1>6. CASE d.wipeMode = 0
  <2>. DEFINE e == CommitGauge(baked)
  <2>1. /\ e.S = baked.S /\ e.D = baked.D /\ e.rows = baked.rows /\ e.effect = baked.effect
        /\ e.n = baked.n /\ e.angle = baked.angle /\ e.mid = baked.mid
        /\ e.wipeActive = baked.wipeActive
        /\ e.gauge = [active |-> LiveFolded(baked), n |-> baked.n, angle |-> baked.angle,
                      mid |-> baked.mid]
    BY <1>3, CommitShape
  <2>2. Swap(d) = e
    BY <1>2, <1>6
  <2>. HIDE DEF e
  <2>3. /\ e.gauge.active = LiveFolded(d) /\ e.gauge.n = d.n
        /\ e.gauge.angle = d.angle /\ e.gauge.mid = d.mid
    <3>. HIDE DEF LiveFolded
    <3>. QED BY <1>3, <1>4, <2>1
  <2>. QED BY <1>1, <1>3, <1>6, <2>1, <2>2, <2>3
<1>. QED BY <1>5, <1>6

\* Rows of one frame are not changed by the interpolation, and the resampling
\* brings them into the frame of the configuration in force.
LEMMA ResampleInLive ==
  ASSUME NEW A, NEW d, Good(d), d.interlace = -1, d.wipeMode = 0, AroundApex(d, A),
         InGauge(d) \/ JustBuilt(d), NEW r \in Rows(d)
  PROVE  Resample(d, Lerp(d, r)) = LiveFrame(d)
<1>1. d.T[r] = LiveFrame(d) /\ ~d.wipeActive
  BY DEF Good, Sound, Flags, Core, BuiltRows
<1>2. Lerp(d, r) = d.S[r]
  BY DEF Lerp, InGauge, JustBuilt
<1>3. CASE InGauge(d)
  <2>1. d.S[r] = GaugeFrame(d)
    BY <1>3 DEF InGauge
  <2>2. ~Regauge(d) => GaugeFrame(d) = LiveFrame(d)
    BY <1>1 DEF Regauge, GaugeFrame, LiveFrame, AroundApex
  <2>3. Regauge(d) /\ ~LiveFolded(d) => LiveFrame(d) = Plain
    BY DEF LiveFrame
  <2>. QED BY <1>2, <2>1, <2>2, <2>3 DEF Resample
<1>4. CASE JustBuilt(d)
  <2>1. d.S[r] = LiveFrame(d) /\ ~d.gauge.active
    BY <1>1, <1>4 DEF JustBuilt
  <2>2. Regauge(d) => LiveFolded(d)
    BY <2>1 DEF Regauge
  <2>. QED BY <1>2, <2>1, <2>2 DEF Resample
<1>. QED BY <1>3, <1>4

\* The finished table and the re-expressed state are in the gauge committed.
LEMMA SwapCoherent ==
  ASSUME NEW A, NEW d, Good(d), AroundApex(d, A), Coherent(d, A) \/ JustBuilt(d)
  PROVE  Coherent(Swap(d), A)
<1>1. CASE d.interlace # -1
  BY <1>1 DEF Swap, JustBuilt
<1>2. CASE d.interlace = -1
  <2>. DEFINE e == Swap(d)
  <2>1. /\ e.S = [r \in Rows(d) |-> Resample(d, Lerp(d, r))]
        /\ e.D = d.T /\ e.rows = d.rows /\ e.effect = d.effect /\ e.n = d.n
        /\ e.angle = d.angle /\ e.mid = d.mid /\ (e.wipeActive <=> d.wipeMode # 0)
        /\ d.wipeMode # 0 => e.gauge = d.gauge
        /\ d.wipeMode = 0 => /\ e.gauge.active = LiveFolded(d) /\ e.gauge.n = d.n
                            /\ e.gauge.angle = d.angle /\ e.gauge.mid = d.mid
    BY <1>2, SwapFields
  <2>2. ~d.wipeActive /\ (InGauge(d) \/ JustBuilt(d))
    BY <1>2 DEF Good, Sound, Flags, Coherent
  <2>3. \A r \in Rows(d) : d.T[r] = LiveFrame(d)
    BY <1>2 DEF Good, Core, BuiltRows
  <2>. HIDE DEF e
  <2>4. Rows(e) = Rows(d) /\ LiveFrame(e) = LiveFrame(d) /\ (LiveFolded(e) <=> LiveFolded(d))
    BY <2>1 DEF Rows, LiveFrame, LiveFolded
  <2>5. AroundApex(e, A)
    BY <2>1, <2>4 DEF AroundApex, LiveFolded
  <2>6. CASE d.wipeMode = 0
    <3>1. \A r \in Rows(d) : e.S[r] = LiveFrame(d)
      BY <1>2, <2>1, <2>2, <2>6, ResampleInLive
    <3>2. GaugeFrame(e) = LiveFrame(d)
      BY <2>1, <2>6 DEF GaugeFrame, LiveFrame
    <3>3. InGauge(e)
      BY <2>1, <2>3, <2>4, <3>1, <3>2 DEF InGauge
    <3>. QED BY <2>1, <2>5, <2>6, <3>3 DEF Coherent, OneMap, e
  <2>7. CASE d.wipeMode # 0
    <3>1. ~Regauge(d) /\ ~d.gauge.active
      BY <2>7 DEF Regauge, Good, Sound, Flags
    <3>2. \A r \in Rows(d) : Resample(d, Lerp(d, r)) = Lerp(d, r)
      BY <3>1 DEF Resample
    <3>3. CASE InGauge(d)
      <4>1. \A r \in Rows(d) : Lerp(d, r) = Plain
        BY <3>1, <3>3 DEF InGauge, Lerp, GaugeFrame
      <4>2. e.S = Uniform(e, Plain)
        BY <2>1, <2>4, <3>2, <4>1 DEF Uniform
      <4>. QED BY <2>1, <2>5, <2>7, <4>2 DEF Coherent, OneMap, e
    <3>4. CASE JustBuilt(d)
      <4>1. \A r \in Rows(d) : Lerp(d, r) = d.T[r]
        BY <3>4 DEF JustBuilt, Lerp
      <4>2. d.T \in [Rows(d) -> Frames]
        BY DEF Good, Fits
      <4>3. e.S = e.D
        BY <2>1, <3>2, <4>1, <4>2
      <4>. QED BY <2>1, <2>5, <2>7, <4>3 DEF Coherent, OneMap, e
    <3>. QED BY <2>2, <3>3, <3>4
  <2>. QED BY <2>6, <2>7
<1>. QED BY <1>1, <1>2

\* A phase that leaves the tables, the gauge and the fold alone.
LEMMA SameTables ==
  ASSUME NEW A, NEW d, NEW e, Coherent(d, A),
         e.S = d.S, e.D = d.D, e.rows = d.rows, e.gauge = d.gauge,
         e.wipeActive = d.wipeActive, e.effect = d.effect, e.n = d.n, e.mid = d.mid
  PROVE  Coherent(e, A)
<1>1. Rows(e) = Rows(d) /\ GaugeFrame(e) = GaugeFrame(d)
  BY DEF Rows, GaugeFrame
<1>2. Uniform(e, Plain) = Uniform(d, Plain)
  BY <1>1 DEF Uniform
<1>3. OneMap(e)
  BY <1>2 DEF Coherent, OneMap
<1>4. AroundApex(e, A)
  BY DEF Coherent, AroundApex, LiveFolded
<1>5. ~e.wipeActive => InGauge(e)
  BY <1>1 DEF Coherent, InGauge
<1>. QED BY <1>3, <1>4, <1>5 DEF Coherent

\* The build writes brutT only.
LEMMA BuildCoherent ==
  ASSUME NEW A, NEW d, Good(d), Coherent(d, A) PROVE Coherent(Build(d), A)
<1>1. CASE d.interlace < 0
  BY <1>1 DEF Build, Good, Sound, Shape
<1>2. CASE d.interlace >= 0
  <2>1. PICK step \in Nat : Build(d) = Stripe(d, step)
    BY <1>2, NumberAssumption DEF Build, Good, Sound, Shape
  <2>2. d.interlace \in Rows(d)
    BY <1>2, HeightAssumption DEF Good, Sound, Core, Rows
  <2>3. \A r \in 0 .. (d.interlace - 1) : d.T[r] = LiveFrame(d)
    BY <2>2 DEF Good, Core, BuiltRows, Rows
  <2>4. Sound(d) /\ d.T \in [Rows(d) -> Frames]
    BY DEF Good, Fits
  <2>. DEFINE e == Stripe(d, step)
  <2>5. /\ e.S = d.S /\ e.D = d.D /\ e.rows = d.rows /\ e.gauge = d.gauge
        /\ e.wipeActive = d.wipeActive /\ e.effect = d.effect /\ e.n = d.n /\ e.mid = d.mid
    BY <2>2, <2>3, <2>4, StripeBuilds
  <2>. HIDE DEF e
  <2>6. Coherent(e, A) BY <2>5, SameTables
  <2>. QED BY <2>1, <2>6 DEF e
<1>3. d.interlace \in Int BY DEF Good, Sound, Shape
<1>. QED BY <1>1, <1>2, <1>3

\* The ramp writes the ratio only.
LEMMA RampCoherent ==
  ASSUME NEW A, NEW d, Good(d), Coherent(d, A), NEW sw \in Switches
  PROVE  Coherent(Ramp(d, sw), A)
<1>. DEFINE e == Ramp(d, sw)
<1>1. d \in Shape BY DEF Good, Sound
<1>2. \E ratio : e = d \/ e = [d EXCEPT !.buffratio = ratio]
  BY DEF Ramp
<1>. HIDE DEF e
<1>3. /\ e.S = d.S /\ e.D = d.D /\ e.rows = d.rows /\ e.gauge = d.gauge
      /\ e.wipeActive = d.wipeActive /\ e.effect = d.effect /\ e.n = d.n /\ e.mid = d.mid
  BY <1>1, <1>2 DEF Shape
<1>4. Coherent(e, A) BY <1>3, SameTables
<1>. QED BY <1>4 DEF e

\* Rows of one gauge are interpolated to a row of that gauge.
LEMMA KernelWhole ==
  ASSUME NEW A, NEW d, Good(d), Coherent(d, A)
  PROVE  ~Kernel(d).torn
<1>. SUFFICES ASSUME ~d.wipeActive, NEW r \in Rows(d), Lerp(d, r) = Torn PROVE FALSE
  BY DEF Kernel
<1>1. Lerp(d, r) = GaugeFrame(d)
  BY DEF Coherent, InGauge, Lerp
<1>2. GaugeFrame(d).n \in Nat
  BY DEF GaugeFrame, FoldFrame, Plain, Good, Sound, Shape, Gauges
<1>. QED BY <1>1, <1>2 DEF Torn

\* The wipe that ends leaves both tables in the gauge it commits.
LEMMA SettleCoherent ==
  ASSUME NEW A, NEW d, Good(d), Coherent(d, A) PROVE Coherent(Settle(d), A)
<1>. DEFINE counted == [d EXCEPT !.wipeK = @ + 1]
            ended   == IF ~d.wipeActive THEN d
                       ELSE IF counted.wipeK >= d.wipeFrames THEN WipeComplete(counted)
                       ELSE counted
            e       == [ended EXCEPT !.sweepValid = TRUE]
<1>1. d \in Shape BY DEF Good, Sound
<1>2. counted \in Shape BY <1>1 DEF Shape
<1>3. /\ counted.S = d.S /\ counted.D = d.D /\ counted.T = d.T /\ counted.rows = d.rows
      /\ counted.mustInit = d.mustInit /\ counted.effect = d.effect /\ counted.n = d.n
      /\ counted.angle = d.angle /\ counted.mid = d.mid /\ counted.interlace = d.interlace
      /\ counted.wipeActive = d.wipeActive /\ counted.wipeMode = d.wipeMode
      /\ counted.gauge = d.gauge
  BY <1>1 DEF Shape
<1>4. Settle(d) = e BY DEF Settle
<1>. HIDE DEF counted
<1>5. Good(counted)
  BY <1>2, <1>3 DEF Good, Sound, Flags, Fits, Core, LiveFolded, LiveFrame, GaugeFrame,
     BuiltRows, Rows
<1>6. Coherent(counted, A)
  BY <1>3, SameTables
<1>7. d.wipeActive => Coherent(WipeComplete(counted), A) /\ WipeComplete(counted) \in Shape
  <2>. SUFFICES ASSUME d.wipeActive
                PROVE Coherent(WipeComplete(counted), A) /\ WipeComplete(counted) \in Shape
    OBVIOUS
  <2>. DEFINE w == WipeComplete(counted)
  <2>1. LiveFolded(counted)
    BY <1>3, <1>5 DEF Good, Sound, Flags
  <2>2. /\ Sized(w) /\ ~w.wipeActive /\ LiveFolded(w) /\ w.mid = counted.mid
        /\ w.gauge = [active |-> TRUE, n |-> counted.n, angle |-> counted.angle,
                      mid |-> counted.mid]
        /\ \A r \in Rows(w) : w.S[r] = GaugeFrame(w) /\ w.D[r] = GaugeFrame(w)
    BY <1>3, <1>5, WipeCompleteSized DEF Good, Sized
  <2>. HIDE DEF w
  <2>3. AroundApex(w, A)
    BY <1>6, <2>1, <2>2 DEF Coherent, AroundApex, LiveFolded
  <2>. QED BY <2>2, <2>3 DEF Coherent, InGauge, OneMap, Sized, Sound, w
<1>8. Coherent(ended, A) /\ ended \in Shape
  BY <1>1, <1>2, <1>6, <1>7
<1>. HIDE DEF ended
<1>9. /\ e.S = ended.S /\ e.D = ended.D /\ e.rows = ended.rows /\ e.gauge = ended.gauge
      /\ e.wipeActive = ended.wipeActive /\ e.effect = ended.effect /\ e.n = ended.n
      /\ e.mid = ended.mid
  BY <1>8 DEF Shape
<1>. HIDE DEF e
<1>10. Coherent(e, A) BY <1>8, <1>9, SameTables
<1>. QED BY <1>4, <1>10

-----------------------------------------------------------------------------
\* The inductive invariant of this module.
GaugeInv(A) == /\ IInv /\ ~drawn.torn
               /\ data = InitData \/ (Good(data) /\ Coherent(data, A))

\* A canvas that keeps its size is resized once, before the first call.
LEMMA ResizeCoherent ==
  ASSUME NEW A, NEW h \in Heights, Heights = {h},
         NEW d, d = InitData \/ (Good(d) /\ Coherent(d, A))
  PROVE  LET e == Resize(d, h)
         IN  /\ AroundApex(e, A) /\ (e.mustInit => ~e.gauge.active /\ ~e.wipeActive)
             /\ ~e.mustInit => Coherent(e, A)
<1>1. CASE Good(d) /\ Coherent(d, A)
  BY <1>1 DEF Good, Sound, Coherent, Resize
<1>2. CASE d = InitData
  <2>. DEFINE e == Resize(d, h)
  <2>1. d \in Shape /\ d.rows # h /\ ~d.effect /\ ~d.gauge.active /\ ~d.wipeActive
    BY <1>2, InitDataShape, HeightAssumption DEF InitData
  <2>2. e = [d EXCEPT !.rows = h, !.mid = h \div 2, !.mustInit = TRUE,
                      !.S = NoTable, !.D = NoTable, !.T = NoTable]
    BY <2>1 DEF Resize
  <2>. HIDE DEF e
  <2>3. e.mustInit /\ e.effect = d.effect /\ e.gauge = d.gauge /\ e.wipeActive = d.wipeActive
    BY <2>1, <2>2 DEF Shape
  <2>. QED BY <2>1, <2>3 DEF AroundApex, LiveFolded, e
<1>. QED BY <1>1, <1>2

\* One call, phase after phase.
LEMMA FrameCoherent ==
  ASSUME NEW A, NEW h \in Heights, Heights = {h}, GaugeInv(A),
         NEW zf \in Configs \cup {NoConfig}, zf \in Configs /\ zf.effect => zf.mid = A,
         NEW style \in Styles,
         NEW frames \in WipeParams, NEW sw \in Switches,
         Frame(zf, h, style, frames, sw)
  PROVE  GaugeInv(A)'
<1>. DEFINE sized  == Resize(data, h)
            taken  == Accept(sized, zf, style, frames)
            ready  == InitBuffers(taken)
            swapped == Swap(ready)
            built  == Build(swapped)
            ramped == Ramp(built, sw)
<1>1. data' = Settle(ramped) /\ drawn' = Kernel(ramped)
  BY DEF Frame
<1>2. Sized(sized)
  BY ResizeSized DEF GaugeInv, IInv
<1>3. /\ AroundApex(sized, A) /\ (sized.mustInit => ~sized.gauge.active /\ ~sized.wipeActive)
      /\ ~sized.mustInit => Coherent(sized, A)
  BY ResizeCoherent DEF GaugeInv
<1>. HIDE DEF sized
<1>4. Sized(taken)
  BY <1>2, AcceptSized
<1>5. /\ AroundApex(taken, A) /\ (taken.mustInit => ~taken.gauge.active)
      /\ ~taken.mustInit => Coherent(taken, A)
  BY <1>2, <1>3, AcceptCoherent
<1>. HIDE DEF taken
<1>6. Good(ready) /\ AroundApex(ready, A) /\ (Coherent(ready, A) \/ JustBuilt(ready))
  BY <1>4, <1>5, InitBuffersCoherent
<1>. HIDE DEF ready
<1>7. Good(swapped) /\ Coherent(swapped, A)
  BY <1>6, SwapGood, SwapCoherent
<1>. HIDE DEF swapped
<1>8. Good(built) /\ Coherent(built, A)
  BY <1>7, BuildGood, BuildCoherent
<1>. HIDE DEF built
<1>9. Good(ramped) /\ Coherent(ramped, A)
  BY <1>8, RampGood, RampCoherent
<1>. HIDE DEF ramped
<1>10. Good(data') /\ Coherent(data', A)
  BY <1>1, <1>9, SettleGood, SettleCoherent
<1>11. ~drawn'.torn
  BY <1>1, <1>9, KernelWhole
<1>12. IInv'
  BY FrameGood DEF GaugeInv
<1>. QED BY <1>10, <1>11, <1>12 DEF GaugeInv

\* The invariant holds in every state of every behaviour.
LEMMA GaugeInvariant ==
  ASSUME NEW CONSTANT A, \A c \in Configs : c.effect => c.mid = A,
         NEW CONSTANT h \in Heights, Heights = {h}
  PROVE  Spec => []GaugeInv(A)
<1>1. Init => GaugeInv(A)
  BY DEF Init, GaugeInv, IInv
<1>2. GaugeInv(A) /\ [Next]_vars => GaugeInv(A)'
  <2>. SUFFICES ASSUME GaugeInv(A), [Next]_vars PROVE GaugeInv(A)'
    OBVIOUS
  <2>1. CASE Next
    BY <2>1, FrameCoherent DEF Next
  <2>2. CASE UNCHANGED vars
    <3>1. data' = data /\ drawn' = drawn BY <2>2 DEF vars
    <3>. QED BY <3>1 DEF GaugeInv, IInv
  <2>. QED BY <2>1, <2>2
<1>. QED BY <1>1, <1>2, PTL DEF Spec

\* On a canvas of one size, with folds around one apex, both tables are in the
\* committed gauge outside a wipe: "brutS et brutD doivent echantillonner dans
\* le meme referentiel".
THEOREM TablesShareTheGauge ==
  ASSUME NEW CONSTANT A, \A c \in Configs : c.effect => c.mid = A,
         NEW CONSTANT h \in Heights, Heights = {h}
  PROVE  Spec => []GaugeCoherent
<1>1. GaugeInv(A) => GaugeCoherent
  BY DEF GaugeInv, GaugeCoherent, InitData, Coherent, InGauge
<1>. QED BY <1>1, GaugeInvariant, PTL

\* ... and no frame is interpolated between two gauges.
THEOREM NoFrameIsTorn ==
  ASSUME NEW CONSTANT A, \A c \in Configs : c.effect => c.mid = A,
         NEW CONSTANT h \in Heights, Heights = {h}
  PROVE  Spec => []NoTornFrame
<1>1. GaugeInv(A) => NoTornFrame
  BY DEF GaugeInv, NoTornFrame
<1>. QED BY <1>1, GaugeInvariant, PTL

\* ... and a wipe shows nothing but two complete maps.
THEOREM WipeSourceIsWhole ==
  ASSUME NEW CONSTANT A, \A c \in Configs : c.effect => c.mid = A,
         NEW CONSTANT h \in Heights, Heights = {h}
  PROVE  Spec => []WipeSourceWhole
<1>1. GaugeInv(A) => WipeSourceWhole
  BY DEF GaugeInv, WipeSourceWhole, InitData, Coherent, OneMap
<1>. QED BY <1>1, GaugeInvariant, PTL

-----------------------------------------------------------------------------
(* The engine that delivers the configurations.                            *)

\* What the engine keeps the type of.
EngineTyped == /\ zfd \in Composed /\ screen \in Heights
               /\ params \in ParamSets /\ switch \in Switches

\* A configuration of the engine is one the filter may receive.
LEMMA ComposedFields ==
  ASSUME NEW z \in Composed
  PROVE  z \in Configs /\ z.effect \in BOOLEAN /\ z.n \in 2 .. 25
BY ComposedAssumption DEF Composed

\* The middle of the screen is a place for the apex, as are its two edges.
LEMMA MiddlesComposed ==
  ASSUME NEW z \in Composed, screen \in Heights, NEW m \in Middles
  PROVE  [z EXCEPT !.mid = m] \in Composed
<1>. DEFINE Mids == {1} \cup UNION {{h - 1, h \div 2} : h \in Heights}
<1>1. m \in Mids
  BY DEF Middles, Centre
<1>. HIDE DEF Mids
<1>2. Composed = [effect : BOOLEAN, n : 2 .. 25,
                  angle : {0} \cup Angles \cup {p.angle : p \in ParamSets}, mid : Mids]
  BY DEF Composed, Mids
<1>. QED BY <1>1, <1>2

\* The number of sectors of a re-sectorisation: half, double or the one drawn,
\* it stays within the range of the kernels.
LEMMA ResectorBounds ==
  ASSUME NEW cur \in 2 .. 25, NEW n \in FoldCounts
  PROVE  ResectorN(cur, n) \in 2 .. 25
<1>1. n \in 2 .. 25 BY EngineAssumption
<1>. QED BY <1>1 DEF ResectorN

\* The draws of a window compose configurations.
LEMMA KaleidoComposed ==
  ASSUME NEW z \in Composed, screen \in Heights
  PROVE  KaleidoDraws(z) \subseteq Composed
<1>1. [z EXCEPT !.effect = FALSE] \in Composed
  BY DEF Composed
<1>2. ASSUME NEW n \in FoldCounts, NEW a \in Angles
      PROVE  [effect |-> TRUE, n |-> n, angle |-> a, mid |-> Centre] \in Composed
  BY EngineAssumption DEF Composed, Centre
<1>. DEFINE Fold(n, a) == [effect |-> TRUE, n |-> n, angle |-> a, mid |-> Centre]
<1>3. {Fold(n, a) : n \in FoldCounts, a \in Angles} \subseteq Composed
  <2>1. \A n \in FoldCounts, a \in Angles : Fold(n, a) \in Composed
    BY <1>2
  <2>. HIDE DEF Fold
  <2>. QED BY <2>1
<1>. DEFINE Folds == {Fold(n, a) : n \in FoldCounts, a \in Angles}
            Off   == [z EXCEPT !.effect = FALSE]
<1>4. KaleidoDraws(z) =
        {z} \cup (IF params.manual THEN {} ELSE IF z.effect THEN {Off} ELSE Folds)
  BY DEF KaleidoDraws
<1>5. Off \in Composed /\ Folds \subseteq Composed
  BY <1>1, <1>3
<1>. HIDE DEF Folds, Off
<1>. QED BY <1>4, <1>5

\* ... and so do the parameter "Kaleido" and the manual fold.
LEMMA ForcedComposed ==
  ASSUME NEW z \in Composed, params \in ParamSets
  PROVE  Forced(z) \in Composed
<1>. DEFINE As == {0} \cup Angles \cup {p.angle : p \in ParamSets}
<1>1. [z EXCEPT !.effect = FALSE] \in Composed /\ [z EXCEPT !.effect = TRUE] \in Composed
  BY DEF Composed
<1>2. params.n \in 2 .. 25
  BY EngineAssumption
<1>3. params.angle \in As
  OBVIOUS
<1>. HIDE DEF As
<1>4. Composed = [effect : BOOLEAN, n : 2 .. 25, angle : As,
                  mid : {1} \cup UNION {{h - 1, h \div 2} : h \in Heights}]
  BY DEF Composed, As
<1>5. [z EXCEPT !.effect = TRUE, !.n = params.n, !.angle = params.angle] \in Composed
  BY <1>2, <1>3, <1>4
<1>. QED BY <1>1, <1>5 DEF Forced

\* ... and a goom.
LEMMA GoomComposed ==
  ASSUME NEW z \in Composed, screen \in Heights
  PROVE  GoomDraws(z) \subseteq Composed
<1>1. \A m \in Middles : [z EXCEPT !.mid = m] \in Composed
  BY MiddlesComposed
<1>2. Centre \in Middles
  BY DEF Middles
<1>3. ASSUME NEW n \in FoldCounts, NEW a \in NearAngles(z.angle)
      PROVE  [z EXCEPT !.mid = Centre, !.n = ResectorN(z.n, n), !.angle = a] \in Composed
  <2>. DEFINE k == ResectorN(z.n, n)
              y == [z EXCEPT !.mid = Centre]
  <2>1. k \in 2 .. 25
    BY ResectorBounds, ComposedFields
  <2>2. a \in Angles
    BY DEF NearAngles
  <2>3. y \in Composed
    BY <1>1, <1>2
  <2>4. [z EXCEPT !.mid = Centre, !.n = k, !.angle = a] = [y EXCEPT !.n = k, !.angle = a]
    OBVIOUS
  <2>. HIDE DEF k, y
  <2>5. [y EXCEPT !.n = k, !.angle = a] \in Composed
    BY <2>1, <2>2, <2>3 DEF Composed
  <2>. QED BY <2>4, <2>5 DEF k
<1>. DEFINE Fold(n, a) == [z EXCEPT !.mid = Centre, !.n = ResectorN(z.n, n), !.angle = a]
            Free  == {[z EXCEPT !.mid = m] : m \in Middles}
            Still == {[z EXCEPT !.mid = Centre]}
            Folds == {Fold(n, a) : n \in FoldCounts, a \in NearAngles(z.angle)}
<1>4. GoomDraws(z) = IF ~z.effect THEN Free ELSE IF params.manual THEN Still ELSE Folds
  BY DEF GoomDraws
<1>5. Folds \subseteq Composed
  <2>1. \A n \in FoldCounts, a \in NearAngles(z.angle) : Fold(n, a) \in Composed
    BY <1>3
  <2>. HIDE DEF Fold
  <2>. QED BY <2>1
<1>6. Free \subseteq Composed
  BY <1>1
<1>7. Still \subseteq Composed
  BY <1>1, <1>2
<1>. HIDE DEF Free, Still, Folds
<1>. QED BY <1>4, <1>5, <1>6, <1>7

\* A frame of the engine is one call of the filter, with the configuration
\* composed in that frame or with none.
LEMMA UpdateCalls ==
  ASSUME EngineTyped, NEW goom \in BOOLEAN, NEW accel \in BOOLEAN, NEW trim \in BOOLEAN,
         NEW slow \in BOOLEAN, NEW force \in ForceModes,
         Update(goom, force, accel, trim, slow)
  PROVE  /\ EngineTyped'
         /\ \E zf \in {zfd', NoConfig}, frames \in WipeParams :
              Frame(zf, screen, params.style, frames, switch')
<1>. DEFINE unlocked == lockvar <= 1
            window   == goom \/ force > 0 \/ Aged
<1>1. PICK drawn_z \in IF window THEN KaleidoDraws(zfd) ELSE {zfd} :
        \E z \in IF unlocked /\ goom THEN GoomDraws(Forced(drawn_z)) ELSE {Forced(drawn_z)} :
          /\ zfd' = z
          /\ UNCHANGED <<screen, params>>
          /\ switch' \in Amounts \cup Chases \cup Switches \cup {switch}
          /\ \E wanted \in BOOLEAN, frames \in WipeParams :
               Frame(Delivered(z, wanted), screen, params.style, frames, switch')
  <2>. DEFINE NextLocks == IF unlocked /\ goom THEN GoomLocks(accel)
                       ELSE {IF unlocked THEN 0 ELSE lockvar - 1}
              asked == /\ force # -1
                       /\ \/ unlocked /\ goom /\ accel
                          \/ unlocked /\ slow
                          \/ trim \/ force > 0
              ratios(lock) == IF asked
                                THEN IF force > 0 THEN Chases
                                     ELSE IF goom THEN Switches ELSE Amounts
                                ELSE IF unlocked /\ (slow \/ (goom /\ lock > LongLock))
                                       THEN Amounts ELSE {switch}
              Step(z, lock) == /\ zfd' = z
                               /\ switch' \in ratios(lock)
                               /\ \E frames \in WipeParams :
                                    Frame(Delivered(z, asked \/ Aged), screen, params.style,
                                          frames, switch')
                               /\ UNCHANGED <<screen, params>>
  <2>1. \E d \in IF window THEN KaleidoDraws(zfd) ELSE {zfd} :
        \E forced \in {Forced(d)} :
        \E z \in IF unlocked /\ goom THEN GoomDraws(forced) ELSE {forced} :
        \E lock \in NextLocks : Step(z, lock)
    BY DEF Update
  <2>2. \A lock : ratios(lock) \subseteq Amounts \cup Chases \cup Switches \cup {switch}
    OBVIOUS
  <2>3. (asked \/ Aged) \in BOOLEAN
    OBVIOUS
  <2>. HIDE DEF ratios, asked, NextLocks, window, unlocked
  <2>. QED BY <2>1, <2>2, <2>3
<1>2. drawn_z \in Composed
  BY KaleidoComposed DEF EngineTyped
<1>3. Forced(drawn_z) \in Composed
  BY <1>2, ForcedComposed DEF EngineTyped
<1>4. zfd' \in Composed
  BY <1>1, <1>3, GoomComposed DEF EngineTyped
<1>5. switch' \in Switches
  BY <1>1 DEF EngineTyped, Amounts, Chases
<1>6. \A wanted : Delivered(zfd', wanted) \in {zfd', NoConfig}
  BY DEF Delivered
<1>. QED BY <1>1, <1>4, <1>5, <1>6 DEF EngineTyped

\* So every step of the engine is a call of the filter, or leaves it alone.
LEMMA EngineCalls ==
  ASSUME EngineTyped, EngineNext
  PROVE  /\ EngineTyped'
         /\ \/ UNCHANGED <<vars, zfd>>
            \/ \E zf \in {zfd', NoConfig}, frames \in WipeParams :
                 Frame(zf, screen, params.style, frames, switch')
<1>1. CASE SetParams
  BY <1>1 DEF SetParams, EngineTyped
<1>2. CASE SetResolution
  BY <1>2 DEF SetResolution, EngineTyped
<1>3. CASE Tick
  BY <1>3, UpdateCalls DEF Tick
<1>. QED BY <1>1, <1>2, <1>3 DEF EngineNext

\* The engine starts with a configuration it may compose.
LEMMA EngineStarts == EngineInit => EngineTyped
BY DEF EngineInit, EngineTyped, Composed, Amounts

\* The call of an engine step is a step of the filter.
LEMMA CallIsStep ==
  ASSUME EngineTyped, EngineTyped', NEW zf \in {zfd', NoConfig}, NEW frames \in WipeParams,
         Frame(zf, screen, params.style, frames, switch')
  PROVE  /\ zf \in Configs \cup {NoConfig} /\ params.style \in Styles
         /\ \E sw \in Switches : Frame(zf, screen, params.style, frames, sw)
<1>1. zfd' \in Configs
  BY ComposedAssumption DEF EngineTyped
<1>2. params.style \in Styles
  BY EngineAssumption DEF EngineTyped
<1>. QED BY <1>1, <1>2 DEF EngineTyped

\* The engine keeps its type.
LEMMA EngineTypeCorrect == EngineSpec => []EngineTyped
<1>1. EngineTyped /\ [EngineNext]_gvars => EngineTyped'
  <2>. SUFFICES ASSUME EngineTyped, [EngineNext]_gvars PROVE EngineTyped'
    OBVIOUS
  <2>1. CASE EngineNext BY <2>1, EngineCalls
  <2>2. CASE UNCHANGED gvars BY <2>2 DEF gvars, engine, EngineTyped
  <2>. QED BY <2>1, <2>2
<1>. QED BY <1>1, EngineStarts, PTL DEF EngineSpec

\* The engine uses the filter as its specification says it may be used: what
\* is true of every behaviour of ZoomFilter is true under goom_update, in its
\* automatic, frozen, forced and manual modes and through changes of size.
THEOREM EngineImplementsFilter == EngineSpec => Spec
<1>1. EngineInit => Init
  BY DEF EngineInit
<1>2. EngineTyped /\ [EngineNext]_gvars => [Next]_vars
  <2>. SUFFICES ASSUME EngineTyped, EngineNext, ~(UNCHANGED vars) PROVE Next
    BY DEF gvars
  <2>1. PICK zf \in {zfd', NoConfig}, frames \in WipeParams :
          EngineTyped' /\ Frame(zf, screen, params.style, frames, switch')
    BY EngineCalls
  <2>2. /\ zf \in Configs \cup {NoConfig} /\ params.style \in Styles
        /\ \E sw \in Switches : Frame(zf, screen, params.style, frames, sw)
    BY <2>1, CallIsStep
  <2>. QED BY <2>2 DEF Next, EngineTyped
<1>. QED BY <1>1, <1>2, EngineTypeCorrect, PTL DEF EngineSpec, Spec

-----------------------------------------------------------------------------
(* The sectors of the fold in force.                                       *)

\* The kernels have mirrors for the fold in force.
Dimensioned(d) == d.effect => d.n \in 2 .. 25

\* The phases of a call write the fold in the delivery only.
LEMMA PhasesKeepFold ==
  ASSUME NEW d, Good(d), NEW sw \in Switches
  PROVE  /\ Swap(d).effect = d.effect /\ Swap(d).n = d.n
         /\ Build(d).effect = d.effect /\ Build(d).n = d.n
         /\ Ramp(d, sw).effect = d.effect /\ Ramp(d, sw).n = d.n
         /\ Settle(d).effect = d.effect /\ Settle(d).n = d.n
<1>1. d \in Shape
  BY DEF Good, Sound
<1>2. Swap(d).effect = d.effect /\ Swap(d).n = d.n
  <2>1. CASE d.interlace = -1 BY <2>1, SwapFields
  <2>2. CASE d.interlace # -1 BY <2>2 DEF Swap
  <2>. QED BY <2>1, <2>2
<1>3. Build(d).effect = d.effect /\ Build(d).n = d.n
  BY <1>1 DEF Build, Stripe, Shape
<1>4. Ramp(d, sw).effect = d.effect /\ Ramp(d, sw).n = d.n
  BY <1>1 DEF Ramp, Shape
<1>5. Settle(d).effect = d.effect /\ Settle(d).n = d.n
  BY <1>1 DEF Settle, WipeComplete, CommitGauge, Shape
<1>. QED BY <1>2, <1>3, <1>4, <1>5

\* A delivery of a legal fold puts a legal fold in force.
LEMMA AcceptDimensioned ==
  ASSUME NEW d, Sized(d), Dimensioned(d), NEW zf \in Configs \cup {NoConfig},
         zf \in Configs => Dimensioned(zf), NEW style \in Styles, NEW frames \in WipeParams
  PROVE  Dimensioned(Accept(d, zf, style, frames))
<1>1. CASE zf = NoConfig \/ d.interlace # -2
  BY <1>1 DEF Accept
<1>2. CASE zf # NoConfig /\ d.interlace = -2
  <2>. DEFINE c    == IF d.wipeActive THEN WipeComplete(d) ELSE d
              fold == NextFold(c, zf)
              e    == Taken(c, zf, style, frames)
  <2>1. c \in Shape
    BY WipeCompleteSized DEF Sized, Sound
  <2>2. Accept(d, zf, style, frames) = e
    BY <1>2 DEF Accept
  <2>. HIDE DEF c
  <2>3. e.effect = zf.effect /\ e.n = fold[1]
    BY <2>1 DEF Taken, Shape
  <2>4. zf.effect => fold[1] = zf.n
    BY <1>2 DEF NextFold, Dimensioned
  <2>. QED BY <1>2, <2>2, <2>3, <2>4 DEF Dimensioned
<1>. QED BY <1>1, <1>2

\* One call, phase after phase.
LEMMA FrameDimensioned ==
  ASSUME IInv, Dimensioned(data), NEW zf \in Configs \cup {NoConfig},
         zf \in Configs => Dimensioned(zf), NEW h \in Heights, NEW style \in Styles,
         NEW frames \in WipeParams, NEW sw \in Switches, Frame(zf, h, style, frames, sw)
  PROVE  Dimensioned(data')
<1>. DEFINE sized   == Resize(data, h)
            taken   == Accept(sized, zf, style, frames)
            ready   == InitBuffers(taken)
            swapped == Swap(ready)
            built   == Build(swapped)
            ramped  == Ramp(built, sw)
<1>1. data' = Settle(ramped)
  BY DEF Frame
<1>2. data \in Shape
  BY InitDataShape DEF IInv, Good, Sound
<1>3. Sized(sized) /\ sized.effect = data.effect /\ sized.n = data.n
  BY <1>2, ResizeSized DEF IInv, Resize, Shape
<1>4. Dimensioned(sized)
  BY <1>3 DEF Dimensioned
<1>. HIDE DEF sized
<1>5. Sized(taken) /\ Dimensioned(taken)
  BY <1>3, <1>4, AcceptSized, AcceptDimensioned
<1>. HIDE DEF taken
<1>6. Good(ready) /\ Dimensioned(ready)
  BY <1>5, InitBuffersGood DEF Dimensioned
<1>. HIDE DEF ready
<1>7. Good(swapped) /\ Dimensioned(swapped)
  BY <1>6, SwapGood, PhasesKeepFold DEF Dimensioned
<1>. HIDE DEF swapped
<1>8. Good(built) /\ Dimensioned(built)
  BY <1>7, BuildGood, PhasesKeepFold DEF Dimensioned
<1>. HIDE DEF built
<1>9. Good(ramped) /\ Dimensioned(ramped)
  BY <1>8, RampGood, PhasesKeepFold DEF Dimensioned
<1>. HIDE DEF ramped
<1>. QED BY <1>1, <1>9, PhasesKeepFold DEF Dimensioned

\* What the engine keeps in every mode.
SectorsInv == EngineTyped /\ IInv /\ Dimensioned(data)

\* A step of the engine keeps it.
LEMMA EngineSectors ==
  ASSUME SectorsInv, [EngineNext]_gvars PROVE SectorsInv'
<1>1. CASE EngineNext
  <2>1. EngineTyped'
    BY <1>1, EngineCalls DEF SectorsInv
  <2>2. CASE UNCHANGED vars
    BY <2>1, <2>2 DEF SectorsInv, vars, IInv
  <2>3. CASE ~(UNCHANGED vars)
    <3>1. PICK zf \in {zfd', NoConfig}, frames \in WipeParams :
            Frame(zf, screen, params.style, frames, switch')
      BY <1>1, <2>3, EngineCalls DEF SectorsInv
    <3>2. /\ zf \in Configs \cup {NoConfig} /\ params.style \in Styles
          /\ \E sw \in Switches : Frame(zf, screen, params.style, frames, sw)
      BY <2>1, <3>1, CallIsStep DEF SectorsInv
    <3>3. zf \in Configs => Dimensioned(zf)
      BY <2>1, ConfigAssumption DEF EngineTyped, Composed, Dimensioned
    <3>4. IInv'
      BY <3>2, FrameGood DEF SectorsInv, EngineTyped
    <3>5. Dimensioned(data')
      BY <3>2, <3>3, FrameDimensioned DEF SectorsInv, EngineTyped
    <3>. QED BY <2>1, <3>4, <3>5 DEF SectorsInv
  <2>. QED BY <2>2, <2>3
<1>2. CASE UNCHANGED gvars
  BY <1>2 DEF gvars, vars, engine, SectorsInv, EngineTyped, IInv
<1>. QED BY <1>1, <1>2

\* The fold composed and the fold in force have a legal number of sectors, in
\* every mode and whatever the user writes in the parameters: "N dans [N/2, 2N]".
THEOREM SectorsAlwaysLegal == EngineSpec => []SectorsLegal
<1>1. EngineInit => SectorsInv
  BY EngineStarts DEF EngineInit, Init, SectorsInv, IInv, Dimensioned, InitData
<1>2. SectorsInv /\ [EngineNext]_gvars => SectorsInv'
  BY EngineSectors
<1>3. SectorsInv => SectorsLegal
  BY DEF SectorsInv, SectorsLegal, EngineTyped, Composed, Dimensioned
<1>. QED BY <1>1, <1>2, <1>3, PTL DEF EngineSpec

-----------------------------------------------------------------------------
(* The fold of the manual mode.                                            *)

SameFold(d, e) == e.effect = d.effect /\ e.n = d.n /\ e.angle = d.angle

\* The fold of the configuration zf.
OfConfig(d, zf) == d.effect = zf.effect /\ (zf.effect => d.n = zf.n /\ d.angle = zf.angle)

LEMMA RestKeepsFold ==
  ASSUME NEW d, d \in Shape, NEW sw \in Switches
  PROVE  /\ SameFold(d, Swap(d)) /\ SameFold(d, Build(d))
         /\ SameFold(d, Ramp(d, sw)) /\ SameFold(d, Settle(d))
<1>1. SameFold(d, Swap(d))
  BY DEF SameFold, Swap, Bake, CommitGauge, Shape
<1>2. SameFold(d, Build(d))
  BY DEF SameFold, Build, Stripe, Shape
<1>3. SameFold(d, Ramp(d, sw))
  BY DEF SameFold, Ramp, Shape
<1>4. SameFold(d, Settle(d))
  BY DEF SameFold, Settle, WipeComplete, CommitGauge, Shape
<1>. QED BY <1>1, <1>2, <1>3, <1>4

LEMMA InitKeepsFold ==
  ASSUME NEW d, d \in Shape PROVE SameFold(d, InitBuffers(d))
BY DEF SameFold, InitBuffers, Stripe, Shape

\* A delivery puts its own fold in force or, when a table is being built, none.
LEMMA AcceptTakesFold ==
  ASSUME NEW d, Sized(d), NEW zf \in Configs \cup {NoConfig},
         zf \in Configs /\ zf.effect => zf.n # 0,
         NEW style \in Styles, NEW frames \in WipeParams
  PROVE  LET e == Accept(d, zf, style, frames)
         IN  IF zf = NoConfig \/ d.interlace # -2 THEN e = d ELSE OfConfig(e, zf)
<1>1. CASE zf = NoConfig \/ d.interlace # -2
  BY <1>1 DEF Accept
<1>2. CASE zf # NoConfig /\ d.interlace = -2
  <2>. DEFINE c    == IF d.wipeActive THEN WipeComplete(d) ELSE d
              fold == NextFold(c, zf)
              e    == Taken(c, zf, style, frames)
  <2>1. c \in Shape
    BY WipeCompleteSized DEF Sized, Sound
  <2>2. Accept(d, zf, style, frames) = e
    BY <1>2 DEF Accept
  <2>. HIDE DEF c
  <2>3. e.effect = zf.effect /\ e.n = fold[1] /\ e.angle = fold[2]
    BY <2>1 DEF Taken, Shape
  <2>4. zf.effect => fold[1] = zf.n /\ fold[2] = zf.angle
    BY <1>2 DEF NextFold
  <2>. QED BY <1>2, <2>2, <2>3, <2>4 DEF OfConfig
<1>. QED BY <1>1, <1>2

\* So a call keeps the fold in force or takes that of the configuration it is
\* given, and takes it if no table is being built.
LEMMA CallTakesFold ==
  ASSUME IInv, NEW zf \in Configs \cup {NoConfig},
         zf \in Configs /\ zf.effect => zf.n # 0,
         NEW h \in Heights, NEW style \in Styles, NEW frames \in WipeParams,
         NEW sw \in Switches, Frame(zf, h, style, frames, sw)
  PROVE  IF zf = NoConfig \/ data.interlace # -2
           THEN SameFold(data, data') ELSE OfConfig(data', zf)
<1>. DEFINE sized   == Resize(data, h)
            taken   == Accept(sized, zf, style, frames)
            ready   == InitBuffers(taken)
            swapped == Swap(ready)
            built   == Build(swapped)
            ramped  == Ramp(built, sw)
<1>1. data' = Settle(ramped)
  BY DEF Frame
<1>2. data \in Shape
  BY InitDataShape DEF IInv, Good, Sound
<1>3. Sized(sized) /\ SameFold(data, sized) /\ sized.interlace = data.interlace
  BY <1>2, ResizeSized DEF IInv, Resize, Shape, SameFold
<1>. HIDE DEF sized
<1>4. Sized(taken) /\ IF zf = NoConfig \/ data.interlace # -2
                        THEN taken = sized ELSE OfConfig(taken, zf)
  BY <1>3, AcceptSized, AcceptTakesFold
<1>. HIDE DEF taken
<1>5. Good(ready) /\ SameFold(taken, ready)
  BY <1>4, InitBuffersGood, InitKeepsFold DEF Sized, Sound
<1>. HIDE DEF ready
<1>6. Good(swapped) /\ SameFold(ready, swapped)
  BY <1>5, SwapGood, RestKeepsFold DEF Good, Sound
<1>. HIDE DEF swapped
<1>7. Good(built) /\ SameFold(swapped, built)
  BY <1>6, BuildGood, RestKeepsFold DEF Good, Sound
<1>. HIDE DEF built
<1>8. Good(ramped) /\ SameFold(built, ramped)
  BY <1>7, RampGood, RestKeepsFold DEF Good, Sound
<1>. HIDE DEF ramped
<1>9. SameFold(ramped, data')
  BY <1>1, <1>8, RestKeepsFold DEF Good, Sound
<1>10. SameFold(taken, data')
  BY <1>5, <1>6, <1>7, <1>8, <1>9 DEF SameFold
<1>. QED BY <1>3, <1>4, <1>10 DEF SameFold, OfConfig

\* The fold in force is the one the parameters ask for.
InForce(p) == data.effect /\ data.n = p.n /\ data.angle = p.angle

\* The parameters set the fold: "Kaleido" neither off nor on, "manual" ticked.
ByHand == params.manual /\ params.mode = 1

\* Under them a frame changes the fold in force for theirs only.  Unless a table
\* is being built, which drops the delivery, it does so when they change, frozen
\* or not, and when nothing was delivered for long, unless frozen.
FoldFollows ==
  Tick /\ ByHand =>
    /\ SameFold(data, data') \/ InForce(params)'
    /\ data.interlace = -2 /\ (ManualChange \/ (Aged /\ ~params.freeze)) => InForce(params)'

\* The frames since a configuration was last wanted never exceed the delay between
\* two changes (TIME_BTW_CHG) by more than one.
NeverLate == sinceChange \in 0 .. (TimeBtwChg + 1)

\* With the parameters set by hand what is composed is their fold, whatever a
\* goom draws, and what is delivered is what is composed.
LEMMA UpdateByHand ==
  ASSUME EngineTyped, ByHand, NEW goom \in BOOLEAN, NEW accel \in BOOLEAN,
         NEW trim \in BOOLEAN, NEW slow \in BOOLEAN, NEW force \in ForceModes,
         Update(goom, force, accel, trim, slow)
  PROVE  /\ zfd'.effect /\ zfd'.n = params.n /\ zfd'.angle = params.angle
         /\ UNCHANGED params
         /\ \E zf \in {zfd', NoConfig}, frames \in WipeParams :
              /\ ManualChange \/ (Aged /\ ~params.freeze) => zf = zfd'
              /\ Frame(zf, screen, params.style, frames, switch')
<1>. DEFINE unlocked == lockvar <= 1
            window   == goom \/ force > 0 \/ Aged
<1>1. PICK drawn_z \in IF window THEN KaleidoDraws(zfd) ELSE {zfd} :
        /\ zfd' \in IF unlocked /\ goom THEN GoomDraws(Forced(drawn_z)) ELSE {Forced(drawn_z)}
        /\ UNCHANGED params
        /\ \E asked \in BOOLEAN, frames \in WipeParams :
             Frame(Delivered(zfd', asked \/ Aged), screen, params.style, frames, switch')
  BY DEF Update
<1>2. drawn_z \in Composed
  BY KaleidoComposed DEF EngineTyped
<1>. DEFINE y == Forced(drawn_z)
<1>3. y \in Composed
  BY <1>2, ForcedComposed DEF EngineTyped
<1>4. y.effect /\ y.n = params.n /\ y.angle = params.angle
  <2>1. y = [drawn_z EXCEPT !.effect = TRUE, !.n = params.n, !.angle = params.angle]
    BY DEF Forced, ByHand
  <2>. HIDE DEF y
  <2>. QED BY <1>2, <2>1 DEF Composed
<1>. HIDE DEF y
<1>5. GoomDraws(y) = {[y EXCEPT !.mid = Centre]}
  BY <1>4 DEF GoomDraws, ByHand
<1>6. zfd' = y \/ zfd' = [y EXCEPT !.mid = Centre]
  BY <1>1, <1>5 DEF y
<1>7. zfd'.effect /\ zfd'.n = params.n /\ zfd'.angle = params.angle
  BY <1>3, <1>4, <1>6 DEF Composed
<1>8. \A asked \in BOOLEAN :
        /\ Delivered(zfd', asked \/ Aged) \in {zfd', NoConfig}
        /\ ManualChange \/ (Aged /\ ~params.freeze) => Delivered(zfd', asked \/ Aged) = zfd'
  BY DEF Delivered
<1>. QED BY <1>1, <1>7, <1>8

LEMMA TickFollows ==
  ASSUME SectorsInv, EngineNext PROVE FoldFollows
<1>. SUFFICES ASSUME Tick, ByHand
              PROVE  /\ SameFold(data, data') \/ InForce(params)'
                     /\ data.interlace = -2 /\ (ManualChange \/ (Aged /\ ~params.freeze))
                          => InForce(params)'
  BY DEF FoldFollows
<1>1. EngineTyped' /\ EngineTyped
  BY EngineCalls DEF SectorsInv
<1>2. /\ zfd'.effect /\ zfd'.n = params.n /\ zfd'.angle = params.angle
      /\ UNCHANGED params
      /\ \E zf \in {zfd', NoConfig}, frames \in WipeParams :
           /\ ManualChange \/ (Aged /\ ~params.freeze) => zf = zfd'
           /\ Frame(zf, screen, params.style, frames, switch')
  BY <1>1, UpdateByHand DEF Tick
<1>3. PICK zf \in {zfd', NoConfig}, frames \in WipeParams :
        /\ ManualChange \/ (Aged /\ ~params.freeze) => zf = zfd'
        /\ Frame(zf, screen, params.style, frames, switch')
  BY <1>2
<1>4. zfd' \in Configs /\ zfd'.n # 0 /\ NoConfig \notin Configs
  BY <1>1, ComposedFields, ConfigAssumption DEF EngineTyped
<1>5. params.style \in Styles /\ screen \in Heights /\ switch' \in Switches
  BY <1>1, EngineAssumption DEF EngineTyped
<1>6. CASE zf = NoConfig
  <2>1. SameFold(data, data')
    BY <1>3, <1>4, <1>5, <1>6, CallTakesFold DEF SectorsInv
  <2>. QED BY <1>3, <1>4, <1>6, <2>1
<1>7. CASE zf = zfd'
  <2>1. IF data.interlace # -2 THEN SameFold(data, data') ELSE OfConfig(data', zfd')
    BY <1>3, <1>4, <1>5, <1>7, CallTakesFold DEF SectorsInv
  <2>. QED BY <1>2, <2>1 DEF OfConfig, InForce
<1>. QED BY <1>3, <1>6, <1>7

LEMMA NeverLateStep ==
  ASSUME NeverLate, [EngineNext]_gvars PROVE NeverLate'
<1>1. TimeBtwChg \in Nat
  BY EngineAssumption
<1>2. sinceChange' = sinceChange \/ sinceChange' = 0 \/ (~Aged /\ sinceChange' = sinceChange + 1)
  BY DEF EngineNext, SetParams, SetResolution, Tick, Update, gvars, engine
<1>. QED BY <1>1, <1>2 DEF NeverLate, Aged

\* With the fold set by hand the filter keeps the fold of the parameters or goes
\* to it, whatever gooms, forced modes and draws do: goom_update hands over what
\* Forced and the manual mode compose, and asks again after each delay.
THEOREM FoldFollowsParams == EngineSpec => []NeverLate /\ [][FoldFollows]_gvars
<1>1. EngineInit => SectorsInv /\ NeverLate
  BY EngineStarts, EngineAssumption
     DEF EngineInit, Init, SectorsInv, IInv, Dimensioned, InitData, NeverLate
<1>2. SectorsInv /\ [EngineNext]_gvars => SectorsInv'
  BY EngineSectors
<1>3. NeverLate /\ [EngineNext]_gvars => NeverLate'
  BY NeverLateStep
<1>4. SectorsInv /\ [EngineNext]_gvars => [FoldFollows]_gvars
  BY TickFollows
<1>. QED BY <1>1, <1>2, <1>3, <1>4, PTL DEF EngineSpec

-----------------------------------------------------------------------------
(* The automatic mode, on a canvas that keeps its size.                    *)

\* The user leaves the kaleidoscope off or automatic, frozen or not.
Automatic == \A p \in ParamSets : p.mode = 0 \/ (p.mode = 1 /\ ~p.manual)

\* A goom under a fold puts the apex in the middle; without one it draws it
\* and starts no fold.
LEMMA GoomCentred ==
  ASSUME NEW z \in Composed
  PROVE  \A x \in GoomDraws(z) : x.effect => x.mid = Centre
<1>. DEFINE Fold(n, a) == [z EXCEPT !.mid = Centre, !.n = ResectorN(z.n, n), !.angle = a]
            Free  == {[z EXCEPT !.mid = m] : m \in Middles}
            Still == {[z EXCEPT !.mid = Centre]}
            Folds == {Fold(n, a) : n \in FoldCounts, a \in NearAngles(z.angle)}
<1>1. GoomDraws(z) = IF ~z.effect THEN Free ELSE IF params.manual THEN Still ELSE Folds
  BY DEF GoomDraws
<1>2. \A n, a : Fold(n, a).mid = Centre
  BY DEF Composed
<1>3. \A w \in Folds : w.mid = Centre
  <2>. HIDE DEF Fold
  <2>. QED BY <1>2
<1>4. \A w \in Still : w.mid = Centre
  BY DEF Composed
<1>5. ~z.effect => \A w \in Free : ~w.effect
  BY DEF Composed
<1>. HIDE DEF Free, Still, Folds
<1>. QED BY <1>1, <1>3, <1>4, <1>5

\* In the automatic mode a fold that starts, and a goom under a fold, put the
\* apex in the middle of the screen.
LEMMA UpdateCentred ==
  ASSUME EngineTyped, Automatic, FoldCentred, NEW goom \in BOOLEAN, NEW accel \in BOOLEAN,
         NEW trim \in BOOLEAN, NEW slow \in BOOLEAN, NEW force \in ForceModes,
         Update(goom, force, accel, trim, slow)
  PROVE  FoldCentred'
<1>. DEFINE Central(z) == z.effect => z.mid = Centre
            unlocked   == lockvar <= 1
            window     == goom \/ force > 0 \/ Aged
<1>1. PICK drawn_z \in IF window THEN KaleidoDraws(zfd) ELSE {zfd} :
        /\ zfd' \in IF unlocked /\ goom THEN GoomDraws(Forced(drawn_z)) ELSE {Forced(drawn_z)}
        /\ UNCHANGED screen
  BY DEF Update
<1>2. drawn_z \in Composed
  BY KaleidoComposed DEF EngineTyped
<1>3. Central(drawn_z)
  BY DEF KaleidoDraws, EngineTyped, Composed, FoldCentred
<1>4. Forced(drawn_z) \in Composed
  BY <1>2, ForcedComposed DEF EngineTyped
<1>5. Central(Forced(drawn_z))
  BY <1>2, <1>3 DEF Forced, EngineTyped, Automatic, Composed
<1>6. ASSUME NEW y \in Composed, Central(y), NEW x \in GoomDraws(y) PROVE Central(x)
  BY <1>6, GoomCentred
<1>7. Central(zfd')
  BY <1>1, <1>4, <1>5, <1>6
<1>. QED BY <1>1, <1>7 DEF FoldCentred, Centre

\* The invariant of the engine and its filter in the automatic mode.
EngineInv(A) == /\ EngineTyped /\ FoldCentred /\ Centre = A
                /\ GaugeInv(A) /\ Dimensioned(data)

\* Every step of the engine keeps it: a configuration delivered is the one
\* just composed, so its fold has the apex of all the others.
LEMMA EngineStep ==
  ASSUME NEW CONSTANT h \in Heights, Heights = {h}, Automatic,
         EngineInv(h \div 2), [EngineNext]_gvars
  PROVE  EngineInv(h \div 2)'
<1>. DEFINE A == h \div 2
<1>1. EngineTyped' /\ Dimensioned(data)'
  BY EngineSectors DEF EngineInv, SectorsInv, GaugeInv
<1>2. (Centre = A)'
  BY <1>1 DEF EngineTyped, Centre
<1>3. FoldCentred'
  <2>1. CASE Tick
    BY <2>1, UpdateCentred DEF Tick, EngineInv
  <2>2. CASE ~Tick
    <3>1. zfd' = zfd
      BY <2>2 DEF EngineNext, SetParams, SetResolution, gvars, engine
    <3>. QED BY <1>2, <3>1 DEF EngineInv, FoldCentred
  <2>. QED BY <2>1, <2>2
<1>4. GaugeInv(A)'
  <2>1. CASE UNCHANGED vars
    <3>1. data' = data /\ drawn' = drawn BY <2>1 DEF vars
    <3>. QED BY <3>1 DEF EngineInv, GaugeInv, IInv
  <2>2. CASE ~(UNCHANGED vars)
    <3>1. PICK zf \in {zfd', NoConfig}, frames \in WipeParams :
            Frame(zf, screen, params.style, frames, switch')
      BY <2>2, EngineCalls DEF EngineInv, gvars
    <3>2. /\ zf \in Configs \cup {NoConfig} /\ params.style \in Styles
          /\ \E sw \in Switches : Frame(zf, screen, params.style, frames, sw)
      BY <1>1, <3>1, CallIsStep DEF EngineInv
    <3>3. zf \in Configs /\ zf.effect => zf.mid = A
      BY <1>2, <1>3, ConfigAssumption DEF FoldCentred
    <3>4. screen = h
      BY DEF EngineInv, EngineTyped
    <3>5. GaugeInv(A)
      BY DEF EngineInv
    <3>. HIDE DEF A
    <3>. QED BY <3>2, <3>3, <3>4, <3>5, FrameCoherent
  <2>. QED BY <2>1, <2>2
<1>. QED BY <1>1, <1>2, <1>3, <1>4 DEF EngineInv

\* The invariant holds in every state of every behaviour.
LEMMA EngineInvariant ==
  ASSUME NEW CONSTANT h \in Heights, Heights = {h}, Automatic
  PROVE  EngineSpec => []EngineInv(h \div 2)
<1>1. EngineInit => EngineInv(h \div 2)
  BY EngineStarts DEF EngineInit, Init, EngineInv, EngineTyped, FoldCentred, Centre,
     GaugeInv, IInv, Dimensioned, InitData
<1>2. EngineInv(h \div 2) /\ [EngineNext]_gvars => EngineInv(h \div 2)'
  BY EngineStep
<1>. QED BY <1>1, <1>2, PTL DEF EngineSpec

\* In the automatic mode every fold is around the middle of the screen and
\* within its range of sectors: "le pli tourne autour du milieu".
THEOREM FoldsAreLegal ==
  ASSUME NEW CONSTANT h \in Heights, Heights = {h}, Automatic
  PROVE  EngineSpec => []FoldLegal
<1>1. EngineInv(h \div 2) => FoldCentred
  BY DEF EngineInv
<1>. QED BY <1>1, EngineInvariant, SectorsAlwaysLegal, PTL DEF FoldLegal

\* ... so the filter it drives keeps its two tables in one gauge, shows no
\* torn frame, and wipes between two complete maps, without any hypothesis on
\* the configurations it is given.
THEOREM EngineKeepsTheGauge ==
  ASSUME NEW CONSTANT h \in Heights, Heights = {h}, Automatic
  PROVE  EngineSpec => [](GaugeCoherent /\ NoTornFrame /\ WipeSourceWhole)
<1>. DEFINE A == h \div 2
<1>1. EngineInv(A) => GaugeInv(A)
  BY DEF EngineInv
<1>. HIDE DEF A
<1>2. GaugeInv(A) => GaugeCoherent /\ NoTornFrame /\ WipeSourceWhole
  BY DEF GaugeInv, GaugeCoherent, NoTornFrame, WipeSourceWhole, InitData, Coherent,
     InGauge, OneMap
<1>3. EngineSpec => []EngineInv(A)
  BY EngineInvariant DEF A
<1>. QED BY <1>1, <1>2, <1>3, PTL
=============================================================================
