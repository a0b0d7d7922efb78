----------------------------- MODULE GoomShowProofs -----------------------------
(***************************************************************************)
(* Proofs about GoomShow and GoomWidget, for every set of states, every    *)
(* length of the fades and of the locks.  The inductive invariant adds to  *)
(* the properties of GoomShow what makes them hold: a goom that starts the *)
(* IFS locks the scene at least until the IFS has appeared, so that no     *)
(* goom can start its disappearance before.  Of the titles: the engine has *)
(* the last one announced, and it runs out.                                *)
(***************************************************************************)
EXTENDS GoomWidget, TLAPS

\* The lock outlasts an appearance; no colour is darker than black.
ShowInv ==
  /\ ShowTypeOK
  /\ IfsSettled
  /\ lock >= ifs.recay
  /\ lines.shade >= Black

\* A fade is one of: none, an appearance, a disappearance.
FadeOf(f) ==
  \/ f.recay = 0 /\ f.decay <= 0 /\ f.incr \in {0, 1}
  \/ f.recay > 0 /\ f.decay <= 0 /\ f.incr = 2 * f.recay + 1
  \/ f.recay = 0 /\ f.decay > 0 /\ f.incr = 2 * (Decay - f.decay) + 1

FadeRecord == [incr : Nat, decay : -1 .. Decay, recay : 0 .. Recay]

-----------------------------------------------------------------------------
\* The counters of one frame keep the fade a fade, and run it down.
LEMMA FadedIsFade ==
  ASSUME NEW f \in FadeRecord, FadeOf(f)
  PROVE  /\ FadedIfs(f) \in FadeRecord
         /\ FadeOf(FadedIfs(f))
         /\ FadedIfs(f).recay <= f.recay
         /\ f.recay > 0 => FadedIfs(f).recay < f.recay
<1> USE ShowAssumption DEF FadeRecord
<1>1. CASE f.recay = 0 /\ f.decay <= 0
  BY <1>1 DEF FadedIfs, FadeOf
<1>2. CASE f.recay > 0 /\ f.decay <= 0
  <2>1. f.incr = 2 * f.recay + 1
    BY <1>2 DEF FadeOf
  <2>2. CASE f.recay = 1
    BY <1>2, <2>1, <2>2 DEF FadedIfs, FadeOf
  <2>3. CASE f.recay > 1
    BY <1>2, <2>1, <2>3 DEF FadedIfs, FadeOf
  <2> QED BY <1>2, <2>2, <2>3
<1>3. CASE f.decay > 0
  <2>1. f.recay = 0 /\ f.incr = 2 * (Decay - f.decay) + 1
    BY <1>3 DEF FadeOf
  <2>2. CASE f.decay = 1
    BY <2>1, <2>2 DEF FadedIfs, FadeOf
  <2>3. CASE f.decay > 1
    BY <2>1, <2>3 DEF FadedIfs, FadeOf
  <2> QED BY <1>3, <2>2, <2>3
<1> QED BY <1>1, <1>2, <1>3

\* What a goom starts is a fade, where no appearance is going on.
LEMMA GoomKeepsFade ==
  ASSUME NEW f \in FadeRecord, FadeOf(f), f.recay = 0, NEW s \in States
  PROVE  /\ GoomIfs(f, s) \in FadeRecord
         /\ FadeOf(GoomIfs(f, s))
<1> USE ShowAssumption DEF FadeRecord
<1>1. CASE s.ifs
  <2>1. CASE f.incr <= 0
    <3> DEFINE g == [incr |-> Sparse, decay |-> f.decay, recay |-> Recay]
    <3>1. GoomIfs(f, s) = g
      BY <1>1, <2>1 DEF GoomIfs
    <3>2. f.decay <= 0
      BY <2>1 DEF FadeOf
    <3>3. g \in FadeRecord
      OBVIOUS
    <3>4. FadeOf(g)
      BY <3>2 DEF FadeOf
    <3> QED BY <3>1, <3>3, <3>4
  <2>2. CASE f.incr > 0
    BY <1>1, <2>2 DEF GoomIfs
  <2> QED BY <2>1, <2>2
<1>2. CASE ~s.ifs
  BY <1>2 DEF GoomIfs, FadeOf
<1> QED BY <1>1, <1>2

LineRecord == [mode : 0 .. LineTime, shade : Nat, dest : Brights \cup {Black},
               power : 0 .. PowerMax, powinc : Int]

\* The power moves within its ends, and nothing else of the lines does.
LEMMA PulsedKeeps ==
  ASSUME NEW l \in LineRecord, NEW p \in Pulsed(l)
  PROVE  /\ p \in LineRecord
         /\ p.mode = l.mode /\ p.shade = l.shade /\ p.dest = l.dest
<1> DEFINE q == l.power + l.powinc
<1>1. /\ q \in Int /\ PowerMin \in 0 .. PowerMax /\ PowerMax \in 0 .. PowerMax
      /\ \A i \in PowerIncs : i \in Int /\ -i \in Int
  BY PowerAssumption DEF LineRecord
<1>2. \/ \E i \in PowerIncs : p = [l EXCEPT !.power = PowerMin, !.powinc = i]
      \/ \E i \in PowerIncs : p = [l EXCEPT !.power = PowerMax, !.powinc = -i]
      \/ p = [l EXCEPT !.power = q] /\ ~(q < PowerMin) /\ ~(q > PowerMax)
  <2>0. q < PowerMin => ~(q > PowerMax)
    BY <1>1, PowerAssumption
  <2>1. CASE q < PowerMin
    <3>1. Pulsed(l) = {[l EXCEPT !.power = PowerMin, !.powinc = i] : i \in PowerIncs}
      BY <2>0, <2>1 DEF Pulsed
    <3> QED BY <3>1
  <2>2. CASE q > PowerMax /\ ~(q < PowerMin)
    <3>1. Pulsed(l) = {[l EXCEPT !.power = PowerMax, !.powinc = -i] : i \in PowerIncs}
      BY <2>2 DEF Pulsed
    <3> QED BY <3>1
  <2>3. CASE ~(q < PowerMin) /\ ~(q > PowerMax)
    <3>1. Pulsed(l) = {[l EXCEPT !.power = q]}
      BY <2>3 DEF Pulsed
    <3> QED BY <2>3, <3>1
  <2> QED BY <2>1, <2>2, <2>3
<1>3. ~(q < PowerMin) /\ ~(q > PowerMax) => q \in 0 .. PowerMax
  BY <1>1, PowerAssumption
<1> HIDE DEF q
<1> QED BY <1>1, <1>2, <1>3 DEF LineRecord

\* Lines are drawn no brighter than the colour they have.
LEMMA LitBounds ==
  ASSUME lines \in LineRecord
  PROVE  Lit \in Nat /\ Lit <= lines.shade
<1> DEFINE c == lines.shade
           k == Light[lines.power]
           q == (c * k) \div 100
<1>1. c \in Nat /\ k \in 0 .. 100
  BY PowerAssumption DEF LineRecord
<1> HIDE DEF c, k
<1>2. c * k \in Nat /\ c * k <= 100 * c
  <2>1. c * (100 - k) >= 0 /\ c * (100 - k) = 100 * c - c * k
    BY <1>1
  <2> QED BY <1>1, <2>1
<1>3. q \in Nat /\ 100 * q <= c * k
  <2> DEFINE m == c * k
  <2>1. m \in Nat
    BY <1>2
  <2> HIDE DEF m
  <2>2. m \div 100 \in Nat /\ 100 * (m \div 100) <= m
    BY <2>1
  <2> QED BY <2>2 DEF m
<1>4. q <= c
  BY <1>1, <1>2, <1>3
<1> QED BY <1>3, <1>4 DEF Lit, c, k

\* A blend of two colours is between them.
LEMMA BlendBounds ==
  ASSUME NEW c \in Nat, NEW d \in Nat, c >= Black, d >= Black
  PROVE  /\ Blend(c, d) \in Nat
         /\ Blend(c, d) >= Black
         /\ d = Black => Blend(c, d) <= c
<1> USE ShowAssumption
<1> DEFINE n == c * Fade + d
           m == Fade + 1
           q == n \div m
<1>1. n \in Nat /\ m \in Nat \ {0} /\ m > 0
  OBVIOUS
<1>2. q \in Nat /\ m * q <= n /\ n < m * (q + 1)
  BY <1>1
<1> HIDE DEF q
<1>3. n >= Black * m
  <2>1. c * Fade >= Black * Fade
    BY ShowAssumption
  <2> QED BY <2>1
<1>4. q >= Black
  <2> SUFFICES ASSUME q < Black PROVE FALSE
    BY <1>2
  <2>1. m * (q + 1) <= m * Black
    BY <1>1, <1>2
  <2> QED BY <2>1, <1>2, <1>3, <1>1
<1>5. ASSUME d = Black PROVE q <= c
  <2> SUFFICES ASSUME q > c PROVE FALSE
    BY <1>2
  <2>1. m * q >= m * (c + 1)
    BY <1>1, <1>2
  <2>2. n <= c * Fade + c
    BY <1>5
  <2> QED BY <2>1, <2>2, <1>1, <1>2
<1> QED BY <1>2, <1>4, <1>5 DEF Blend, q

\* One frame of the lines keeps their type and never goes below black; without
\* a scope it never brightens them.
LEMMA LinesStep ==
  ASSUME NEW goom \in BOOLEAN, NEW s \in States, NEW quiet \in 0 .. Glow,
         lines \in LineRecord, lines.shade >= Black,
         NEW l \in LineFrames(goom, s, quiet)
  PROVE  /\ l \in LineRecord
         /\ l.shade >= Black
         /\ ~s.scope => l.shade <= lines.shade
<1> USE ShowAssumption DEF LineRecord
<1> DEFINE l0 == IF goom /\ ~s.scope THEN [lines EXCEPT !.mode = LineTime] ELSE lines
<1>0. PICK l1 \in RunDown(Stopped(l0, s)) : \E l2 \in Redrawn(l1, s) : l \in Drawn(l2, quiet)
  BY DEF LineFrames
<1>1. PICK l2 \in Redrawn(l1, s) : l \in Drawn(l2, quiet)
  BY <1>0
<1>2. l0 \in LineRecord /\ l0.shade = lines.shade
  OBVIOUS
<1> HIDE DEF l0
<1>3. /\ Stopped(l0, s) \in LineRecord /\ Stopped(l0, s).shade = lines.shade
      /\ ~s.scope => Stopped(l0, s).dest = Black
  BY <1>2 DEF Stopped
<1>4. /\ l1 \in LineRecord /\ l1.shade = lines.shade
      /\ ~s.scope => l1.dest = Black
  <2> DEFINE st == Stopped(l0, s)
  <2> HIDE DEF st
  <2>1. st \in LineRecord /\ st.shade = lines.shade /\ (~s.scope => st.dest = Black)
    BY <1>3 DEF st
  <2>2. l1 \in RunDown(st)
    BY <1>0 DEF st
  <2> QED BY <2>1, <2>2 DEF RunDown
<1>5. /\ l2 \in LineRecord /\ l2.shade = lines.shade
      /\ ~s.scope => l2.dest = Black
  <2>1. CASE l2 = l1
    BY <2>1, <1>4
  <2>2. CASE l2 # l1
    <3>1. CASE s.scope /\ l1.mode = 0
      <4>1. l2 = [l1 EXCEPT !.mode = LineTime]
        BY <2>2, <3>1, <1>1 DEF Redrawn
      <4> QED BY <3>1, <4>1, <1>4
    <3>2. CASE s.scope /\ l1.mode = LineTime
      <4>1. PICK c \in Brights : l2 = [l1 EXCEPT !.mode = LineTime - 1, !.dest = c]
        <5>1. Redrawn(l1, s) =
                {l1} \cup {[l1 EXCEPT !.mode = LineTime - 1, !.dest = b] : b \in Brights}
          BY <3>2 DEF Redrawn
        <5> QED BY <2>2, <1>1, <5>1
      <4>2. LineTime - 1 \in 0 .. LineTime
        OBVIOUS
      <4>3. /\ l2.mode = LineTime - 1 /\ l2.dest = c /\ l2.shade = l1.shade
            /\ l2 \in LineRecord
        BY <4>1, <4>2, <1>4
      <4> QED BY <3>2, <4>3, <1>4
    <3>3. CASE ~(s.scope /\ l1.mode = 0) /\ ~(s.scope /\ l1.mode = LineTime)
      BY <2>2, <3>3, <1>1 DEF Redrawn
    <3> QED BY <3>1, <3>2, <3>3
  <2> QED BY <2>1, <2>2
<1>6. l2.dest \in Nat /\ l2.dest >= Black
  <2>1. l2.dest \in Brights \cup {Black}
    BY <1>5
  <2>2. ASSUME NEW c \in Brights \cup {Black} PROVE c \in Nat /\ c >= Black
    <3>1. CASE c = Black
      BY <3>1
    <3>2. CASE c \in Brights
      <4>1. c \in Nat /\ c > Black
        BY <3>2
      <4> QED BY <4>1
    <3> QED BY <3>1, <3>2
  <2> HIDE DEF LineRecord
  <2> QED BY ONLY <2>1, <2>2
<1>7. /\ Blend(l2.shade, l2.dest) \in Nat /\ Blend(l2.shade, l2.dest) >= Black
      /\ ~s.scope => Blend(l2.shade, l2.dest) <= l2.shade
  BY <1>5, <1>6, BlendBounds
<1>8. CASE l2.mode = 0 /\ quiet >= Glow
  BY <1>8, <1>1, <1>5 DEF Drawn
<1>9. CASE ~(l2.mode = 0 /\ quiet >= Glow)
  <2> DEFINE moved(p) == [p EXCEPT !.shade = Blend(@, p.dest)]
             ends == {moved(p) : p \in Pulsed(l2)}
  <2>0. \E m \in ends : l = m \/ \E c \in Brights : l = [m EXCEPT !.dest = c]
    BY <1>9, <1>1 DEF Drawn
  <2>1. PICK p \in Pulsed(l2) :
          l = moved(p) \/ \E c \in Brights : l = [moved(p) EXCEPT !.dest = c]
    BY <2>0
  <2>2. /\ p \in LineRecord /\ p.shade = l2.shade /\ p.dest = l2.dest
    BY <1>5, PulsedKeeps
  <2>3. moved(p) \in LineRecord /\ moved(p).shade = Blend(l2.shade, l2.dest)
    BY <1>7, <2>2
  <2> HIDE DEF moved
  <2>4. l \in LineRecord /\ l.shade = moved(p).shade
    BY <2>1, <2>3
  <2> QED BY <2>3, <2>4, <1>5, <1>7
<1> QED BY <1>8, <1>9

-----------------------------------------------------------------------------
LEMMA ShowInitInv == ShowInit => ShowInv
BY ShowAssumption, PowerAssumption DEF ShowInit, ShowInv, ShowTypeOK, IfsSettled

\* One frame.
LEMMA ShowStep ==
  ASSUME ShowInv, NEW goom \in BOOLEAN, NEW slow \in BOOLEAN, NEW accel \in BOOLEAN,
         NEW song \in Titles \cup {NoTitle}, Update(goom, slow, accel, song)
  PROVE  ShowInv' /\ (~scene'.cur.scope => lines'.shade <= lines.shade)
<1> USE ShowAssumption
<1> DEFINE unlocked == lock <= 1
           struck   == unlocked /\ goom
           faded    == FadedIfs(ifs)
           quiet    == CASE goom -> 0 [] ~goom /\ since < Glow -> since + 1 [] OTHER -> Glow
           more     == (IF struck /\ accel THEN LockMore ELSE 0)
                         + (IF unlocked /\ slow THEN LockMore ELSE 0)
<1>1. /\ scene' \in IF struck THEN GoomScenes ELSE {scene}
      /\ ifs' = IF struck THEN GoomIfs(faded, scene'.cur) ELSE faded
      /\ \E held \in IF struck THEN Locks ELSE {IF unlocked THEN 0 ELSE lock - 1} :
           lock' = held + more
      /\ lines' \in LineFrames(struck, scene'.cur, quiet)
      /\ since' = quiet
      /\ title' = Titled(song)
  BY DEF Update
<1>2. scene' \in [cur : States, drawn : States, blocker : 0 .. BlockFor]
  <2>1. scene \in [cur : States, drawn : States, blocker : 0 .. BlockFor]
    BY DEF ShowInv, ShowTypeOK
  <2>2. CASE struck
    <3> HIDE DEF struck
    <3>1. scene' \in GoomScenes
      BY <1>1, <2>2
    <3> QED BY <2>1, <3>1 DEF GoomScenes
  <2> QED BY <1>1, <2>1, <2>2
<1>3. quiet \in 0 .. Glow
  BY DEF ShowInv, ShowTypeOK
<1>4. ifs \in FadeRecord /\ FadeOf(ifs)
  BY DEF ShowInv, ShowTypeOK, IfsSettled, FadeOf, FadeRecord
<1>5. /\ faded \in FadeRecord /\ FadeOf(faded) /\ faded.recay <= ifs.recay
      /\ ifs.recay > 0 => faded.recay < ifs.recay
  BY <1>4, FadedIsFade
<1>6. lock \in Nat /\ lock >= ifs.recay /\ more \in Nat
  BY DEF ShowInv, ShowTypeOK
<1>7. unlocked => faded.recay = 0
  BY <1>4, <1>5, <1>6 DEF FadeRecord
<1>8. ifs' \in FadeRecord /\ FadeOf(ifs') /\ lock' \in Nat /\ lock' >= ifs'.recay
  <2> HIDE DEF faded, more
  <2>1. CASE struck
    <3>1. ifs' = GoomIfs(faded, scene'.cur)
      BY <1>1, <2>1
    <3>2. ifs' \in FadeRecord /\ FadeOf(ifs')
      BY <1>2, <1>5, <1>7, <2>1, <3>1, GoomKeepsFade
    <3>3. PICK held \in Locks : lock' = held + more
      BY <1>1, <2>1
    <3>4. held \in Nat /\ held >= Recay
      OBVIOUS
    <3> QED BY <1>6, <3>2, <3>3, <3>4 DEF FadeRecord
  <2>2. CASE ~struck
    <3>1. ifs' = faded
      BY <1>1, <2>2
    <3>2. lock' = (IF unlocked THEN 0 ELSE lock - 1) + more
      BY <1>1, <2>2
    <3>3. CASE unlocked
      BY <1>5, <1>6, <1>7, <3>1, <3>2, <3>3 DEF FadeRecord
    <3>4. CASE ~unlocked
      BY <1>4, <1>5, <1>6, <3>1, <3>2, <3>4 DEF FadeRecord
    <3> QED BY <3>3, <3>4
  <2> QED BY <2>1, <2>2
<1>9. /\ lines' \in LineRecord /\ lines'.shade >= Black
      /\ ~scene'.cur.scope => lines'.shade <= lines.shade
  <2>1. lines \in LineRecord /\ lines.shade >= Black
    BY DEF ShowInv, ShowTypeOK, LineRecord
  <2>2. scene'.cur \in States /\ struck \in BOOLEAN
    BY <1>2
  <2> HIDE DEF struck, quiet
  <2> QED BY <1>1, <1>3, <2>1, <2>2, LinesStep
<1>10. title' \in [text : Titles \cup {NoTitle}, left : 0 .. TitleTime]
  <2>1. title \in [text : Titles \cup {NoTitle}, left : 0 .. TitleTime]
    BY DEF ShowInv, ShowTypeOK
  <2> QED BY <1>1, <2>1 DEF Titled
<1>11. IfsSettled'
  BY <1>8 DEF IfsSettled, FadeOf, FadeRecord
<1>12. ShowTypeOK'
  BY <1>1, <1>2, <1>3, <1>8, <1>9, <1>10 DEF ShowTypeOK, FadeRecord, LineRecord
<1> QED BY <1>8, <1>9, <1>11, <1>12 DEF ShowInv

LEMMA ShowNextInv == ShowInv /\ [ShowNext]_show => ShowInv'
<1> SUFFICES ASSUME ShowInv, [ShowNext]_show PROVE ShowInv'
  OBVIOUS
<1>1. CASE ShowNext
  BY <1>1, ShowStep DEF ShowNext, Frames
<1>2. CASE UNCHANGED show
  BY <1>2 DEF show, ShowInv, ShowTypeOK, IfsSettled
<1> QED BY <1>1, <1>2

THEOREM ShowInvariance == ShowSpec => []ShowInv
<1>1. ShowInit => ShowInv
  BY ShowInitInv
<1>2. ShowInv /\ [ShowNext]_show => ShowInv'
  BY ShowNextInv
<1> QED BY <1>1, <1>2, PTL DEF ShowSpec

\* The variables of the scene keep their type.
THEOREM ShowTypeCorrect == ShowSpec => []ShowTypeOK
<1>1. ShowInv => ShowTypeOK
  BY DEF ShowInv
<1> QED BY <1>1, ShowInvariance, PTL

\* The two fades of the IFS never overlap and always end in full or in nothing,
\* for every length of the fades, as long as a lock outlasts the appearance.
THEOREM IfsIsSettled == ShowSpec => []IfsSettled
<1>1. ShowInv => IfsSettled
  BY DEF ShowInv
<1> QED BY <1>1, ShowInvariance, PTL

\* Without a scope the colour of the lines never rises, and while their power
\* pulses they are never drawn brighter than the colour they had.
THEOREM LinesFade == ShowSpec => LinesOnlyFade
<1>1. ShowInv /\ [ShowNext]_show
        => [~scene'.cur.scope => lines'.shade <= lines.shade /\ Lit' <= lines.shade]_show
  <2> SUFFICES ASSUME ShowInv, ShowNext, ~scene'.cur.scope
               PROVE  lines'.shade <= lines.shade /\ Lit' <= lines.shade
    OBVIOUS
  <2>1. ShowInv' /\ lines'.shade <= lines.shade
    BY ShowStep DEF ShowNext, Frames
  <2>2. lines \in LineRecord /\ lines' \in LineRecord
    BY <2>1 DEF ShowInv, ShowTypeOK, LineRecord
  <2>3. (lines \in LineRecord => Lit \in Nat /\ Lit <= lines.shade)'
    BY LitBounds, PTL
  <2>4. Lit' \in Nat /\ Lit' <= lines'.shade
    BY <2>2, <2>3
  <2>5. lines.shade \in Nat /\ lines'.shade \in Nat
    BY <2>2 DEF LineRecord
  <2> QED BY <2>1, <2>4, <2>5
<1> QED BY <1>1, ShowInvariance, PTL DEF ShowSpec, LinesOnlyFade

-----------------------------------------------------------------------------
LEMMA WidgetTypes ==
  ASSUME WidgetNext, current \in Titles \cup {NoTitle}
  PROVE  current' \in Titles \cup {NoTitle}
BY DEF WidgetNext, SetTitleText, Idle, Draw

\* Every step of the widget is a frame of the engine or leaves it alone: what
\* is proved of the engine holds of the widget.
THEOREM WidgetImplementsShow == WidgetSpec => ShowSpec
<1> DEFINE Cur == current \in Titles \cup {NoTitle}
<1>1. WidgetInit => ShowInit /\ Cur
  BY DEF WidgetInit
<1>2. Cur /\ [WidgetNext]_widget => Cur'
  <2> SUFFICES ASSUME Cur, [WidgetNext]_widget PROVE Cur'
    OBVIOUS
  <2>1. CASE UNCHANGED widget
    BY <2>1 DEF widget
  <2> QED BY <2>1, WidgetTypes
<1>3. Cur /\ [WidgetNext]_widget => [ShowNext]_show
  <2> SUFFICES ASSUME Cur, [WidgetNext]_widget PROVE [ShowNext]_show
    OBVIOUS
  <2>1. CASE UNCHANGED widget
    BY <2>1 DEF widget
  <2>2. ASSUME NEW t \in Titles, SetTitleText(t) PROVE UNCHANGED show
    BY <2>2 DEF SetTitleText
  <2>3. ASSUME NEW d \in Steps, Idle(d) PROVE UNCHANGED show
    BY <2>3 DEF Idle
  <2>4. CASE Draw
    <3>1. Song \in Titles \cup {NoTitle}
      BY WidgetAssumption DEF Song
    <3>2. CASE Resynced < 0
      BY <2>4, <3>1, <3>2 DEF Draw, ShowNext
    <3>3. CASE ~(Resynced < 0)
      BY <2>4, <3>3 DEF Draw
    <3> QED BY <3>2, <3>3
  <2> QED BY <2>1, <2>2, <2>3, <2>4 DEF WidgetNext
<1> QED BY <1>1, <1>2, <1>3, PTL DEF WidgetSpec, ShowSpec

-----------------------------------------------------------------------------
(* The titles.                                                             *)

\* Once it was handed over, the title the engine has is the last one that was
\* announced; before the first announcement it has none, or the welcome.
LastShown ==
  /\ firstUpdate /\ ~dirty => current = NoTitle
  /\ current # NoTitle /\ ~dirty => title.text = current
  /\ current = NoTitle => ~dirty /\ title.text \in {NoTitle, Welcome}

\* While no other title is announced, the one on screen runs out: a frame takes
\* from its time, and announcing it again gives it none.
RunsOut ==
  current' = current /\ ~dirty /\ ~firstUpdate =>
    /\ ~dirty' /\ ~firstUpdate'
    /\ title'.text = title.text /\ title'.left <= title.left
    /\ Due => title'.left < title.left \/ title'.left = 0

WidgetTyped ==
  /\ current \in Titles \cup {NoTitle} /\ dirty \in BOOLEAN /\ firstUpdate \in BOOLEAN
  /\ title \in [text : Titles \cup {NoTitle}, left : Nat]

\* A title given to a frame is the one it has from then on.
LEMMA TitledFrame ==
  ASSUME title \in [text : Titles \cup {NoTitle}, left : Nat],
         NEW song \in Titles \cup {NoTitle}
  PROVE  /\ Titled(song) \in [text : Titles \cup {NoTitle}, left : Nat]
         /\ Titled(song).text = IF song = NoTitle THEN title.text ELSE song
         /\ song = NoTitle => /\ Titled(song).left <= title.left
                              /\ Titled(song).left < title.left \/ Titled(song).left = 0
<1> DEFINE set == IF song = NoTitle THEN title ELSE [text |-> song, left |-> TitleTime]
<1>1. /\ set \in [text : Titles \cup {NoTitle}, left : Nat]
      /\ set.text = IF song = NoTitle THEN title.text ELSE song
      /\ song = NoTitle => set = title
  BY ShowAssumption
<1>2. Titled(song) = IF set.left > 0 THEN [set EXCEPT !.left = @ - 1] ELSE set
  BY DEF Titled
<1> HIDE DEF set
<1>3. set.left \in Nat
  BY <1>1
<1>4. CASE set.left > 0
  <2>1. /\ Titled(song) \in [text : Titles \cup {NoTitle}, left : Nat]
        /\ Titled(song).text = set.text /\ Titled(song).left = set.left - 1
    BY <1>1, <1>2, <1>3, <1>4
  <2> QED BY <1>1, <1>3, <2>1
<1>5. CASE ~(set.left > 0)
  <2>1. Titled(song) = set /\ set.left = 0
    BY <1>2, <1>3, <1>5
  <2> QED BY <1>1, <2>1
<1> QED BY <1>4, <1>5

LEMMA TitleStep ==
  WidgetTyped /\ LastShown /\ [WidgetNext]_widget
    => (WidgetTyped /\ LastShown)' /\ [RunsOut]_widget
<1> SUFFICES ASSUME WidgetTyped, LastShown, [WidgetNext]_widget
             PROVE  WidgetTyped' /\ LastShown' /\ RunsOut
  OBVIOUS
<1>0. title.left \in Nat /\ NoTitle \notin Titles /\ Welcome \in Titles
  BY ShowAssumption, WidgetAssumption DEF WidgetTyped
<1>1. ASSUME Due PROVE Resynced < 0
  BY <1>1 DEF Due
<1>2. CASE UNCHANGED widget \/ \E d \in Steps : Idle(d)
  <2>1. UNCHANGED <<current, dirty, firstUpdate, title>>
    BY <1>2 DEF widget, show, Idle
  <2>2. ASSUME Due PROVE dirty' = FALSE /\ firstUpdate' = FALSE /\ title' = Titled(Song)
    BY <2>2 DEF Due, Draw, Frames, Update
  <2>3. ASSUME Due, ~dirty, ~firstUpdate
        PROVE  title'.left < title.left \/ title'.left = 0
    <3>1. Song = NoTitle
      BY <2>3 DEF Song
    <3> QED BY <2>2, <2>3, <3>1, TitledFrame DEF WidgetTyped
  <2> QED BY <1>0, <2>1, <2>3 DEF WidgetTyped, LastShown, RunsOut
<1>3. ASSUME NEW t \in Titles, SetTitleText(t)
      PROVE  WidgetTyped' /\ LastShown' /\ RunsOut
  <2>1. UNCHANGED <<firstUpdate, title, ahead>>
    BY <1>3 DEF SetTitleText, show
  <2>2. CASE t = current
    <3>1. UNCHANGED <<current, dirty>>
      BY <1>3, <2>2 DEF SetTitleText
    <3>2. ASSUME Due, ~dirty, ~firstUpdate
          PROVE  title'.left < title.left \/ title'.left = 0
      <4>1. title' = Titled(Song) /\ Song = NoTitle
        BY <3>2 DEF Due, Draw, Frames, Update, Song
      <4> QED BY <4>1, TitledFrame DEF WidgetTyped
    <3> QED BY <1>0, <2>1, <3>1, <3>2 DEF WidgetTyped, LastShown, RunsOut
  <2>3. CASE t # current
    <3>1. current' = t /\ dirty' = TRUE
      BY <1>3, <2>3 DEF SetTitleText
    <3> QED BY <1>0, <2>1, <2>3, <3>1 DEF WidgetTyped, LastShown, RunsOut
  <2> QED BY <2>2, <2>3
<1>4. CASE Draw
  <2>1. current' = current
    BY <1>4 DEF Draw
  <2>2. CASE Resynced < 0
    <3>1. title' = Titled(Song) /\ dirty' = FALSE /\ firstUpdate' = FALSE
      BY <1>4, <2>2 DEF Draw, Frames, Update
    <3>2. /\ Song \in Titles \cup {NoTitle}
          /\ dirty => Song = current /\ current # NoTitle
          /\ ~dirty /\ firstUpdate => Song = Welcome /\ current = NoTitle
          /\ ~dirty /\ ~firstUpdate => Song = NoTitle
      BY <1>0 DEF Song, WidgetTyped, LastShown
    <3> HIDE DEF Song
    <3>3. /\ title' \in [text : Titles \cup {NoTitle}, left : Nat]
          /\ title'.text = IF Song = NoTitle THEN title.text ELSE Song
          /\ Song = NoTitle => /\ title'.left <= title.left
                               /\ title'.left < title.left \/ title'.left = 0
      BY <3>1, <3>2, TitledFrame DEF WidgetTyped
    <3>4. WidgetTyped' /\ LastShown'
      BY <1>0, <2>1, <3>1, <3>2, <3>3 DEF WidgetTyped, LastShown
    <3>5. RunsOut
      BY <3>1, <3>2, <3>3 DEF RunsOut
    <3> QED BY <3>4, <3>5
  <2>3. CASE ~(Resynced < 0)
    <3>1. UNCHANGED <<dirty, firstUpdate, title>>
      BY <1>4, <2>3 DEF Draw, show
    <3> QED BY <1>0, <1>1, <2>1, <2>3, <3>1 DEF WidgetTyped, LastShown, RunsOut
  <2> QED BY <2>2, <2>3
<1> QED BY <1>2, <1>3, <1>4 DEF WidgetNext

\* However often the host announces the current title, and whenever it announces
\* another one: the engine has the last one announced, and it runs out.
THEOREM TitlesRunOut == WidgetSpec => []LastShown /\ [][RunsOut]_widget
<1>1. WidgetInit => WidgetTyped /\ LastShown
  <2> SUFFICES ASSUME WidgetInit PROVE WidgetTyped /\ LastShown
    OBVIOUS
  <2>1. /\ current = NoTitle /\ dirty = FALSE /\ firstUpdate = TRUE
        /\ title = [text |-> NoTitle, left |-> 0]
    BY DEF WidgetInit, ShowInit
  <2> QED BY <2>1 DEF WidgetTyped, LastShown
<1> QED BY <1>1, TitleStep, PTL DEF WidgetSpec

=============================================================================
