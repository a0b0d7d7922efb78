------------------------------ MODULE MCGoomZoom ------------------------------
(* Small instances of GoomZoom: a canvas of a few rows, two or three numbers *)
(* of sectors, locks and delays of a few frames.                             *)
EXTENDS GoomZoom

MCNoConfig == [effect |-> FALSE, n |-> -1, angle |-> 0, mid |-> 0]
MCConfigs  == Composed
MCSwitches == {<<1, FALSE>>, <<0, TRUE>>}
MCFree     == {0}
MCForced   == {-1, 0, 1}

Setting(frozen, byHand, mode, n) ==
  [freeze |-> frozen, manual |-> byHand, mode |-> mode, n |-> n, angle |-> 1, style |-> 1]

\* Automatic folds only; the user may freeze them.
AutoParams == {Setting(FALSE, FALSE, 1, 6), Setting(TRUE, FALSE, 0, 6)}
\* The manual mode, with two folds to choose from.
ManualParams == {Setting(FALSE, TRUE, 1, 2), Setting(FALSE, TRUE, 1, 4)}
=============================================================================
