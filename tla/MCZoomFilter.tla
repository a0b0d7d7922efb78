----------------------------- MODULE MCZoomFilter -----------------------------
(* Small instances of ZoomFilter: canvases of a few rows, one unfolded       *)
(* configuration and two folds around the middle of the canvas.              *)
EXTENDS ZoomFilter

Unfolded(m)       == [effect |-> FALSE, n |-> 4, angle |-> 0, mid |-> m]
Folded(n, a, m)   == [effect |-> TRUE, n |-> n, angle |-> a, mid |-> m]

MCConfigs == {Unfolded(2), Unfolded(1), Folded(3, 1, 2), Folded(6, 1, 2)}
MCSwitches == {<<1, FALSE>>, <<0, TRUE>>}
MCLiveConfigs  == {Unfolded(2), Folded(3, 1, 2)}
MCLiveSwitches == {<<1, FALSE>>}
MCNoConfig == [effect |-> FALSE, n |-> -1, angle |-> 0, mid |-> 0]
=============================================================================
