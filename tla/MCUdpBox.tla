-------------------------------- MODULE MCUdpBox --------------------------------
(* Small instances of UdpBox: two boxes, a few messages, timers of two or     *)
(* three ticks.                                                               *)
EXTENDS UdpBox, TLC

CONSTANTS a, b

\* Messages in both directions, or from a alone.
Exchange == a :> 2 @@ b :> 1
OneWay   == a :> 3 @@ b :> 0

\* A process that is restarted has sent nothing yet, as one that only listens:
\* what a restarted sender does to the numbering is told in the README.
MCUdpNext == \/ SendSome
             \/ ReceiveSome
             \/ \E box \in Boxes : IdleSome(box)
             \/ \E box \in Boxes : Restart(box) /\ NothingSent(box)
=============================================================================
