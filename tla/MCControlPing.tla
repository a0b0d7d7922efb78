----------------------------- MODULE MCControlPing -----------------------------
(* Small instances of ControlServer and of IgpPing, for TLC.  They share no     *)
(* state: one of them moves in a behaviour, the other rests.                    *)
(*                                                                              *)
(* More clients of the control server than slots.  One writes a parameter out   *)
(* of its range, then a feedback parameter, then sends too long a body; one     *)
(* triggers an action parameter and asks to be closed; one connects and says    *)
(* nothing.  Three pings of one IGP client.                                     *)
EXTENDS ControlServer, IgpPing, TLC

CONSTANTS writer, closer, lurker

VARIABLE half

Request == [line |-> "ok", close |-> FALSE, method |-> "PUT", host |-> TRUE,
            path |-> "param", param |-> "speed", body |-> "number", value |-> 9]

MCScript ==
  writer :> <<Request, [Request EXCEPT !.param = "monitor", !.value = 1],
              [Request EXCEPT !.body = "huge"]>> @@
  closer :> <<[Request EXCEPT !.param = "reseed", !.value = 1, !.close = TRUE]>> @@
  lurker :> <<>>

MCParam ==
  [speed   |-> [type |-> "int", rw |-> TRUE, min |-> 0, max |-> 2, trigger |-> FALSE],
   monitor |-> [type |-> "int", rw |-> FALSE, min |-> 0, max |-> 2, trigger |-> FALSE],
   reseed  |-> [type |-> "bool", rw |-> TRUE, min |-> 0, max |-> 1, trigger |-> TRUE]]

both == <<cvars, pings, half>>

MCInit == half \in {"control", "ping"} /\ CtlInit /\ PingInit

MoveControl(a) == half = "control" /\ a /\ UNCHANGED <<pings, half>>
MovePing(a)    == half = "ping" /\ a /\ UNCHANGED <<cvars, half>>

MCNext == MoveControl(CtlNext) \/ MovePing(PingNext)

MCFair == /\ MCInit /\ [][MCNext]_both
          /\ WF_both(MoveControl(Server))
          /\ WF_both(MovePing(Idle \/ Turn))
=============================================================================
