------------------------------- MODULE MCNetwork -------------------------------
(* Small instances of UdpBox and of IgpSession, for TLC.  They share no state:  *)
(* one of them moves in a behaviour, the other rests.                           *)
(*                                                                              *)
(* Two boxes exchange messages; two clients compete for numbers; a client and a *)
(* service have numbers and write to each other.  Of the numbers one may ask    *)
(* for, one can be had and one is the first of those given on demand.           *)
EXTENDS MCUdpBox, IgpSession

CONSTANTS c1, c2

VARIABLE half

all == <<uvars, igp, half>>

MCInit == half \in {"boxes", "clients", "service"} /\ UdpInit /\ IgpInit

MoveBoxes(step) == half = "boxes" /\ step /\ UNCHANGED <<igp, half>>

Writes(c) == \E k \in DOMAIN up[c] : up[c][k].kind = "to"

MoveClients == /\ half = "clients"
               /\ \E c \in Hosts : Client(c) /\ ~Writes(c)'
               /\ UNCHANGED <<uvars, half>>

MoveService == /\ half = "service"
               /\ Client(c1) \/ \E s \in Services : Service(s)
               /\ UNCHANGED <<uvars, half>>

MCNext == MoveBoxes(MCUdpNext) \/ MoveClients \/ MoveService

MCFair == /\ MCInit /\ [][MCNext]_all
          /\ \A box \in Boxes : WF_all(MoveBoxes(\E e \in Elapses \ {0} : Idle(box, e)))
=============================================================================
