------------------------------ MODULE ReliableLink ------------------------------
(***************************************************************************)
(* What UDPMessageBox (iosfc/ios_udpmessagebox.cpp) promises of its        *)
(* reliable messages, wherever the datagrams go: what is delivered was     *)
(* sent, what is acknowledged was delivered, and a message is either       *)
(* acknowledged or given up, never both.                                   *)
(***************************************************************************)
CONSTANT Messages

VARIABLES
  sent,         \* handed over to the box by the application
  delivered,    \* given to the listeners of the other side
  acked,        \* acknowledged to the sender
  given         \* given up: its delay expired, or its session was dropped

lvars == <<sent, delivered, acked, given>>

LinkInit == sent = {} /\ delivered = {} /\ acked = {} /\ given = {}

Submit == \E m \in Messages \ sent :
            sent' = sent \cup {m} /\ UNCHANGED <<delivered, acked, given>>

Deliver == \E m \in sent :
             delivered' = delivered \cup {m} /\ UNCHANGED <<sent, acked, given>>

Acknowledge == \E m \in delivered \ given :
                 acked' = acked \cup {m} /\ UNCHANGED <<sent, delivered, given>>

GiveUp == \E lost \in SUBSET (sent \ acked) :
            given' = given \cup lost /\ UNCHANGED <<sent, delivered, acked>>

LinkNext == Submit \/ Deliver \/ Acknowledge \/ GiveUp

LinkSpec == LinkInit /\ [][LinkNext]_lvars
=============================================================================
