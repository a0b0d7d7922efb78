--------------------------------- MODULE UdpBox ---------------------------------
(***************************************************************************)
(* Message boxes that exchange messages over UDP                           *)
(* (iosfc/ios_udpmessagebox.cpp).  A box keeps one KnownPeer per address   *)
(* it has sent to or heard of; a peer sends its queue up to the first      *)
(* reliable message, waits for the acknowledgement of that one, resends it *)
(* and in the end gives it up.  A peer that is silent for too long, or     *)
(* whose serial numbers go back, is deleted with all it held.              *)
(*                                                                         *)
(* The network is the set of datagrams ever sent: each may be received     *)
(* never, late, out of order and any number of times.  Time is counted in  *)
(* the ticks an idle() measures since the one before.                      *)
(***************************************************************************)
EXTENDS Integers, Sequences

CONSTANTS
  Boxes,            \* the boxes, named by their address
  Restarting,       \* those whose process may be restarted
  NoMessage,        \* waitingForAckMessage = NULL
  Resend,           \* timeMsBeforeResendingReliable (500)
  ReliableTimeout,  \* timeMsBeforeReliableTimeout (60000)
  PeerTimeout,      \* timeMsBeforePeerTimeout (60000)
  Elapses,          \* what an idle() can measure since the one before
  ResetLow,         \* a serial number not above it is one of a reset peer (10)
  ResetWindow,      \* and so is one more than this below the last (10)
  Quota,            \* bound: messages each box creates in a life
  MaxSerial,        \* the largest of these bounds
  MaxLives          \* bound: lives of a box

ASSUME BoxAssumption == /\ Restarting \subseteq Boxes /\ MaxLives \in Nat \ {0}
                        /\ MaxSerial \in Nat /\ Quota \in [Boxes -> 0 .. MaxSerial]
ASSUME TimeAssumption == /\ Resend \in Nat \ {0} /\ ReliableTimeout \in Nat \ {0}
                         /\ PeerTimeout \in Nat \ {0} /\ Elapses \subseteq Nat
ASSUME ResetAssumption == ResetLow \in Nat /\ ResetWindow \in Nat

\* A message; life tells apart the messages of a box before and after a
\* restart, it is not in the datagram.
Messages == [src : Boxes, dst : Boxes, serial : 1 .. MaxSerial, reliable : BOOLEAN,
             life : 1 .. MaxLives]
Acks     == [src : Boxes, dst : Boxes, ack : 1 .. MaxSerial]

ASSUME NoMessageAssumption == NoMessage \notin Messages

VARIABLES
  serial,     \* sendSerialID of each box
  life,       \* the life each box is in
  known,      \* knownPeers of each box, a set of addresses
  peer,       \* the KnownPeer of each box for each other, when known
  net,        \* the datagrams ever sent
  sent, delivered, again, acked, given   \* history: what became of the messages

boxes   == <<serial, life, known, peer>>
history == <<sent, delivered, again, acked, given>>
uvars   == <<boxes, net, history>>

-----------------------------------------------------------------------------
(* One KnownPeer.                                                          *)

\* fresh: idle() has not been called yet (lastIdle = 0).
NewPeer(recv) == [recv |-> recv, waiting |-> NoMessage, queue |-> <<>>,
                  timeout |-> 0, lifespan |-> 0, silence |-> 0, fresh |-> TRUE]

\* Bug: the first message of an unknown peer is taken for a repetition.
NewcomerSeen(s) == NewPeer(s)

\* A peer first heard of by message s, which is the next one expected of it.
Newcomer(s) == NewPeer(s - 1)

\* The messages sendQueue sends: up to the first reliable one.
Burst(queue) ==
  LET stops == {i \in DOMAIN queue : queue[i].reliable}
  IN  IF stops = {} THEN Len(queue) ELSE CHOOSE i \in stops : \A j \in stops : i <= j

\* Bug: the queue is sent whether or not a message waits.
SendQueueAtOnce(p) ==
  IF p.queue = <<>> THEN [peer |-> p, out |-> {}]
  ELSE LET n    == Burst(p.queue)
           last == p.queue[n]
       IN  [peer |-> [p EXCEPT !.queue = SubSeq(@, n + 1, Len(@)),
                               !.waiting  = IF last.reliable THEN last ELSE @,
                               !.timeout  = IF last.reliable THEN Resend ELSE @,
                               !.lifespan = 0],
            out  |-> {p.queue[i] : i \in 1 .. n}]

\* sendQueue: nothing is sent while a message waits for its acknowledgement.
SendQueue(p) ==
  IF p.waiting # NoMessage \/ p.queue = <<>> THEN [peer |-> p, out |-> {}]
  ELSE LET n    == Burst(p.queue)
           last == p.queue[n]
       IN  [peer |-> [p EXCEPT !.queue = SubSeq(@, n + 1, Len(@)),
                               !.waiting  = IF last.reliable THEN last ELSE NoMessage,
                               !.timeout  = IF last.reliable THEN Resend ELSE 0,
                               !.lifespan = 0],
            out  |-> {p.queue[i] : i \in 1 .. n}]

\* The reliable messages a peer would take with it.
Held(p) == {m \in {p.waiting} \cup {p.queue[i] : i \in DOMAIN p.queue} :
              m # NoMessage /\ m.reliable}

Expired(p, e) == p.waiting # NoMessage /\ p.lifespan + e >= ReliableTimeout
Due(p, e)     == p.waiting # NoMessage /\ ~Expired(p, e) /\ p.timeout <= e
Silent(p, e)  == p.silence + e >= PeerTimeout

\* Bug: the life of the message begins again each time it is resent.
AgedPeerForEver(p, e) ==
  [p EXCEPT !.waiting  = IF Expired(p, e) THEN NoMessage ELSE @,
            !.timeout  = IF p.waiting = NoMessage \/ Expired(p, e) THEN 0
                         ELSE IF Due(p, e) THEN Resend ELSE @ - e,
            !.lifespan = IF p.waiting = NoMessage \/ Expired(p, e) \/ Due(p, e)
                         THEN 0 ELSE @ + e,
            !.silence = @ + e, !.fresh = FALSE]

\* idle: the message is given up when its life is over (and the queue waits
\* for the next call that sends it), resent when its delay is.
AgedPeer(p, e) ==
  [p EXCEPT !.waiting  = IF Expired(p, e) THEN NoMessage ELSE @,
            !.timeout  = IF p.waiting = NoMessage \/ Expired(p, e) THEN 0
                         ELSE IF Due(p, e) THEN Resend ELSE @ - e,
            !.lifespan = IF p.waiting = NoMessage \/ Expired(p, e) THEN 0 ELSE @ + e,
            !.silence = @ + e, !.fresh = FALSE]

\* Serial numbers that go back: those of a peer that was reset.
Reset(p, s) == s < p.recv /\ (s <= ResetLow \/ p.recv - s > ResetWindow)

-----------------------------------------------------------------------------
UdpInit ==
  /\ serial = [b \in Boxes |-> 0] /\ life = [b \in Boxes |-> 1]
  /\ known = [b \in Boxes |-> {}]
  /\ peer = [b \in Boxes |-> [c \in Boxes |-> NewPeer(0)]]
  /\ net = {}
  /\ sent = {} /\ delivered = {} /\ again = {} /\ acked = {} /\ given = {}

\* createMessage and send: a message is queued at its peer, created if need be.
Send(b, c, reliable) ==
  /\ serial[b] < Quota[b]
  /\ LET m == [src |-> b, dst |-> c, serial |-> serial[b] + 1,
               reliable |-> reliable, life |-> life[b]]
         p == IF c \in known[b] THEN peer[b][c] ELSE NewPeer(0)
         r == SendQueue([p EXCEPT !.queue = Append(@, m)])
     IN /\ serial' = [serial EXCEPT ![b] = @ + 1]
        /\ known' = [known EXCEPT ![b] = @ \cup {c}]
        /\ peer' = [peer EXCEPT ![b][c] = r.peer]
        /\ net' = net \cup r.out
        /\ sent' = sent \cup {m}
  /\ UNCHANGED <<life, delivered, again, acked, given>>

\* The first half of idle(): every known peer counts its time.
Idle(b, e) ==
  LET elapsed(c) == IF peer[b][c].fresh THEN 0 ELSE e
      gone       == {c \in known[b] : Silent(peer[b][c], elapsed(c))}
      expired    == {c \in known[b] : Expired(peer[b][c], elapsed(c))}
      due        == {c \in known[b] : Due(peer[b][c], elapsed(c))}
  IN /\ known[b] # {}
     /\ known' = [known EXCEPT ![b] = @ \ gone]
     /\ peer' = [peer EXCEPT ![b] = [c \in Boxes |->
                   IF c \in known[b] \ gone THEN AgedPeer(@[c], elapsed(c)) ELSE NewPeer(0)]]
     /\ net' = net \cup {peer[b][c].waiting : c \in due}
     /\ given' = given \cup {peer[b][c].waiting : c \in expired}
                       \cup UNION {Held(peer[b][c]) : c \in gone}
     /\ UNCHANGED <<serial, life, sent, delivered, again, acked>>

\* The other half of idle(), one message: handleMessage of the peer it is
\* from, created if need be.
Receive(b, m) ==
  LET s     == m.serial
      c     == m.src
      p     == IF c \in known[b] THEN peer[b][c] ELSE Newcomer(s)
      q     == [p EXCEPT !.recv = IF s > @ THEN s ELSE @, !.silence = 0]
      fresh == s > p.recv
  IN /\ m.dst = b /\ m \in net
     /\ IF Reset(p, s)
          THEN /\ known' = [known EXCEPT ![b] = @ \ {c}]
               /\ peer' = [peer EXCEPT ![b][c] = NewPeer(0)]
               /\ given' = given \cup Held(p)
               /\ UNCHANGED <<net, delivered, again>>
          ELSE /\ known' = [known EXCEPT ![b] = @ \cup {c}]
               /\ peer' = [peer EXCEPT ![b][c] = q]
               /\ net' = IF m.reliable THEN net \cup {[src |-> b, dst |-> c, ack |-> s]}
                         ELSE net
               /\ delivered' = IF fresh THEN delivered \cup {m} ELSE delivered
               /\ again' = IF fresh /\ m \in delivered THEN again \cup {m} ELSE again
               /\ UNCHANGED given
     /\ UNCHANGED <<serial, life, sent, acked>>

\* An acknowledgement is shown to every peer: the replier's address may not
\* be the one the message was sent to.
ReceiveAck(b, a) ==
  LET here == {c \in known[b] : /\ peer[b][c].waiting # NoMessage
                                /\ peer[b][c].waiting.serial = a.ack}
      next(c) == SendQueue([peer[b][c] EXCEPT !.waiting = NoMessage, !.timeout = 0,
                                              !.lifespan = 0, !.silence = 0])
  IN /\ a.dst = b /\ a \in net
     /\ peer' = [peer EXCEPT ![b] = [c \in Boxes |->
                   IF c \in here THEN next(c).peer ELSE @[c]]]
     /\ net' = net \cup UNION {next(c).out : c \in here}
     /\ acked' = acked \cup {peer[b][c].waiting : c \in here}
     /\ UNCHANGED <<serial, life, known, sent, delivered, again, given>>

\* The process of a box is restarted: its serial numbers begin again.
Restart(b) ==
  /\ b \in Restarting /\ life[b] < MaxLives
  /\ life' = [life EXCEPT ![b] = @ + 1]
  /\ serial' = [serial EXCEPT ![b] = 0]
  /\ known' = [known EXCEPT ![b] = {}]
  /\ peer' = [peer EXCEPT ![b] = [c \in Boxes |-> NewPeer(0)]]
  /\ given' = given \cup UNION {Held(peer[b][c]) : c \in known[b]}
  /\ UNCHANGED <<net, sent, delivered, again, acked>>

SendSome    == \E b, c \in Boxes, reliable \in BOOLEAN :
                 b # c /\ Send(b, c, reliable)
ReceiveSome == \E d \in net : IF "ack" \in DOMAIN d THEN ReceiveAck(d.dst, d)
                              ELSE Receive(d.dst, d)
IdleSome(b) == \E e \in Elapses : Idle(b, e)

UdpNext == \/ SendSome
           \/ ReceiveSome
           \/ \E b \in Boxes : IdleSome(b)
           \/ \E b \in Boxes : Restart(b)

UdpSpec == UdpInit /\ [][UdpNext]_uvars

\* idle() is called for ever and measures time.
IdleForEver == \A b \in Boxes : WF_uvars(\E e \in Elapses \ {0} : Idle(b, e))

UdpFair == UdpSpec /\ IdleForEver

\* The numbering of a box begins again with its process.  The properties ask
\* that a process be restarted only while nothing of it is numbered yet.
NothingSent(b) == \A m \in sent : m.src # b
QuietRestart   == \A b \in Boxes : Restart(b) => NothingSent(b)

-----------------------------------------------------------------------------
(* Properties.                                                             *)

\* One reliable message at a time: nothing younger has left for a peer while
\* a reliable message to it waits for its acknowledgement.
StopAndWait ==
  \A b \in Boxes : \A c \in known[b] :
    LET w == peer[b][c].waiting
    IN  w # NoMessage =>
          ~\E d \in net : "ack" \notin DOMAIN d /\ d.src = b /\ d.dst = c
                          /\ d.life = life[b] /\ d.serial > w.serial

\* A message that is acknowledged was given to the listeners, one that is
\* given up is never acknowledged: the box implements a reliable link.
Link == INSTANCE ReliableLink WITH Messages <- Messages, sent <- sent,
          delivered <- delivered, acked <- acked, given <- given
ImplementsLink == Link!LinkSpec

\* A reliable message does not wait for ever: it is acknowledged or given up.
ReliableSettles ==
  \A b, c \in Boxes : (c \in known[b] /\ peer[b][c].waiting # NoMessage) ~>
                      (c \notin known[b] \/ peer[b][c].waiting = NoMessage)

\* "Drop if message has been received twice": no message is given twice to
\* the listeners.
AtMostOnce == again = {}
=============================================================================
