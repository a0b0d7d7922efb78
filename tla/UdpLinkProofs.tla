------------------------------ MODULE UdpLinkProofs ------------------------------
(***************************************************************************)
(* Message boxes implement a reliable link, whatever the network loses,    *)
(* repeats and reorders, as long as no process is restarted once it has    *)
(* sent a message; and they send one reliable message at a time.  Whatever *)
(* is restarted, no reliable message is lost from sight, and none waits    *)
(* beyond its life.  While no box forgets a peer it has heard, nothing is  *)
(* delivered twice or out of order.                                        *)
(***************************************************************************)
EXTENDS UdpBox, SequenceTheorems, WellFoundedInduction, TLAPS

PeerShape == [recv : Nat, waiting : Messages \cup {NoMessage}, queue : Seq(Messages),
              timeout : Int, lifespan : Int, silence : Int, fresh : BOOLEAN]

-----------------------------------------------------------------------------
(* The strengthening.  Its parts take the sets they read as parameters: N  *)
(* the network, S what was sent, D delivered, F settled.                   *)

Flying(N) == {d \in N : d \in Messages}

\* Serial numbers identify the messages of a box.
Distinct(S) == \A m, n \in S : m.src = n.src /\ m.serial = n.serial => m = n

\* Only what has left is on the network, and only that is acknowledged.
Honest(N, S) ==
  /\ N \subseteq Messages \cup Acks /\ Flying(N) \subseteq S
  /\ \A d \in N \cap Acks : \E m \in Flying(N) : m.src = d.dst /\ m.serial = d.ack

\* The message p waits for has left, is the youngest that has, and if some
\* acknowledgement of it is under way then it was delivered.
Waits(p, b, c, N, D, F) ==
  p.waiting # NoMessage =>
    /\ p.waiting \in Flying(N) \ F
    /\ p.waiting.src = b /\ p.waiting.dst = c
    /\ \A m \in Flying(N) : m.src = b /\ m.dst = c => m.serial <= p.waiting.serial
    /\ \A d \in N \cap Acks : d.dst = b /\ d.ack = p.waiting.serial => p.waiting \in D

\* The queue of p is in the order of the serial numbers, all of them above
\* those that have left.
Queued(p, b, c, N, S, F) ==
  \A i \in 1 .. Len(p.queue) :
    /\ p.queue[i] \in S \ F
    /\ p.queue[i].src = b /\ p.queue[i].dst = c
    /\ \A m \in Flying(N) : m.src = b /\ m.dst = c => m.serial < p.queue[i].serial
    /\ \A j \in 1 .. Len(p.queue) : i < j => p.queue[i].serial < p.queue[j].serial

\* The last serial number p has heard is that of a message it delivered.
Heard(p, b, c, D) ==
  p.recv = 0 \/ \E m \in D : m.src = c /\ m.dst = b /\ m.serial = p.recv

-----------------------------------------------------------------------------
(* Lemmas on one peer.                                                     *)

\* A non-empty set of natural numbers has a least one.
LEMMA LeastNatural ==
  ASSUME NEW T, T \subseteq Nat, T # {}
  PROVE  \E x \in T : \A y \in T : x <= y
<1>1. PICK x \in T : \A y \in T : ~(<<y, x>> \in OpToRel(<, Nat))
  BY NatLessThanWellFounded, WFMin
<1>2. \A y \in T : <<y, x>> \in Nat \X Nat /\ <<y, x>>[1] = y /\ <<y, x>>[2] = x
  OBVIOUS
<1>3. \A y \in T : ~(y < x)
  BY <1>1, <1>2 DEF OpToRel
<1>. QED
  BY <1>3

\* A burst is not empty and stays within the queue.
LEMMA BurstInQueue ==
  ASSUME NEW q \in Seq(Messages), q # <<>>
  PROVE  Burst(q) \in 1 .. Len(q)
<1>. DEFINE stops == {i \in DOMAIN q : q[i].reliable}
<1>1. DOMAIN q = 1 .. Len(q) /\ Len(q) \in Nat \ {0}
  BY LenProperties, EmptySeq
<1>2. CASE stops = {}
  BY <1>1, <1>2 DEF Burst
<1>3. CASE stops # {}
  <2>0. stops \subseteq Nat
    BY <1>1
  <2>1. \E i \in stops : \A j \in stops : i <= j
    <3>. HIDE DEF stops
    <3>. QED
      BY <2>0, <1>3, LeastNatural
  <2>2. (CHOOSE i \in stops : \A j \in stops : i <= j) \in stops
    BY <2>1
  <2>. QED
    BY <1>1, <1>3, <2>2 DEF Burst
<1>. QED
  BY <1>2, <1>3

\* What sendQueue and an acknowledgement change of a peer.
Updated(p, q, w, t, z) ==
  [p EXCEPT !.queue = q, !.waiting = w, !.timeout = t, !.lifespan = z]

\* A peer that is given another queue, message and timers remains a peer.
LEMMA PeerUpdate ==
  ASSUME NEW p \in PeerShape, NEW q \in Seq(Messages),
         NEW w \in Messages \cup {NoMessage}, NEW t \in Int, NEW z \in Int
  PROVE  /\ Updated(p, q, w, t, z) \in PeerShape
         /\ Updated(p, q, w, t, z).recv = p.recv
         /\ Updated(p, q, w, t, z).queue = q
         /\ Updated(p, q, w, t, z).waiting = w
<1>. DEFINE p1 == [p EXCEPT !.queue = q, !.waiting = w]
            p2 == [p1 EXCEPT !.timeout = t, !.lifespan = z]
<1>1. p2 = Updated(p, q, w, t, z)
  BY DEF PeerShape, Updated
<1>2. /\ p1 \in PeerShape /\ p1.recv = p.recv /\ p1.queue = q /\ p1.waiting = w
  BY DEF PeerShape
<1>. HIDE DEF p1
<1>3. /\ p2 \in PeerShape /\ p2.recv = p1.recv /\ p2.queue = p1.queue
      /\ p2.waiting = p1.waiting
  BY <1>2 DEF PeerShape
<1>. HIDE DEF p2
<1>. QED
  BY <1>1, <1>2, <1>3

\* What sendQueue returns for the peer of b for c: what leaves was sent to c,
\* and the peer is in order on a network with it.
Left(r, recv, b, c, N, S, D, F) ==
  /\ r.peer \in PeerShape /\ r.peer.recv = recv
  /\ r.out \subseteq S
  /\ \A m \in r.out : m.src = b /\ m.dst = c
  /\ Waits(r.peer, b, c, N \cup r.out, D, F)
  /\ Queued(r.peer, b, c, N \cup r.out, S, F)

\* What is behind the first n messages of a queue.
LEMMA RestOfQueue ==
  ASSUME NEW q \in Seq(Messages), NEW n \in 1 .. Len(q)
  PROVE  LET rest == SubSeq(q, n + 1, Len(q))
         IN  /\ rest \in Seq(Messages) /\ Len(rest) = Len(q) - n
             /\ DOMAIN rest = 1 .. Len(rest)
             /\ \A i \in 1 .. Len(rest) : n + i \in 1 .. Len(q) /\ rest[i] = q[n + i]
<1>. DEFINE rest == SubSeq(q, n + 1, Len(q))
<1>1. /\ n \in Nat /\ n + 1 \in Int /\ Len(q) \in Nat /\ n + 1 <= Len(q) + 1
      /\ \A i \in n + 1 .. Len(q) : q[i] \in Messages
  OBVIOUS
<1>2. /\ rest \in Seq(Messages)
      /\ Len(rest) = IF n + 1 <= Len(q) THEN Len(q) - (n + 1) + 1 ELSE 0
      /\ \A i \in 1 .. Len(q) - (n + 1) + 1 : rest[i] = q[(n + 1) + i - 1]
  BY <1>1, SubSeqProperties
<1>. HIDE DEF rest
<1>3. Len(rest) = Len(q) - n /\ DOMAIN rest = 1 .. Len(rest)
  BY <1>1, <1>2
<1>4. ASSUME NEW i \in 1 .. Len(rest) PROVE n + i \in 1 .. Len(q) /\ rest[i] = q[n + i]
  <2>1. i \in 1 .. Len(q) - (n + 1) + 1 /\ (n + 1) + i - 1 = n + i /\ n + i \in 1 .. Len(q)
    BY <1>1, <1>3
  <2>. QED BY <1>2, <2>1
<1>. QED BY <1>2, <1>3, <1>4 DEF rest

\* sendQueue, called on a peer that is in order, leaves it so.
LEMMA SendQueueInOrder ==
  ASSUME NEW p \in PeerShape, NEW b \in Boxes, NEW c \in Boxes,
         NEW N, NEW S, NEW D, NEW F,
         Distinct(S), Honest(N, S), S \subseteq Messages,
         Waits(p, b, c, N, D, F), Queued(p, b, c, N, S, F)
  PROVE  Left(SendQueue(p), p.recv, b, c, N, S, D, F)
<1>. DEFINE r == SendQueue(p)
<1>1. CASE p.waiting # NoMessage \/ p.queue = <<>>
  <2>1. r = [peer |-> p, out |-> {}]
    BY <1>1 DEF SendQueue
  <2>2. r.peer = p /\ r.out = {} /\ N \cup r.out = N
    BY <2>1
  <2>. QED
    BY <2>2 DEF Left
<1>2. CASE p.waiting = NoMessage /\ p.queue # <<>>
  <2>. DEFINE q    == p.queue
              n    == Burst(q)
              last == q[n]
              rest == SubSeq(q, n + 1, Len(q))
              out  == {q[i] : i \in 1 .. n}
              w    == IF last.reliable THEN last ELSE NoMessage
              t    == IF last.reliable THEN Resend ELSE 0
  <2>1. q \in Seq(Messages) /\ q # <<>> /\ Len(q) \in Nat
    BY <1>2 DEF PeerShape
  <2>2. n \in 1 .. Len(q)
    BY <2>1, BurstInQueue
  <2>3. /\ rest \in Seq(Messages) /\ Len(rest) = Len(q) - n
        /\ \A i \in 1 .. Len(rest) : n + i \in 1 .. Len(q) /\ rest[i] = q[n + i]
    <3>. HIDE DEF q, n
    <3>. QED
      BY <2>1, <2>2, RestOfQueue
  <2>4. r = [peer |-> [p EXCEPT !.queue = rest, !.waiting = w, !.timeout = t, !.lifespan = 0],
             out |-> out]
    BY <1>2 DEF SendQueue
  <2>5. \A i \in 1 .. Len(q) : q[i] \in Messages
    BY <2>1
  <2>6. w \in Messages \cup {NoMessage} /\ t \in Int
    BY <2>2, <2>5, TimeAssumption
  <2>. HIDE DEF w, t, rest
  <2>7. /\ r.peer \in PeerShape /\ r.peer.recv = p.recv /\ r.peer.queue = rest
        /\ r.peer.waiting = w /\ r.out = out
    <3>. DEFINE e == Updated(p, rest, w, t, 0)
    <3>1. e \in PeerShape /\ e.recv = p.recv /\ e.queue = rest /\ e.waiting = w
      BY <2>3, <2>6, PeerUpdate
    <3>2. r.peer = e /\ r.out = out
      BY <2>4 DEF Updated
    <3>. QED
      BY <3>1, <3>2
  <2>8. \A i \in 1 .. Len(q) :
          /\ q[i] \in S \ F /\ q[i].src = b /\ q[i].dst = c
          /\ \A m \in Flying(N) : m.src = b /\ m.dst = c => m.serial < q[i].serial
          /\ \A j \in 1 .. Len(q) : i < j => q[i].serial < q[j].serial
    BY DEF Queued
  <2>. HIDE DEF q, n, r
  <2>9. out \subseteq S /\ \A m \in out : m.src = b /\ m.dst = c
    BY <2>2, <2>8
  <2>10. Flying(N \cup out) = Flying(N) \cup out /\ (N \cup out) \cap Acks = N \cap Acks
    <3>1. \A m \in Messages : m \notin Acks
      BY DEF Messages, Acks
    <3>. QED
      BY <2>2, <2>5, <3>1 DEF Flying
  <2>11. Queued(r.peer, b, c, N \cup out, S, F)
    <3>1. SUFFICES ASSUME NEW i \in 1 .. Len(rest)
                   PROVE  /\ rest[i] \in S \ F /\ rest[i].src = b /\ rest[i].dst = c
                          /\ \A m \in Flying(N) \cup out :
                               m.src = b /\ m.dst = c => m.serial < rest[i].serial
                          /\ \A j \in 1 .. Len(rest) : i < j => rest[i].serial < rest[j].serial
      BY <2>7, <2>10 DEF Queued
    <3>2. n + i \in 1 .. Len(q) /\ rest[i] = q[n + i]
      BY <2>3
    <3>3. \A m \in out : m.serial < rest[i].serial
      BY <2>2, <2>8, <3>2
    <3>4. ASSUME NEW j \in 1 .. Len(rest), i < j
          PROVE  rest[i].serial < rest[j].serial
      <4>1. n + j \in 1 .. Len(q) /\ rest[j] = q[n + j]
        BY <2>3
      <4>2. n + i < n + j
        BY <2>2, <3>4, <2>3, <2>1
      <4>. QED
        BY <2>8, <3>2, <4>1, <4>2
    <3>. QED
      BY <2>8, <3>2, <3>3, <3>4
  <2>12. Waits(r.peer, b, c, N \cup out, D, F)
    <3>1. CASE w = NoMessage
      BY <2>7, <3>1 DEF Waits
    <3>2. CASE w # NoMessage
      <4>1. w = q[n] /\ w \in out
        BY <2>2, <3>2 DEF w
      <4>2. \A m \in Flying(N) \cup out : m.src = b /\ m.dst = c => m.serial <= w.serial
        <5>1. ASSUME NEW i \in 1 .. n
              PROVE  q[i].serial <= w.serial
          <6>1. CASE i = n
            BY <2>2, <2>5, <4>1, <6>1 DEF Messages
          <6>2. CASE i < n
            <7>1. i \in 1 .. Len(q) /\ n \in 1 .. Len(q)
              BY <2>1, <2>2
            <7>2. q[i].serial < q[n].serial /\ q[i].serial \in Int /\ q[n].serial \in Int
              BY <2>5, <2>8, <6>2, <7>1 DEF Messages
            <7>. QED
              BY <4>1, <7>2
          <6>. QED
            BY <2>2, <6>1, <6>2
        <5>2. \A m \in Flying(N) : m.src = b /\ m.dst = c => m.serial <= w.serial
          BY <2>2, <2>5, <2>8, <4>1 DEF Messages, Flying
        <5>. QED
          BY <5>1, <5>2
      <4>3. ASSUME NEW d \in N \cap Acks, d.dst = b, d.ack = w.serial
            PROVE  FALSE
        <5>1. PICK m \in Flying(N) : m.src = b /\ m.serial = w.serial
          BY <4>3 DEF Honest
        <5>2. m \in S /\ w \in S /\ w.src = b /\ w.dst = c
          BY <2>2, <2>8, <4>1 DEF Honest
        <5>3. m = w
          BY <5>1, <5>2 DEF Distinct
        <5>. QED
          BY <2>2, <2>5, <2>8, <4>1, <5>1, <5>2, <5>3 DEF Messages
      <4>. QED
        BY <2>2, <2>7, <2>8, <2>10, <4>1, <4>2, <4>3 DEF Waits
    <3>. QED
      BY <3>1, <3>2
  <2>. QED
    BY <2>7, <2>9, <2>11, <2>12 DEF r, Left
<1>. QED
  BY <1>1, <1>2 DEF PeerShape

\* A peer stays in order when the rest of the world goes on: more is sent to
\* others, delivered or settled, and what is acknowledged was delivered.
InOrder(p, b, c, N, S, D, F) ==
  Waits(p, b, c, N, D, F) /\ Queued(p, b, c, N, S, F) /\ Heard(p, b, c, D)

LEMMA StaysInOrder ==
  ASSUME NEW p \in PeerShape, NEW b, NEW c,
         NEW N, NEW S, NEW D, NEW F, InOrder(p, b, c, N, S, D, F),
         NEW N2, NEW S2, NEW D2, NEW F2,
         N \subseteq N2, S \subseteq S2, D \subseteq D2,
         \A m \in Flying(N2) : m.src = b /\ m.dst = c => m \in Flying(N),
         \A d \in N2 \cap Acks : p.waiting # NoMessage /\ d.dst = b /\ d.ack = p.waiting.serial
                                 => d \in N \/ p.waiting \in D2,
         p.waiting # NoMessage => p.waiting \notin F2 \ F,
         \A i \in 1 .. Len(p.queue) : p.queue[i] \notin F2 \ F
  PROVE  InOrder(p, b, c, N2, S2, D2, F2)
<1>1. Flying(N) \subseteq Flying(N2)
  BY DEF Flying
<1>2. Waits(p, b, c, N2, D2, F2)
  BY <1>1 DEF Waits, InOrder
<1>3. Queued(p, b, c, N2, S2, F2)
  BY <1>1 DEF Queued, InOrder
<1>4. Heard(p, b, c, D2)
  BY DEF Heard, InOrder
<1>. QED
  BY <1>2, <1>3, <1>4 DEF InOrder

\* A new peer is in order, whatever happened before.
LEMMA NewPeerInOrder ==
  ASSUME NEW k \in Nat
  PROVE  /\ NewPeer(k) \in PeerShape /\ NewPeer(k).recv = k
         /\ NewPeer(k).waiting = NoMessage /\ NewPeer(k).queue = <<>>
         /\ \A b, c, N, S, D, F : /\ Waits(NewPeer(k), b, c, N, D, F)
                                  /\ Queued(NewPeer(k), b, c, N, S, F)
<1>1. /\ NewPeer(k).recv = k /\ NewPeer(k).waiting = NoMessage
      /\ NewPeer(k).queue = <<>> /\ NewPeer(k).timeout = 0 /\ NewPeer(k).lifespan = 0
      /\ NewPeer(k).silence = 0 /\ NewPeer(k).fresh = TRUE
  BY DEF NewPeer
<1>2. NewPeer(k) \in PeerShape
  BY EmptySeq DEF PeerShape, NewPeer
<1>3. Len(NewPeer(k).queue) = 0
  BY <1>1, EmptySeq
<1>. QED
  BY <1>1, <1>2, <1>3 DEF Waits, Queued

-----------------------------------------------------------------------------
(* The inductive invariant.                                                *)

Settled == given \cup acked

BoxShape ==
  /\ serial \in [Boxes -> 0 .. MaxSerial] /\ life \in [Boxes -> 1 .. MaxLives]
  /\ known \in [Boxes -> SUBSET Boxes] /\ peer \in [Boxes -> [Boxes -> PeerShape]]

Histories ==
  /\ sent \subseteq Messages /\ Distinct(sent)
  /\ \A m \in sent : m.serial <= serial[m.src]
  /\ delivered \subseteq Flying(net) /\ acked \subseteq delivered
  /\ given \subseteq sent /\ given \cap acked = {}

Session(b, c) == InOrder(peer[b][c], b, c, net, sent, delivered, Settled)

LinkInv ==
  /\ BoxShape /\ Histories /\ Honest(net, sent)
  /\ \A b \in Boxes : \A c \in known[b] : Session(b, c)

\* The invariant holds of boxes that know nobody.
LEMMA LinkInvInit == UdpInit => LinkInv
<1>. SUFFICES ASSUME UdpInit PROVE LinkInv
  OBVIOUS
<1>1. NewPeer(0) \in PeerShape
  BY NewPeerInOrder
<1>2. BoxShape
  BY <1>1, BoxAssumption DEF UdpInit, BoxShape
<1>3. Histories /\ Honest(net, sent)
  BY DEF UdpInit, Histories, Honest, Distinct, Flying
<1>. QED
  BY <1>2, <1>3 DEF UdpInit, LinkInv

\* A message is queued and what can leave leaves.
LEMMA SendStep ==
  ASSUME LinkInv, NEW b \in Boxes, NEW c \in Boxes, NEW reliable \in BOOLEAN,
         Send(b, c, reliable)
  PROVE  LinkInv' /\ Link!Submit
<1>. DEFINE m == [src |-> b, dst |-> c, serial |-> serial[b] + 1,
                  reliable |-> reliable, life |-> life[b]]
            p == IF c \in known[b] THEN peer[b][c] ELSE NewPeer(0)
            p1 == [p EXCEPT !.queue = Append(@, m)]
            r == SendQueue(p1)
            S == sent \cup {m}
<1>1. /\ m \in Messages /\ m.src = b /\ m.dst = c /\ m.serial = serial[b] + 1
      /\ serial[b] \in Nat /\ serial[b] + 1 \in 0 .. MaxSerial
  <2>1. serial[b] \in 0 .. MaxSerial /\ life[b] \in 1 .. MaxLives
    BY DEF LinkInv, BoxShape
  <2>2. serial[b] < Quota[b] /\ Quota[b] \in 0 .. MaxSerial
    BY BoxAssumption DEF Send
  <2>3. serial[b] + 1 \in 1 .. MaxSerial
    BY <2>1, <2>2, BoxAssumption
  <2>. QED
    BY <2>1, <2>3 DEF Messages
<1>2. \A n \in sent : n.src = b => n.serial < m.serial
  BY <1>1 DEF LinkInv, Histories, BoxShape, Messages
<1>3. m \notin sent
  BY <1>1, <1>2
<1>4. /\ serial' = [serial EXCEPT ![b] = @ + 1]
      /\ known' = [known EXCEPT ![b] = @ \cup {c}]
      /\ peer' = [peer EXCEPT ![b][c] = r.peer]
      /\ net' = net \cup r.out
      /\ sent' = S
      /\ UNCHANGED <<life, delivered, again, acked, given>>
  BY DEF Send
<1>. HIDE DEF m
<1>5. Link!Submit
  BY <1>1, <1>3, <1>4 DEF Link!Submit
<1>6. p \in PeerShape /\ InOrder(p, b, c, net, sent, delivered, Settled)
  <2>1. CASE c \in known[b]
    BY <2>1 DEF LinkInv, BoxShape, Session
  <2>2. CASE c \notin known[b]
    BY <2>2, NewPeerInOrder DEF InOrder, Heard
  <2>. QED
    BY <2>1, <2>2
<1>. HIDE DEF p
<1>7. /\ p1 \in PeerShape /\ p1.recv = p.recv /\ p1.waiting = p.waiting
      /\ p1.queue = Append(p.queue, m)
  BY <1>1, <1>6, AppendProperties DEF PeerShape
<1>8. Distinct(S) /\ Honest(net, S) /\ S \subseteq Messages
  BY <1>1, <1>2 DEF LinkInv, Histories, Honest, Distinct
<1>9. Queued(p1, b, c, net, S, Settled)
  <2>1. /\ p.queue \in Seq(Messages) /\ Len(p1.queue) = Len(p.queue) + 1
        /\ p1.queue[Len(p.queue) + 1] = m
        /\ \A i \in 1 .. Len(p.queue) : p1.queue[i] = p.queue[i]
    BY <1>1, <1>6, <1>7, AppendProperties DEF PeerShape
  <2>2. Len(p.queue) \in Nat
    BY <2>1
  <2>3. \A n \in Flying(net) : n \in sent
    BY DEF LinkInv, Honest
  <2>4. Settled \subseteq sent
    BY <2>3 DEF LinkInv, Histories, Settled
  <2>. HIDE DEF p1
  <2>5. SUFFICES ASSUME NEW i \in 1 .. Len(p1.queue)
                 PROVE  /\ p1.queue[i] \in S \ Settled
                        /\ p1.queue[i].src = b /\ p1.queue[i].dst = c
                        /\ \A n \in Flying(net) :
                             n.src = b /\ n.dst = c => n.serial < p1.queue[i].serial
                        /\ \A j \in 1 .. Len(p1.queue) :
                             i < j => p1.queue[i].serial < p1.queue[j].serial
    BY DEF Queued
  <2>6. CASE i = Len(p.queue) + 1
    BY <1>1, <1>2, <1>3, <2>1, <2>2, <2>3, <2>4, <2>6
  <2>7. CASE i # Len(p.queue) + 1
    <3>1. i \in 1 .. Len(p.queue) /\ p1.queue[i] = p.queue[i]
      BY <2>1, <2>2, <2>7
    <3>2. /\ p.queue[i] \in sent \ Settled /\ p.queue[i].src = b /\ p.queue[i].dst = c
          /\ \A n \in Flying(net) : n.src = b /\ n.dst = c => n.serial < p.queue[i].serial
          /\ \A j \in 1 .. Len(p.queue) : i < j => p.queue[i].serial < p.queue[j].serial
      BY <1>6, <3>1 DEF InOrder, Queued
    <3>3. ASSUME NEW j \in 1 .. Len(p1.queue), i < j
          PROVE  p1.queue[i].serial < p1.queue[j].serial
      <4>1. CASE j = Len(p.queue) + 1
        BY <1>2, <2>1, <3>1, <3>2, <4>1
      <4>2. CASE j # Len(p.queue) + 1
        <5>1. j \in 1 .. Len(p.queue)
          BY <2>1, <2>2, <4>2
        <5>. QED
          BY <2>1, <3>1, <3>2, <3>3, <5>1
      <4>. QED
        BY <4>1, <4>2
    <3>. QED
      BY <3>1, <3>2, <3>3
  <2>. QED
    BY <2>6, <2>7
<1>10. Waits(p1, b, c, net, delivered, Settled)
  BY <1>6, <1>7 DEF InOrder, Waits
<1>. HIDE DEF p1, r, S
<1>11. /\ r.peer \in PeerShape /\ r.peer.recv = p.recv /\ r.out \subseteq S
       /\ \A n \in r.out : n.src = b /\ n.dst = c
       /\ Waits(r.peer, b, c, net \cup r.out, delivered, Settled)
       /\ Queued(r.peer, b, c, net \cup r.out, S, Settled)
  <2>1. Left(SendQueue(p1), p1.recv, b, c, net, S, delivered, Settled)
    BY <1>7, <1>8, <1>9, <1>10, SendQueueInOrder
  <2>. QED
    BY <1>7, <2>1 DEF r, Left
<1>12. BoxShape'
  BY <1>1, <1>4, <1>11 DEF LinkInv, BoxShape
<1>13. Flying(net') = Flying(net) \cup r.out /\ net' \cap Acks = net \cap Acks
  <2>1. \A n \in Messages : n \notin Acks
    BY DEF Messages, Acks
  <2>. QED
    BY <1>4, <1>8, <1>11, <2>1 DEF Flying
<1>14. Honest(net', sent')
  BY <1>4, <1>8, <1>11, <1>13 DEF Honest
<1>15. Histories'
  <2>1. \A n \in sent' : n.serial <= serial'[n.src]
    <3>1. ASSUME NEW n \in sent
          PROVE  n.serial <= serial'[n.src]
      BY <1>1, <1>4, <3>1 DEF LinkInv, Histories, BoxShape, Messages
    <3>2. m.serial <= serial'[m.src]
      BY <1>1, <1>4 DEF LinkInv, BoxShape
    <3>. QED
      BY <1>4, <3>1, <3>2 DEF S
  <2>. QED
    BY <1>4, <1>8, <1>13, <2>1 DEF LinkInv, Histories, S
<1>16. ASSUME NEW x \in Boxes, NEW y \in known'[x]
       PROVE  Session(x, y)'
  <2>0. Settled' = Settled
    BY <1>4 DEF Settled
  <2>1. CASE x = b /\ y = c
    <3>1. peer'[x][y] = r.peer
      BY <1>4, <2>1 DEF LinkInv, BoxShape
    <3>2. Heard(r.peer, b, c, delivered)
      BY <1>6, <1>11 DEF InOrder, Heard
    <3>. QED
      BY <1>4, <1>11, <2>0, <2>1, <3>1, <3>2 DEF Session, InOrder
  <2>2. CASE ~(x = b /\ y = c)
    <3>1. y \in known[x] /\ peer'[x][y] = peer[x][y] /\ y \in Boxes
      BY <1>4, <2>2 DEF LinkInv, BoxShape
    <3>2. peer[x][y] \in PeerShape /\ InOrder(peer[x][y], x, y, net, sent, delivered, Settled)
      BY <3>1 DEF LinkInv, BoxShape, Session
    <3>3. InOrder(peer[x][y], x, y, net', sent', delivered, Settled)
      <4>1. \A n \in Flying(net') : n.src = x /\ n.dst = y => n \in Flying(net)
        BY <1>11, <1>13, <2>2
      <4>2. net \subseteq net' /\ sent \subseteq sent'
        BY <1>4 DEF S
      <4>3. \A d \in net' \cap Acks : d \in net
        BY <1>13
      <4>. HIDE DEF Settled
      <4>. QED
        BY <3>2, <4>1, <4>2, <4>3, StaysInOrder
    <3>. QED
      BY <1>4, <2>0, <3>1, <3>3 DEF Session
  <2>. QED
    BY <2>1, <2>2
<1>. QED
  BY <1>5, <1>12, <1>14, <1>15, <1>16 DEF LinkInv

\* A datagram is received from a peer, known or not.
LEMMA ReceiveStep ==
  ASSUME LinkInv, NEW m \in Flying(net), NEW b \in Boxes, Receive(b, m)
  PROVE  LinkInv' /\ [Link!LinkNext]_(Link!lvars)
<1>. DEFINE s     == m.serial
            c     == m.src
            p     == IF c \in known[b] THEN peer[b][c] ELSE Newcomer(s)
            q     == [p EXCEPT !.recv = IF s > @ THEN s ELSE @, !.silence = 0]
            k     == [src |-> b, dst |-> c, ack |-> s]
            fresh == s > p.recv
<1>1. /\ m \in Messages /\ m \in sent /\ m.dst = b /\ c \in Boxes /\ s \in 1 .. MaxSerial
      /\ s - 1 \in Nat
  BY BoxAssumption DEF LinkInv, Honest, Flying, Messages, Receive
<1>2. /\ p \in PeerShape /\ Waits(p, b, c, net, delivered, Settled)
      /\ Queued(p, b, c, net, sent, Settled)
      /\ fresh \/ Heard(p, b, c, delivered)
  <2>1. CASE c \in known[b]
    BY <1>1, <2>1 DEF LinkInv, BoxShape, Session, InOrder
  <2>2. CASE c \notin known[b]
    <3>1. p = NewPeer(s - 1)
      BY <2>2 DEF Newcomer
    <3>. HIDE DEF p
    <3>2. p \in PeerShape /\ p.recv = s - 1
      BY <1>1, <3>1, NewPeerInOrder
    <3>3. Waits(p, b, c, net, delivered, Settled) /\ Queued(p, b, c, net, sent, Settled)
      BY <1>1, <3>1, NewPeerInOrder
    <3>4. fresh
      BY <1>1, <3>2
    <3>. QED
      BY <3>2, <3>3, <3>4
  <2>. QED
    BY <2>1, <2>2
<1>3. \A x \in Boxes : \A y \in known[x] :
        /\ y \in Boxes /\ peer[x][y] \in PeerShape
        /\ InOrder(peer[x][y], x, y, net, sent, delivered, Settled)
  BY DEF LinkInv, BoxShape, Session
<1>4. UNCHANGED <<serial, life, sent, acked>>
  BY DEF Receive
<1>5. CASE Reset(p, s)
  <2>1. /\ known' = [known EXCEPT ![b] = @ \ {c}]
        /\ peer' = [peer EXCEPT ![b][c] = NewPeer(0)]
        /\ given' = given \cup Held(p)
        /\ UNCHANGED <<net, delivered, again>>
    BY <1>5 DEF Receive
  <2>. HIDE DEF p
  <2>2. \A n \in Held(p) : n \in sent /\ n \notin Settled /\ n.src = b /\ n.dst = c
    <3>1. p.waiting # NoMessage => /\ p.waiting \in sent \ Settled
                                   /\ p.waiting.src = b /\ p.waiting.dst = c
      BY <1>2 DEF Waits, LinkInv, Honest
    <3>2. \A i \in DOMAIN p.queue : /\ p.queue[i] \in sent \ Settled
                                    /\ p.queue[i].src = b /\ p.queue[i].dst = c
      BY <1>2 DEF Queued, PeerShape
    <3>. QED
      BY <3>1, <3>2 DEF Held
  <2>3. BoxShape'
    BY <1>1, <1>4, <2>1, NewPeerInOrder DEF LinkInv, BoxShape
  <2>4. Histories' /\ Honest(net, sent)'
    BY <1>4, <2>1, <2>2 DEF LinkInv, Histories, Honest, Settled, Flying, Distinct
  <2>5. ASSUME NEW x \in Boxes, NEW y \in known'[x]
        PROVE  Session(x, y)'
    <3>1. ~(x = b /\ y = c) /\ y \in known[x] /\ y \in Boxes /\ peer'[x][y] = peer[x][y]
      BY <2>1 DEF LinkInv, BoxShape
    <3>2. Settled' = Settled \cup Held(p)
      BY <1>4, <2>1 DEF Settled
    <3>3. /\ peer[x][y].waiting # NoMessage =>
              peer[x][y].waiting.src = x /\ peer[x][y].waiting.dst = y
          /\ \A i \in 1 .. Len(peer[x][y].queue) :
              peer[x][y].queue[i].src = x /\ peer[x][y].queue[i].dst = y
      BY <1>3, <3>1 DEF InOrder, Waits, Queued
    <3>4. InOrder(peer[x][y], x, y, net, sent, delivered, Settled \cup Held(p))
      <4>. HIDE DEF Settled
      <4>. QED
        BY <1>3, <2>2, <3>1, <3>3, StaysInOrder
    <3>. QED
      BY <1>4, <2>1, <3>1, <3>2, <3>4 DEF Session
  <2>6. Link!GiveUp
    BY <1>4, <2>1, <2>2 DEF Link!GiveUp, Settled
  <2>. QED
    BY <2>3, <2>4, <2>5, <2>6 DEF LinkInv, Link!LinkNext
<1>6. CASE ~Reset(p, s)
  <2>1. /\ known' = [known EXCEPT ![b] = @ \cup {c}]
        /\ peer' = [peer EXCEPT ![b][c] = q]
        /\ net' = IF m.reliable THEN net \cup {k} ELSE net
        /\ delivered' = IF fresh THEN delivered \cup {m} ELSE delivered
        /\ UNCHANGED given
    BY <1>6 DEF Receive
  <2>2. /\ q \in PeerShape /\ q.waiting = p.waiting /\ q.queue = p.queue
        /\ q.recv = IF fresh THEN s ELSE p.recv
    <3>. DEFINE v == IF s > p.recv THEN s ELSE p.recv
                z == 0
    <3>1. p \in PeerShape /\ v \in Nat /\ z \in Int /\ v = IF fresh THEN s ELSE p.recv
      BY <1>1, <1>2 DEF PeerShape
    <3>2. q = [p EXCEPT !.recv = v, !.silence = z]
      OBVIOUS
    <3>. HIDE DEF p, q, v, z, fresh
    <3>3. /\ q \in PeerShape /\ q.waiting = p.waiting /\ q.queue = p.queue
          /\ q.recv = v
      BY <3>1, <3>2 DEF PeerShape
    <3>. QED
      BY <3>1, <3>3
  <2>3. p.recv \in Nat
    BY <1>2 DEF PeerShape
  <2>. HIDE DEF p, q
  <2>4. k \in Acks /\ k \notin Messages /\ k.dst = c /\ k.ack = s
    BY <1>1 DEF Acks, Messages
  <2>. HIDE DEF k
  <2>5. Flying(net') = Flying(net) /\ net \subseteq net' /\ net' \subseteq net \cup {k}
    BY <2>1, <2>4 DEF Flying
  <2>6. Heard(q, b, c, delivered')
    BY <1>1, <1>2, <2>1, <2>2 DEF Heard
  <2>7. BoxShape'
    BY <1>1, <1>4, <2>1, <2>2 DEF LinkInv, BoxShape
  <2>8. Histories' /\ Honest(net, sent)'
    <3>1. delivered' \subseteq Flying(net) /\ delivered \subseteq delivered'
      BY <2>1 DEF LinkInv, Histories
    <3>2. Histories'
      BY <1>4, <2>1, <2>5, <3>1 DEF LinkInv, Histories, Distinct
    <3>3. Honest(net, sent)'
      BY <1>1, <1>4, <2>1, <2>4, <2>5 DEF LinkInv, Honest
    <3>. QED
      BY <3>2, <3>3
  <2>9. ASSUME NEW x \in Boxes, NEW y \in Boxes, NEW o \in PeerShape,
               InOrder(o, x, y, net, sent, delivered, Settled), o.waiting # NoMessage,
               x = c, o.waiting.serial = s
        PROVE  o.waiting \in delivered'
    <3>1. /\ o.waiting \in sent /\ o.waiting.src = x /\ o.waiting.dst = y
          /\ \A n \in Flying(net) : n.src = x /\ n.dst = y => n.serial <= o.waiting.serial
      BY <2>9 DEF InOrder, Waits, LinkInv, Honest
    <3>2. o.waiting = m /\ y = b
      BY <1>1, <2>9, <3>1 DEF LinkInv, Histories, Distinct
    <3>3. CASE fresh
      BY <2>1, <3>2, <3>3
    <3>4. CASE ~fresh
      <4>1. PICK n \in delivered : n.src = c /\ n.dst = b /\ n.serial = p.recv
        BY <1>1, <1>2, <2>3, <3>4 DEF Heard
      <4>2. n \in Flying(net) /\ n \in sent
        BY <4>1 DEF LinkInv, Histories, Honest
      <4>3. n.serial = s
        BY <1>1, <2>3, <2>9, <3>1, <3>2, <3>4, <4>1, <4>2
      <4>4. n = m
        BY <1>1, <4>1, <4>2, <4>3 DEF LinkInv, Histories, Distinct
      <4>. QED
        BY <2>1, <3>2, <4>1, <4>4
    <3>. QED
      BY <3>3, <3>4
  <2>10. ASSUME NEW x \in Boxes, NEW y \in Boxes, NEW o \in PeerShape,
                InOrder(o, x, y, net, sent, delivered, Settled)
         PROVE  InOrder(o, x, y, net', sent', delivered', Settled')
    <3>1. delivered \subseteq delivered' /\ sent' = sent /\ Settled' = Settled
      BY <1>4, <2>1 DEF Settled
    <3>2. \A d \in net' \cap Acks :
            o.waiting # NoMessage /\ d.dst = x /\ d.ack = o.waiting.serial
              => d \in net \/ o.waiting \in delivered'
      BY <2>4, <2>5, <2>9, <2>10
    <3>. HIDE DEF Settled
    <3>. QED
      BY <2>5, <2>10, <3>1, <3>2, StaysInOrder
  <2>11. ASSUME NEW x \in Boxes, NEW y \in known'[x]
         PROVE  Session(x, y)'
    <3>1. CASE x = b /\ y = c
      <4>1. peer'[x][y] = q
        BY <1>1, <2>1, <3>1 DEF LinkInv, BoxShape
      <4>. DEFINE o == [p EXCEPT !.recv = 0]
      <4>2. o \in PeerShape /\ o.waiting = p.waiting /\ o.queue = p.queue /\ o.recv = 0
        BY <1>2 DEF PeerShape
      <4>. HIDE DEF o
      <4>3. InOrder(o, b, c, net, sent, delivered, Settled)
        BY <1>2, <4>2 DEF InOrder, Waits, Queued, Heard
      <4>4. InOrder(o, b, c, net', sent', delivered', Settled')
        BY <1>1, <2>10, <4>2, <4>3
      <4>5. InOrder(q, b, c, net', sent', delivered', Settled')
        BY <2>2, <2>6, <4>2, <4>4 DEF InOrder, Waits, Queued
      <4>. QED
        BY <3>1, <4>1, <4>5 DEF Session
    <3>2. CASE ~(x = b /\ y = c)
      <4>1. y \in known[x] /\ peer'[x][y] = peer[x][y]
        BY <2>1, <3>2 DEF LinkInv, BoxShape
      <4>. QED
        BY <1>3, <2>10, <4>1 DEF Session
    <3>. QED
      BY <3>1, <3>2
  <2>12. Link!Deliver \/ UNCHANGED Link!lvars
    BY <1>1, <1>4, <2>1 DEF Link!Deliver, Link!lvars
  <2>. QED
    BY <2>7, <2>8, <2>11, <2>12 DEF LinkInv, Link!LinkNext
<1>. QED
  BY <1>5, <1>6

\* What time changes of a peer: its timers, and the message it gives up.
LEMMA AgedPeerShape ==
  ASSUME NEW p \in PeerShape, NEW e \in Nat
  PROVE  /\ AgedPeer(p, e) \in PeerShape
         /\ AgedPeer(p, e).recv = p.recv /\ AgedPeer(p, e).queue = p.queue
         /\ AgedPeer(p, e).waiting = IF Expired(p, e) THEN NoMessage ELSE p.waiting
<1>. DEFINE w == IF Expired(p, e) THEN NoMessage ELSE p.waiting
            t == IF p.waiting = NoMessage \/ Expired(p, e) THEN 0
                 ELSE IF Due(p, e) THEN Resend ELSE p.timeout - e
            l == IF p.waiting = NoMessage \/ Expired(p, e) THEN 0 ELSE p.lifespan + e
            z == p.silence + e
            p1 == [p EXCEPT !.waiting = w, !.timeout = t]
            p2 == [p1 EXCEPT !.lifespan = l, !.silence = z]
            p3 == [p2 EXCEPT !.fresh = FALSE]
<1>1. /\ w \in Messages \cup {NoMessage} /\ t \in Int /\ l \in Int /\ z \in Int
  BY TimeAssumption DEF PeerShape
<1>2. AgedPeer(p, e) = [p EXCEPT !.waiting = w, !.timeout = t, !.lifespan = l,
                                 !.silence = z, !.fresh = FALSE]
  BY DEF AgedPeer
<1>. HIDE DEF w, t, l, z
<1>3. p3 = [p EXCEPT !.waiting = w, !.timeout = t, !.lifespan = l,
                     !.silence = z, !.fresh = FALSE]
  BY DEF PeerShape
<1>4. p1 \in PeerShape /\ p1.recv = p.recv /\ p1.queue = p.queue /\ p1.waiting = w
  BY <1>1 DEF PeerShape
<1>. HIDE DEF p1
<1>5. /\ p2 \in PeerShape /\ p2.recv = p1.recv /\ p2.queue = p1.queue
      /\ p2.waiting = p1.waiting
  BY <1>1, <1>4 DEF PeerShape
<1>. HIDE DEF p2
<1>6. /\ p3 \in PeerShape /\ p3.recv = p2.recv /\ p3.queue = p2.queue
      /\ p3.waiting = p2.waiting
  BY <1>5 DEF PeerShape
<1>. HIDE DEF p3
<1>. QED
  BY <1>2, <1>3, <1>4, <1>5, <1>6 DEF w

\* A box counts the time of its peers, resends, gives up, forgets the silent.
LEMMA IdleStep ==
  ASSUME LinkInv, NEW b \in Boxes, NEW e \in Elapses, Idle(b, e)
  PROVE  LinkInv' /\ [Link!LinkNext]_(Link!lvars)
<1>. DEFINE elapsed(c) == IF peer[b][c].fresh THEN 0 ELSE e
            gone       == {c \in known[b] : Silent(peer[b][c], elapsed(c))}
            expired    == {c \in known[b] : Expired(peer[b][c], elapsed(c))}
            due        == {c \in known[b] : Due(peer[b][c], elapsed(c))}
            lost       == {peer[b][c].waiting : c \in expired}
                            \cup UNION {Held(peer[b][c]) : c \in gone}
<1>1. /\ known' = [known EXCEPT ![b] = @ \ gone]
      /\ peer' = [peer EXCEPT ![b] = [c \in Boxes |->
                    IF c \in known[b] \ gone THEN AgedPeer(@[c], elapsed(c)) ELSE NewPeer(0)]]
      /\ net' = net \cup {peer[b][c].waiting : c \in due}
      /\ given' = given \cup lost
      /\ UNCHANGED <<serial, life, sent, delivered, again, acked>>
  BY DEF Idle
<1>2. \A x \in Boxes : \A y \in known[x] :
        /\ y \in Boxes /\ peer[x][y] \in PeerShape
        /\ InOrder(peer[x][y], x, y, net, sent, delivered, Settled)
  BY DEF LinkInv, BoxShape, Session
<1>3. \A x \in Boxes : \A y \in known[x] :
        LET p == peer[x][y]
        IN  /\ p.waiting # NoMessage =>
                  /\ p.waiting \in Flying(net) /\ p.waiting \in sent \ Settled
                  /\ p.waiting.src = x /\ p.waiting.dst = y
            /\ \A i \in 1 .. Len(p.queue) :
                  /\ p.queue[i] \in sent \ Settled /\ p.queue[i].src = x /\ p.queue[i].dst = y
                  /\ p.waiting # NoMessage => p.queue[i] # p.waiting
  <2>1. \A n \in Flying(net) : n \in sent /\ n \in Messages
    BY DEF LinkInv, Honest, Flying
  <2>2. \A n \in Messages : ~(n.serial < n.serial)
    BY BoxAssumption DEF Messages
  <2>. QED
    BY <1>2, <2>1, <2>2 DEF InOrder, Waits, Queued
<1>4. net' = net
  BY <1>1, <1>3 DEF Due, Flying
<1>5. \A c \in Boxes : elapsed(c) \in Nat
  BY TimeAssumption
<1>6. \A n \in lost :
        /\ n \in sent \ Settled /\ n.src = b
        /\ \E k \in expired \cup gone : n.dst = k
        /\ \A c \in known[b] \ gone :
              n.dst = c => c \in expired /\ n = peer[b][c].waiting
  <2>1. ASSUME NEW c \in expired
        PROVE  /\ peer[b][c].waiting \in sent \ Settled
               /\ peer[b][c].waiting.src = b /\ peer[b][c].waiting.dst = c
    BY <1>3 DEF Expired
  <2>2. ASSUME NEW c \in gone, NEW n \in Held(peer[b][c])
        PROVE  n \in sent \ Settled /\ n.src = b /\ n.dst = c
    <3>1. DOMAIN peer[b][c].queue = 1 .. Len(peer[b][c].queue)
      BY <1>2 DEF PeerShape
    <3>. QED
      BY <1>3, <3>1 DEF Held
  <2>. QED
    BY <2>1, <2>2
<1>. HIDE DEF lost
<1>7. BoxShape'
  <2>1. known' \in [Boxes -> SUBSET Boxes]
    BY <1>1 DEF LinkInv, BoxShape
  <2>2. \A c \in Boxes :
          (IF c \in known[b] \ gone THEN AgedPeer(peer[b][c], elapsed(c)) ELSE NewPeer(0))
            \in PeerShape
    <3>1. SUFFICES ASSUME NEW c \in Boxes
                   PROVE  AgedPeer(peer[b][c], elapsed(c)) \in PeerShape
      BY NewPeerInOrder
    <3>2. peer[b][c] \in PeerShape /\ elapsed(c) \in Nat
      BY <1>5 DEF LinkInv, BoxShape
    <3>. HIDE DEF elapsed
    <3>. QED
      BY <3>2, AgedPeerShape
  <2>. HIDE DEF gone, elapsed
  <2>3. peer' \in [Boxes -> [Boxes -> PeerShape]]
    BY <1>1, <2>2 DEF LinkInv, BoxShape
  <2>. QED
    BY <1>1, <2>1, <2>3 DEF LinkInv, BoxShape
<1>8. Histories' /\ Honest(net, sent)'
  BY <1>1, <1>4, <1>6 DEF LinkInv, Histories, Honest, Settled, Flying, Distinct
<1>9. ASSUME NEW x \in Boxes, NEW y \in known'[x]
      PROVE  Session(x, y)'
  <2>1. /\ y \in known[x] /\ y \in Boxes
        /\ x = b => y \notin gone
    BY <1>1 DEF LinkInv, BoxShape
  <2>2. Settled' = Settled \cup lost
    BY <1>1 DEF Settled
  <2>. HIDE DEF Settled
  <2>3. CASE x # b
    <3>1. peer'[x][y] = peer[x][y]
      BY <1>1, <2>1, <2>3 DEF LinkInv, BoxShape
    <3>2. /\ peer[x][y].waiting # NoMessage => peer[x][y].waiting \notin lost
          /\ \A i \in 1 .. Len(peer[x][y].queue) : peer[x][y].queue[i] \notin lost
      <4>1. \A n \in lost : n.src = b
        BY <1>6
      <4>2. /\ peer[x][y].waiting # NoMessage => peer[x][y].waiting.src = x
            /\ \A i \in 1 .. Len(peer[x][y].queue) : peer[x][y].queue[i].src = x
        BY <1>3, <2>1
      <4>. QED
        BY <2>3, <4>1, <4>2
    <3>3. /\ peer[x][y] \in PeerShape
          /\ InOrder(peer[x][y], x, y, net, sent, delivered, Settled)
      BY <1>2, <2>1
    <3>4. InOrder(peer[x][y], x, y, net, sent, delivered, Settled \cup lost)
      BY <3>2, <3>3, StaysInOrder
    <3>. QED
      BY <1>1, <1>4, <2>2, <3>1, <3>4 DEF Session
  <2>4. CASE x = b
    <3>. DEFINE p == peer[b][y]
                a == AgedPeer(p, elapsed(y))
    <3>1. peer'[b][y] = a
      BY <1>1, <2>1, <2>4 DEF LinkInv, BoxShape
    <3>0. y \in known[b] /\ y \notin gone
      BY <2>1, <2>4
    <3>3. p \in PeerShape /\ InOrder(p, b, y, net, sent, delivered, Settled)
      BY <1>2, <3>0
    <3>2. /\ a \in PeerShape /\ a.recv = p.recv /\ a.queue = p.queue
          /\ a.waiting = IF y \in expired THEN NoMessage ELSE p.waiting
      <4>1. elapsed(y) \in Nat
        BY <1>5, <2>1
      <4>2. y \in expired <=> Expired(p, elapsed(y))
        BY <3>0
      <4>. HIDE DEF elapsed, expired, p
      <4>. QED
        BY <3>3, <4>1, <4>2, AgedPeerShape
    <3>. HIDE DEF a
    <3>4. InOrder(a, b, y, net, sent, delivered, Settled)
      BY <3>2, <3>3 DEF InOrder, Waits, Queued, Heard
    <3>5. /\ a.waiting # NoMessage => a.waiting \notin lost
          /\ \A i \in 1 .. Len(a.queue) : a.queue[i] \notin lost
      <4>. HIDE DEF gone, elapsed
      <4>1. \A n \in lost : n.dst = y => n = p.waiting /\ y \in expired
        BY <1>6, <3>0
      <4>2. y \in expired => p.waiting # NoMessage
        BY DEF Expired
      <4>. HIDE DEF expired
      <4>. QED
        BY <1>3, <3>0, <3>2, <4>1, <4>2
    <3>6. InOrder(a, b, y, net, sent, delivered, Settled \cup lost)
      BY <3>2, <3>4, <3>5, StaysInOrder
    <3>. QED
      BY <1>1, <1>4, <2>2, <2>4, <3>1, <3>6 DEF Session
  <2>. QED
    BY <2>3, <2>4
<1>10. Link!GiveUp
  BY <1>1, <1>6 DEF Link!GiveUp, Settled
<1>. QED
  BY <1>7, <1>8, <1>9, <1>10 DEF LinkInv, Link!LinkNext

\* What an acknowledgement leaves of a peer.
Cleared(p) == [p EXCEPT !.waiting = NoMessage, !.timeout = 0, !.lifespan = 0, !.silence = 0]

LEMMA ClearedShape ==
  ASSUME NEW p \in PeerShape
  PROVE  /\ Cleared(p) \in PeerShape
         /\ Cleared(p).recv = p.recv /\ Cleared(p).queue = p.queue
         /\ Cleared(p).waiting = NoMessage
<1>. DEFINE z  == 0
            p1 == [p EXCEPT !.waiting = NoMessage, !.timeout = z]
            p2 == [p1 EXCEPT !.lifespan = z, !.silence = z]
<1>1. z \in Int /\ Cleared(p) = [p EXCEPT !.waiting = NoMessage, !.timeout = z,
                                          !.lifespan = z, !.silence = z]
  BY DEF Cleared
<1>. HIDE DEF z
<1>2. p2 = Cleared(p)
  BY <1>1 DEF PeerShape
<1>3. p1 \in PeerShape /\ p1.recv = p.recv /\ p1.queue = p.queue /\ p1.waiting = NoMessage
  BY <1>1 DEF PeerShape
<1>. HIDE DEF p1
<1>4. p2 \in PeerShape /\ p2.recv = p1.recv /\ p2.queue = p1.queue /\ p2.waiting = p1.waiting
  BY <1>1, <1>3 DEF PeerShape
<1>. HIDE DEF p2
<1>. QED
  BY <1>2, <1>3, <1>4

\* The message that waited is acknowledged, those behind it leave.
LEMMA ReceiveAckStep ==
  ASSUME LinkInv, NEW a \in net \cap Acks, NEW b \in Boxes, ReceiveAck(b, a)
  PROVE  LinkInv' /\ [Link!LinkNext]_(Link!lvars)
<1>. DEFINE here == {c \in known[b] : /\ peer[b][c].waiting # NoMessage
                                     /\ peer[b][c].waiting.serial = a.ack}
            next(c) == SendQueue(Cleared(peer[b][c]))
<1>1. /\ a.dst = b
      /\ peer' = [peer EXCEPT ![b] = [c \in Boxes |-> IF c \in here THEN next(c).peer ELSE @[c]]]
      /\ net' = net \cup UNION {next(c).out : c \in here}
      /\ acked' = acked \cup {peer[b][c].waiting : c \in here}
      /\ UNCHANGED <<serial, life, known, sent, delivered, again, given>>
  BY DEF ReceiveAck, Cleared
<1>2. \A x \in Boxes : \A y \in known[x] :
        /\ y \in Boxes /\ peer[x][y] \in PeerShape
        /\ InOrder(peer[x][y], x, y, net, sent, delivered, Settled)
  BY DEF LinkInv, BoxShape, Session
<1>3. CASE here = {}
  <2>1. net' = net /\ acked' = acked
    BY <1>1, <1>3
  <2>2. peer' = peer
    BY <1>1, <1>3 DEF LinkInv, BoxShape
  <2>3. UNCHANGED <<serial, life, known, peer, net, sent, delivered, acked, given>>
    BY <1>1, <2>1, <2>2
  <2>4. LinkInv'
    <3>1. BoxShape'
      BY <2>3 DEF LinkInv, BoxShape
    <3>2. Histories' /\ Honest(net, sent)'
      BY <2>3 DEF LinkInv, Histories, Honest
    <3>3. \A x \in Boxes : \A y \in known'[x] : Session(x, y)'
      BY <2>3 DEF LinkInv, Session, Settled
    <3>. QED
      BY <3>1, <3>2, <3>3 DEF LinkInv
  <2>. QED
    BY <2>3, <2>4 DEF Link!lvars
<1>4. CASE here # {}
  <2>1. PICK c : c \in here
    BY <1>4
  <2>. DEFINE p == peer[b][c]
              w == p.waiting
              q == Cleared(p)
              r == SendQueue(q)
              F == Settled \cup {w}
  <2>2. /\ c \in known[b] /\ c \in Boxes /\ p \in PeerShape
        /\ InOrder(p, b, c, net, sent, delivered, Settled)
        /\ w # NoMessage /\ w.serial = a.ack
    BY <1>2, <2>1
  <2>3. /\ w \in Flying(net) /\ w \in sent \ Settled /\ w.src = b /\ w.dst = c
        /\ w \in delivered
    BY <1>1, <2>2 DEF InOrder, Waits, LinkInv, Honest
  <2>4. here = {c}
    <3>1. SUFFICES ASSUME NEW x \in here PROVE x = c
      BY <2>1
    <3>2. /\ peer[b][x].waiting \in sent /\ peer[b][x].waiting.src = b
          /\ peer[b][x].waiting.dst = x /\ peer[b][x].waiting.serial = a.ack
      BY <1>2 DEF InOrder, Waits, LinkInv, Honest
    <3>. QED
      BY <2>2, <2>3, <3>2 DEF LinkInv, Histories, Distinct
  <2>5. /\ peer' = [peer EXCEPT ![b] = [y \in Boxes |-> IF y = c THEN r.peer ELSE @[y]]]
        /\ net' = net \cup r.out
        /\ acked' = acked \cup {w}
    BY <1>1, <2>4
  <2>6. Settled' = F
    BY <1>1, <2>5 DEF Settled
  <2>7. /\ q \in PeerShape /\ q.recv = p.recv /\ q.queue = p.queue /\ q.waiting = NoMessage
    BY <2>2, ClearedShape
  <2>. HIDE DEF q
  <2>8. InOrder(p, b, c, net, sent, delivered, Settled)
    BY <2>2
  <2>9. Queued(q, b, c, net, sent, F) /\ Waits(q, b, c, net, delivered, F)
    <3>1. \A i \in 1 .. Len(p.queue) : p.queue[i] # w
      <4>1. \A i \in 1 .. Len(p.queue) : w.serial < p.queue[i].serial
        BY <2>2, <2>3 DEF InOrder, Queued
      <4>2. w.serial \in Int
        BY <2>3 DEF Flying, Messages
      <4>. QED
        BY <4>1, <4>2
    <3>. HIDE DEF p, w
    <3>. QED
      BY <2>7, <2>8, <3>1 DEF InOrder, Queued, Waits
  <2>10. Distinct(sent) /\ Honest(net, sent) /\ sent \subseteq Messages
    BY DEF LinkInv, Histories
  <2>. HIDE DEF p, w, r, F, here
  <2>11. /\ r.peer \in PeerShape /\ r.peer.recv = p.recv /\ r.out \subseteq sent
         /\ \A n \in r.out : n.src = b /\ n.dst = c
         /\ Waits(r.peer, b, c, net \cup r.out, delivered, F)
         /\ Queued(r.peer, b, c, net \cup r.out, sent, F)
    <3>1. c \in Boxes /\ q \in PeerShape /\ q.recv = p.recv
      BY <2>2, <2>7
    <3>2. Left(SendQueue(q), q.recv, b, c, net, sent, delivered, F)
      BY <2>9, <2>10, <3>1, SendQueueInOrder
    <3>. QED
      BY <3>1, <3>2 DEF r, Left
  <2>12. /\ Flying(net') = Flying(net) \cup r.out /\ net' \cap Acks = net \cap Acks
         /\ r.out \subseteq Messages
    <3>1. \A n \in Messages : n \notin Acks
      BY DEF Messages, Acks
    <3>. QED
      BY <2>5, <2>10, <2>11, <3>1 DEF Flying
  <2>13. BoxShape'
    BY <1>1, <2>5, <2>11 DEF LinkInv, BoxShape
  <2>14. Histories' /\ Honest(net, sent)'
    <3>1. Histories'
      BY <1>1, <2>3, <2>5, <2>12 DEF LinkInv, Histories, Distinct, Settled
    <3>2. Honest(net, sent)'
      BY <1>1, <2>5, <2>10, <2>11, <2>12 DEF Honest
    <3>. QED
      BY <3>1, <3>2
  <2>15. ASSUME NEW x \in Boxes, NEW y \in known'[x]
         PROVE  Session(x, y)'
    <3>1. CASE x = b /\ y = c
      <4>1. peer'[x][y] = r.peer
        BY <2>2, <2>5, <3>1 DEF LinkInv, BoxShape
      <4>2. Heard(r.peer, b, c, delivered)
        BY <2>2, <2>11 DEF InOrder, Heard
      <4>. QED
        BY <1>1, <2>5, <2>6, <2>11, <3>1, <4>1, <4>2 DEF Session, InOrder
    <3>2. CASE ~(x = b /\ y = c)
      <4>1. y \in known[x] /\ y \in Boxes /\ peer'[x][y] = peer[x][y]
        BY <1>1, <2>5, <3>2 DEF LinkInv, BoxShape
      <4>2. /\ peer[x][y] \in PeerShape
            /\ InOrder(peer[x][y], x, y, net, sent, delivered, Settled)
        BY <1>2, <4>1
      <4>3. /\ peer[x][y].waiting # NoMessage => peer[x][y].waiting # w
            /\ \A i \in 1 .. Len(peer[x][y].queue) : peer[x][y].queue[i] # w
        BY <2>3, <3>2, <4>2 DEF InOrder, Waits, Queued
      <4>4. InOrder(peer[x][y], x, y, net', sent, delivered, F)
        <5>1. \A n \in Flying(net') : n.src = x /\ n.dst = y => n \in Flying(net)
          BY <2>11, <2>12, <3>2
        <5>2. net \subseteq net' /\ \A d \in net' \cap Acks : d \in net
          BY <2>5, <2>12
        <5>3. \A n \in F \ Settled : n = w
          BY DEF F
        <5>. HIDE DEF Settled
        <5>. QED
          BY <4>2, <4>3, <5>1, <5>2, <5>3, StaysInOrder
      <4>. QED
        BY <1>1, <2>6, <4>1, <4>4 DEF Session
    <3>. QED
      BY <3>1, <3>2
  <2>16. Link!Acknowledge
    BY <1>1, <2>3, <2>5 DEF Link!Acknowledge, Settled
  <2>. QED
    BY <2>13, <2>14, <2>15, <2>16 DEF LinkInv, Link!LinkNext
<1>. QED
  BY <1>3, <1>4

\* A process that has sent nothing is restarted: it forgets what it heard, and
\* nobody loses a message by it.
LEMMA RestartStep ==
  ASSUME LinkInv, NEW b \in Boxes, Restart(b), NothingSent(b)
  PROVE  LinkInv' /\ UNCHANGED (Link!lvars)
<1>1. /\ life[b] < MaxLives /\ life' = [life EXCEPT ![b] = @ + 1]
      /\ serial' = [serial EXCEPT ![b] = 0]
      /\ known' = [known EXCEPT ![b] = {}]
      /\ peer' = [peer EXCEPT ![b] = [c \in Boxes |-> NewPeer(0)]]
      /\ given' = given \cup UNION {Held(peer[b][c]) : c \in known[b]}
      /\ UNCHANGED <<net, sent, delivered, again, acked>>
  BY DEF Restart
<1>2. ASSUME NEW c \in known[b] PROVE Held(peer[b][c]) = {}
  <2>1. peer[b][c] \in PeerShape /\ InOrder(peer[b][c], b, c, net, sent, delivered, Settled)
    BY DEF LinkInv, BoxShape, Session
  <2>2. DOMAIN peer[b][c].queue = 1 .. Len(peer[b][c].queue)
    BY <2>1 DEF PeerShape
  <2>3. peer[b][c].waiting = NoMessage
    BY <2>1 DEF NothingSent, InOrder, Waits, LinkInv, Honest
  <2>4. \A i \in 1 .. Len(peer[b][c].queue) : FALSE
    BY <2>1 DEF NothingSent, InOrder, Queued
  <2>. QED
    BY <2>2, <2>3, <2>4 DEF Held
<1>3. given' = given
  BY <1>1, <1>2
<1>4. BoxShape'
  <2>1. life' \in [Boxes -> 1 .. MaxLives]
    BY <1>1, BoxAssumption DEF LinkInv, BoxShape
  <2>2. serial' \in [Boxes -> 0 .. MaxSerial] /\ known' \in [Boxes -> SUBSET Boxes]
    BY <1>1, BoxAssumption DEF LinkInv, BoxShape
  <2>3. peer' \in [Boxes -> [Boxes -> PeerShape]]
    BY <1>1, NewPeerInOrder DEF LinkInv, BoxShape
  <2>. QED
    BY <2>1, <2>2, <2>3 DEF BoxShape
<1>5. \A m \in sent : m.serial <= serial'[m.src]
  BY <1>1 DEF NothingSent, LinkInv, Histories, BoxShape, Messages
<1>6. Histories' /\ Honest(net, sent)'
  BY <1>1, <1>3, <1>5 DEF LinkInv, Histories, Honest
<1>7. ASSUME NEW x \in Boxes, NEW y \in known'[x]
      PROVE  Session(x, y)'
  <2>1. x # b /\ y \in known[x] /\ y \in Boxes
    BY <1>1 DEF LinkInv, BoxShape
  <2>2. peer'[x][y] = peer[x][y]
    BY <1>1, <2>1 DEF LinkInv, BoxShape
  <2>. QED
    BY <1>1, <1>3, <2>1, <2>2 DEF LinkInv, Session, Settled
<1>. QED
  BY <1>1, <1>3, <1>4, <1>6, <1>7 DEF LinkInv, Link!lvars

-----------------------------------------------------------------------------
(* The theorems.                                                           *)

\* Every step keeps the invariant and is one of the abstract link, or none.
LEMMA LinkStep ==
  ASSUME LinkInv, [UdpNext /\ QuietRestart]_uvars
  PROVE  LinkInv' /\ [Link!LinkNext]_(Link!lvars)
<1>1. ASSUME NEW b \in Boxes, NEW c \in Boxes, NEW reliable \in BOOLEAN,
             Send(b, c, reliable)
      PROVE  LinkInv' /\ [Link!LinkNext]_(Link!lvars)
  BY <1>1, SendStep DEF Link!LinkNext
<1>2. ASSUME ReceiveSome
      PROVE  LinkInv' /\ [Link!LinkNext]_(Link!lvars)
  <2>1. PICK d \in net : IF "ack" \in DOMAIN d THEN ReceiveAck(d.dst, d) ELSE Receive(d.dst, d)
    BY <1>2 DEF ReceiveSome
  <2>2. d \in Messages \cup Acks
    BY DEF LinkInv, Honest
  <2>3. CASE d \in Acks
    <3>1. "ack" \in DOMAIN d /\ d.dst \in Boxes
      BY <2>3 DEF Acks
    <3>. QED
      BY <2>1, <2>3, <3>1, ReceiveAckStep
  <2>4. CASE d \in Messages
    <3>1. "ack" \notin DOMAIN d /\ d.dst \in Boxes /\ d \in Flying(net)
      BY <2>4 DEF Messages, Flying
    <3>. QED
      BY <2>1, <3>1, ReceiveStep
  <2>. QED
    BY <2>2, <2>3, <2>4
<1>3. ASSUME NEW b \in Boxes, IdleSome(b)
      PROVE  LinkInv' /\ [Link!LinkNext]_(Link!lvars)
  BY <1>3, IdleStep DEF IdleSome
<1>4. ASSUME QuietRestart, NEW b \in Boxes, Restart(b)
      PROVE  LinkInv' /\ [Link!LinkNext]_(Link!lvars)
  BY <1>4, RestartStep DEF QuietRestart
<1>5. CASE UNCHANGED uvars
  <2>1. UNCHANGED <<serial, life, known, peer, net, sent, delivered, acked, given>>
    BY <1>5 DEF uvars, boxes, history
  <2>2. BoxShape'
    BY <2>1 DEF LinkInv, BoxShape
  <2>3. Histories' /\ Honest(net, sent)'
    BY <2>1 DEF LinkInv, Histories, Honest
  <2>4. \A x \in Boxes : \A y \in known'[x] : Session(x, y)'
    BY <2>1 DEF LinkInv, Session, Settled
  <2>. QED
    BY <2>1, <2>2, <2>3, <2>4 DEF LinkInv, Link!lvars
<1>. QED
  BY <1>1, <1>2, <1>3, <1>4, <1>5 DEF UdpNext, SendSome

\* Boxes restarted only before they have sent anything, as those that only
\* listen, implement a reliable link: what is
\* acknowledged was delivered (handleMessage acknowledges also what it drops),
\* what was delivered was sent, and nothing is both acknowledged and given up.
THEOREM LinkImplemented ==
  UdpSpec /\ [][QuietRestart]_uvars => ImplementsLink
<1>1. UdpInit => LinkInv /\ Link!LinkInit
  BY LinkInvInit DEF UdpInit, Link!LinkInit
<1>2. LinkInv /\ [UdpNext /\ QuietRestart]_uvars => LinkInv' /\ [Link!LinkNext]_(Link!lvars)
  BY LinkStep
<1>. QED
  BY <1>1, <1>2, PTL DEF UdpSpec, ImplementsLink, Link!LinkSpec

\* While a reliable message waits nothing younger leaves for the same peer,
\* whichever call empties the queue (sendUDP or an acknowledgement).
THEOREM OneReliableAtATime ==
  UdpSpec /\ [][QuietRestart]_uvars => []StopAndWait
<1>1. LinkInv => StopAndWait
  <2>1. SUFFICES ASSUME LinkInv, NEW b \in Boxes, NEW c \in known[b],
                        peer[b][c].waiting # NoMessage, NEW d \in net,
                        "ack" \notin DOMAIN d, d.src = b, d.dst = c,
                        d.serial > peer[b][c].waiting.serial
                 PROVE  FALSE
    BY DEF StopAndWait
  <2>2. d \in Messages
    <3>1. d \in Acks => "ack" \in DOMAIN d
      BY DEF Acks
    <3>. QED
      BY <2>1, <3>1 DEF LinkInv, Honest
  <2>3. d \in Flying(net)
    BY <2>2 DEF Flying
  <2>4. /\ d.serial <= peer[b][c].waiting.serial
        /\ peer[b][c].waiting \in Messages
    BY <2>1, <2>3 DEF LinkInv, Session, InOrder, Waits, Flying
  <2>. QED
    BY <2>1, <2>2, <2>4 DEF Messages
<1>2. UdpInit => LinkInv
  BY LinkInvInit
<1>3. LinkInv /\ [UdpNext /\ QuietRestart]_uvars => LinkInv'
  BY LinkStep
<1>. QED
  BY <1>1, <1>2, <1>3, PTL DEF UdpSpec

-----------------------------------------------------------------------------
(* No reliable message is lost from sight, restarts of any box included.   *)

\* A reliable message is held by the peer it was sent to, waiting or queued,
\* until it is acknowledged or given up.
Accounted ==
  \A m \in sent : m.reliable =>
    \/ m \in acked \cup given
    \/ m.dst \in known[m.src] /\ m \in Held(peer[m.src][m.dst])

\* What b holds for c after a step, or has settled.
Secured(b, c) ==
  acked' \cup given' \cup (IF c \in known'[b] THEN Held(peer'[b][c]) ELSE {})

AccountInv ==
  /\ BoxShape /\ sent \subseteq Messages /\ net \subseteq Messages \cup Acks
  /\ Accounted

\* The burst stops at the first reliable message of the queue, if there is one.
LEMMA BurstStops ==
  ASSUME NEW q \in Seq(Messages), NEW i \in 1 .. Len(q), q[i].reliable
  PROVE  Burst(q) <= i /\ q[Burst(q)].reliable
<1>. DEFINE stops == {k \in DOMAIN q : q[k].reliable}
<1>1. DOMAIN q = 1 .. Len(q) /\ i \in stops /\ stops \subseteq Nat
  OBVIOUS
<1>2. \E k \in stops : \A j \in stops : k <= j
  <2>. HIDE DEF stops
  <2>. QED BY <1>1, LeastNatural
<1>3. LET n == CHOOSE k \in stops : \A j \in stops : k <= j
      IN  n \in stops /\ \A j \in stops : n <= j
  BY <1>2
<1>4. Burst(q) = CHOOSE k \in stops : \A j \in stops : k <= j
  BY <1>1 DEF Burst
<1>. QED BY <1>1, <1>3, <1>4

\* sendQueue loses no reliable message: those that do not leave stay behind the
\* one that does.
LEMMA SendQueueHolds ==
  ASSUME NEW p \in PeerShape
  PROVE  /\ SendQueue(p).peer \in PeerShape /\ SendQueue(p).out \subseteq Messages
         /\ SendQueue(p).peer.recv = p.recv
         /\ Held(p) \subseteq Held(SendQueue(p).peer)
<1>1. CASE p.waiting # NoMessage \/ p.queue = <<>>
  <2>1. SendQueue(p) = [peer |-> p, out |-> {}]
    BY <1>1 DEF SendQueue
  <2>. QED BY <2>1
<1>2. CASE p.waiting = NoMessage /\ p.queue # <<>>
  <2>. DEFINE q    == p.queue
              n    == Burst(q)
              last == q[n]
              rest == SubSeq(q, n + 1, Len(q))
              out  == {q[i] : i \in 1 .. n}
              w    == IF last.reliable THEN last ELSE NoMessage
              t    == IF last.reliable THEN Resend ELSE 0
              e    == Updated(p, rest, w, t, 0)
  <2>1. q \in Seq(Messages) /\ q # <<>> /\ Len(q) \in Nat /\ DOMAIN q = 1 .. Len(q)
    BY <1>2 DEF PeerShape
  <2>2. n \in 1 .. Len(q)
    BY <2>1, BurstInQueue
  <2>3. \A i \in 1 .. Len(q) : q[i] \in Messages
    BY <2>1
  <2>4. /\ rest \in Seq(Messages) /\ Len(rest) = Len(q) - n /\ DOMAIN rest = 1 .. Len(rest)
        /\ \A i \in 1 .. Len(rest) : rest[i] = q[n + i]
    <3>. HIDE DEF q, n
    <3>. QED BY <2>1, <2>2, RestOfQueue
  <2>5. w \in Messages \cup {NoMessage} /\ t \in Int
    BY <2>2, <2>3, TimeAssumption
  <2>6. SendQueue(p) = [peer |-> e, out |-> out]
    BY <1>2 DEF SendQueue, Updated
  <2>. HIDE DEF rest, t
  <2>7. e \in PeerShape /\ e.queue = rest /\ e.waiting = w /\ e.recv = p.recv
    <3>1. 0 \in Int /\ rest \in Seq(Messages)
      BY <2>4
    <3>. HIDE DEF w, last, n, q
    <3>. QED BY <2>5, <3>1, PeerUpdate
  <2>. HIDE DEF e
  <2>8. out \subseteq Messages
    BY <2>2, <2>3
  <2>9. ASSUME NEW m \in Held(p) PROVE m \in Held(e)
    <3>1. PICK i \in 1 .. Len(q) : m = q[i]
      BY <1>2, <2>1 DEF Held
    <3>2. m.reliable /\ m # NoMessage
      BY DEF Held
    <3>3. n <= i /\ q[n].reliable
      <4>. HIDE DEF q
      <4>. QED BY <2>1, <3>1, <3>2, BurstStops
    <3>4. CASE i = n
      BY <2>7, <3>1, <3>2, <3>4 DEF Held
    <3>5. CASE i # n
      <4>1. i - n \in 1 .. Len(rest) /\ n + (i - n) = i
        BY <2>1, <2>2, <2>4, <3>3, <3>5
      <4>2. rest[i - n] = q[n + (i - n)]
        <5>. DEFINE j == i - n
        <5>1. j \in 1 .. Len(rest)
          BY <4>1
        <5>. HIDE DEF j, q, n
        <5>2. rest[j] = q[n + j]
          BY <2>4, <5>1
        <5>. QED BY <5>2 DEF j
      <4>3. rest[i - n] = m
        <5>. HIDE DEF q, n
        <5>. QED BY <3>1, <4>1, <4>2
      <4>. QED BY <2>4, <2>7, <3>2, <4>1, <4>3 DEF Held
    <3>. QED BY <3>4, <3>5
  <2>. QED BY <2>6, <2>7, <2>8, <2>9
<1>. QED BY <1>1, <1>2

\* A step keeps everything in sight if each box does so for each of its peers.
LEMMA AccountedKept ==
  ASSUME AccountInv, acked \subseteq acked', given \subseteq given',
         \A b, c \in Boxes : c \in known[b] => Held(peer[b][c]) \subseteq Secured(b, c),
         \A m \in sent' : \/ m \in sent
                          \/ /\ m.src \in Boxes /\ m.dst \in Boxes
                             /\ m.reliable => m \in Secured(m.src, m.dst)
  PROVE  Accounted'
<1>. SUFFICES ASSUME NEW m \in sent', m.reliable
              PROVE  \/ m \in acked' \cup given'
                     \/ m.dst \in known'[m.src] /\ m \in Held(peer'[m.src][m.dst])
  BY DEF Accounted, Held
<1>1. CASE m \in acked \cup given
  BY <1>1
<1>2. CASE m \notin acked \cup given
  <2>1. m \in Secured(m.src, m.dst)
    <3>1. CASE m \in sent
      <4>1. m.src \in Boxes /\ m.dst \in Boxes
        BY <3>1 DEF AccountInv, Messages
      <4>. QED BY <1>2, <3>1, <4>1 DEF AccountInv, Accounted
    <3>. QED BY <3>1
  <2>. QED BY <2>1 DEF Secured
<1>. QED BY <1>1, <1>2

\* A message that is sent joins the queue of its peer.
LEMMA SendAccounted ==
  ASSUME AccountInv, NEW b \in Boxes, NEW c \in Boxes, NEW reliable \in BOOLEAN,
         Send(b, c, reliable)
  PROVE  AccountInv'
<1>. DEFINE m == [src |-> b, dst |-> c, serial |-> serial[b] + 1,
                  reliable |-> reliable, life |-> life[b]]
            p == IF c \in known[b] THEN peer[b][c] ELSE NewPeer(0)
            p1 == [p EXCEPT !.queue = Append(@, m)]
            r == SendQueue(p1)
<1>1. m \in Messages /\ m.src = b /\ m.dst = c /\ serial[b] + 1 \in 0 .. MaxSerial
  <2>1. serial[b] \in 0 .. MaxSerial /\ life[b] \in 1 .. MaxLives
    BY DEF AccountInv, BoxShape
  <2>2. serial[b] < Quota[b] /\ Quota[b] \in 0 .. MaxSerial
    BY BoxAssumption DEF Send
  <2>3. serial[b] + 1 \in 1 .. MaxSerial
    BY <2>1, <2>2, BoxAssumption
  <2>. QED BY <2>1, <2>3 DEF Messages
<1>2. /\ serial' = [serial EXCEPT ![b] = @ + 1]
      /\ known' = [known EXCEPT ![b] = @ \cup {c}]
      /\ peer' = [peer EXCEPT ![b][c] = r.peer]
      /\ net' = net \cup r.out
      /\ sent' = sent \cup {m}
      /\ UNCHANGED <<life, acked, given>>
  BY DEF Send
<1>. HIDE DEF m
<1>3. p \in PeerShape
  BY NewPeerInOrder DEF AccountInv, BoxShape
<1>4. c \in known[b] => p = peer[b][c]
  OBVIOUS
<1>. HIDE DEF p
<1>5. p1 \in PeerShape /\ p1.waiting = p.waiting /\ p1.queue = Append(p.queue, m)
  BY <1>1, <1>3, AppendProperties DEF PeerShape
<1>6. Held(p) \subseteq Held(p1) /\ (m.reliable => m \in Held(p1))
  <2>1. /\ Len(p.queue) \in Nat /\ DOMAIN p.queue = 1 .. Len(p.queue)
        /\ DOMAIN p1.queue = 1 .. (Len(p.queue) + 1)
        /\ p1.queue[Len(p.queue) + 1] = m
        /\ \A i \in 1 .. Len(p.queue) : p1.queue[i] = p.queue[i]
    BY <1>1, <1>3, <1>5, AppendProperties DEF PeerShape
  <2>2. m # NoMessage
    BY <1>1, NoMessageAssumption
  <2>. HIDE DEF p1
  <2>3. ASSUME NEW x \in Held(p) PROVE x \in Held(p1)
    <3>1. CASE x = p.waiting
      BY <1>5, <3>1 DEF Held
    <3>2. CASE x # p.waiting
      <4>1. PICK i \in DOMAIN p.queue : x = p.queue[i]
        BY <3>2 DEF Held
      <4>2. i \in DOMAIN p1.queue /\ p1.queue[i] = x
        BY <2>1, <4>1
      <4>. QED BY <2>3, <4>2 DEF Held
    <3>. QED BY <3>1, <3>2
  <2>4. m.reliable => m \in Held(p1)
    <3>1. Len(p.queue) + 1 \in DOMAIN p1.queue
      BY <2>1
    <3>. QED BY <2>1, <2>2, <3>1 DEF Held
  <2>. QED BY <2>3, <2>4
<1>. HIDE DEF p1
<1>7. r.peer \in PeerShape /\ r.out \subseteq Messages /\ Held(p1) \subseteq Held(r.peer)
  BY <1>5, SendQueueHolds
<1>. HIDE DEF r
<1>8. BoxShape'
  BY <1>1, <1>2, <1>7 DEF AccountInv, BoxShape
<1>9. peer'[b][c] = r.peer /\ c \in known'[b]
  BY <1>2 DEF AccountInv, BoxShape
<1>10. ASSUME NEW x \in Boxes, NEW y \in Boxes, y \in known[x]
       PROVE  Held(peer[x][y]) \subseteq Secured(x, y)
  <2>1. CASE x = b /\ y = c
    BY <1>4, <1>6, <1>7, <1>9, <1>10, <2>1 DEF Secured
  <2>2. CASE ~(x = b /\ y = c)
    <3>1. peer'[x][y] = peer[x][y] /\ y \in known'[x]
      BY <1>2, <1>10, <2>2 DEF AccountInv, BoxShape
    <3>. QED BY <3>1 DEF Secured
  <2>. QED BY <2>1, <2>2
<1>11. m.reliable => m \in Secured(b, c)
  BY <1>6, <1>7, <1>9 DEF Secured
<1>12. Accounted'
  BY <1>1, <1>2, <1>10, <1>11, AccountedKept
<1>13. sent' \subseteq Messages /\ net' \subseteq Messages \cup Acks
  BY <1>1, <1>2, <1>7 DEF AccountInv
<1>. QED BY <1>8, <1>12, <1>13 DEF AccountInv

\* A datagram that arrives leaves what its box holds, or the box forgets the
\* peer and gives up what it held.
LEMMA ReceiveAccounted ==
  ASSUME AccountInv, NEW m \in net \cap Messages, NEW b \in Boxes, Receive(b, m)
  PROVE  AccountInv'
<1>. DEFINE s == m.serial
            c == m.src
            p == IF c \in known[b] THEN peer[b][c] ELSE Newcomer(s)
            q == [p EXCEPT !.recv = IF s > @ THEN s ELSE @, !.silence = 0]
            k == [src |-> b, dst |-> c, ack |-> s]
<1>1. c \in Boxes /\ s \in 1 .. MaxSerial /\ s \in Nat /\ s - 1 \in Nat
  BY BoxAssumption DEF Messages
<1>2. p \in PeerShape /\ (c \in known[b] => p = peer[b][c])
  BY <1>1, NewPeerInOrder DEF AccountInv, BoxShape, Newcomer
<1>. HIDE DEF p
<1>3. UNCHANGED <<serial, life, sent, acked>>
  BY DEF Receive
<1>4. CASE Reset(p, s)
  <2>1. /\ known' = [known EXCEPT ![b] = @ \ {c}]
        /\ peer' = [peer EXCEPT ![b][c] = NewPeer(0)]
        /\ given' = given \cup Held(p) /\ net' = net
    BY <1>4 DEF Receive, p
  <2>2. BoxShape'
    BY <1>1, <1>3, <2>1, NewPeerInOrder DEF AccountInv, BoxShape
  <2>3. ASSUME NEW x \in Boxes, NEW y \in Boxes, y \in known[x]
        PROVE  Held(peer[x][y]) \subseteq Secured(x, y)
    <3>1. CASE x = b /\ y = c
      BY <1>2, <2>1, <2>3, <3>1 DEF Secured
    <3>2. CASE ~(x = b /\ y = c)
      <4>1. peer'[x][y] = peer[x][y] /\ y \in known'[x]
        BY <2>1, <2>3, <3>2 DEF AccountInv, BoxShape
      <4>. QED BY <4>1 DEF Secured
    <3>. QED BY <3>1, <3>2
  <2>4. Accounted'
    BY <1>3, <2>1, <2>3, AccountedKept
  <2>. QED BY <1>3, <2>1, <2>2, <2>4 DEF AccountInv
<1>5. CASE ~Reset(p, s)
  <2>1. /\ known' = [known EXCEPT ![b] = @ \cup {c}]
        /\ peer' = [peer EXCEPT ![b][c] = q]
        /\ net' = IF m.reliable THEN net \cup {k} ELSE net
        /\ given' = given
    BY <1>5 DEF Receive, p
  <2>2. q \in PeerShape /\ q.waiting = p.waiting /\ q.queue = p.queue
    <3>. DEFINE v == IF s > p.recv THEN s ELSE p.recv
                z == 0
    <3>1. v \in Nat /\ z \in Int /\ q = [p EXCEPT !.recv = v, !.silence = z]
      BY <1>1, <1>2 DEF PeerShape
    <3>. HIDE DEF q, v, z
    <3>. QED BY <1>2, <3>1 DEF PeerShape
  <2>. HIDE DEF q
  <2>3. Held(q) = Held(p)
    BY <2>2 DEF Held
  <2>4. k \in Acks
    BY <1>1 DEF Acks
  <2>5. BoxShape'
    BY <1>1, <1>3, <2>1, <2>2 DEF AccountInv, BoxShape
  <2>6. ASSUME NEW x \in Boxes, NEW y \in Boxes, y \in known[x]
        PROVE  Held(peer[x][y]) \subseteq Secured(x, y)
    <3>1. CASE x = b /\ y = c
      <4>1. peer'[x][y] = q /\ y \in known'[x]
        BY <2>1, <3>1 DEF AccountInv, BoxShape
      <4>. QED BY <1>2, <2>3, <2>6, <3>1, <4>1 DEF Secured
    <3>2. CASE ~(x = b /\ y = c)
      <4>1. peer'[x][y] = peer[x][y] /\ y \in known'[x]
        BY <2>1, <2>6, <3>2 DEF AccountInv, BoxShape
      <4>. QED BY <4>1 DEF Secured
    <3>. QED BY <3>1, <3>2
  <2>7. Accounted'
    BY <1>3, <2>1, <2>6, AccountedKept
  <2>. QED BY <1>3, <2>1, <2>4, <2>5, <2>7 DEF AccountInv
<1>. QED BY <1>4, <1>5

\* Of what a peer held, an acknowledgement settles the message that waits.
LEMMA AckAccounted ==
  ASSUME AccountInv, NEW a \in net \cap Acks, NEW b \in Boxes, ReceiveAck(b, a)
  PROVE  AccountInv'
<1>. DEFINE here == {c \in known[b] : /\ peer[b][c].waiting # NoMessage
                                     /\ peer[b][c].waiting.serial = a.ack}
            next(c) == SendQueue(Cleared(peer[b][c]))
<1>1. /\ a.dst = b
      /\ peer' = [peer EXCEPT ![b] = [c \in Boxes |-> IF c \in here THEN next(c).peer ELSE @[c]]]
      /\ net' = net \cup UNION {next(c).out : c \in here}
      /\ acked' = acked \cup {peer[b][c].waiting : c \in here}
      /\ UNCHANGED <<serial, life, known, sent, delivered, again, given>>
  BY DEF ReceiveAck, Cleared
<1>2. ASSUME NEW c \in Boxes
      PROVE  /\ next(c).peer \in PeerShape /\ next(c).out \subseteq Messages
             /\ Held(peer[b][c]) \subseteq {peer[b][c].waiting} \cup Held(next(c).peer)
  <2>1. peer[b][c] \in PeerShape
    BY DEF AccountInv, BoxShape
  <2>2. /\ Cleared(peer[b][c]) \in PeerShape
        /\ Cleared(peer[b][c]).queue = peer[b][c].queue
    BY <2>1, ClearedShape
  <2>3. Held(peer[b][c]) \subseteq {peer[b][c].waiting} \cup Held(Cleared(peer[b][c]))
    BY <2>2 DEF Held
  <2>4. /\ next(c).peer \in PeerShape /\ next(c).out \subseteq Messages
        /\ Held(Cleared(peer[b][c])) \subseteq Held(next(c).peer)
    BY <2>2, SendQueueHolds
  <2>. QED BY <2>3, <2>4
<1>3. here \subseteq Boxes
  BY DEF AccountInv, BoxShape
<1>. HIDE DEF here, next
<1>4. \A x, y \in Boxes : peer'[x][y] = IF x = b /\ y \in here THEN next(y).peer ELSE peer[x][y]
  BY <1>1 DEF AccountInv, BoxShape
<1>5. BoxShape'
  <2>1. peer' \in [Boxes -> [Boxes -> PeerShape]]
    <3>1. peer \in [Boxes -> [Boxes -> PeerShape]]
      BY DEF AccountInv, BoxShape
    <3>2. [c \in Boxes |-> IF c \in here THEN next(c).peer ELSE peer[b][c]]
            \in [Boxes -> PeerShape]
      BY <1>2, <3>1
    <3>. QED BY <1>1, <3>1, <3>2
  <2>. QED BY <1>1, <2>1 DEF AccountInv, BoxShape
<1>6. ASSUME NEW x \in Boxes, NEW y \in Boxes, y \in known[x]
      PROVE  Held(peer[x][y]) \subseteq Secured(x, y)
  <2>1. CASE x = b /\ y \in here
    <3>1. peer'[x][y] = next(y).peer /\ y \in known'[x] /\ peer[b][y].waiting \in acked'
      BY <1>1, <1>4, <1>6, <2>1
    <3>. QED BY <1>2, <2>1, <3>1 DEF Secured
  <2>2. CASE ~(x = b /\ y \in here)
    <3>1. peer'[x][y] = peer[x][y] /\ y \in known'[x]
      BY <1>1, <1>4, <1>6, <2>2
    <3>. QED BY <3>1 DEF Secured
  <2>. QED BY <2>1, <2>2
<1>7. Accounted'
  BY <1>1, <1>6, AccountedKept
<1>8. net' \subseteq Messages \cup Acks
  BY <1>1, <1>2, <1>3 DEF AccountInv
<1>. QED BY <1>1, <1>5, <1>7, <1>8 DEF AccountInv

\* What idle() takes from a peer it gives up: the message that has waited too
\* long, or all that a silent peer held.
LEMMA IdleAccounted ==
  ASSUME AccountInv, NEW b \in Boxes, NEW e \in Elapses, Idle(b, e)
  PROVE  AccountInv'
<1>. DEFINE elapsed(c) == IF peer[b][c].fresh THEN 0 ELSE e
            gone       == {c \in known[b] : Silent(peer[b][c], elapsed(c))}
            expired    == {c \in known[b] : Expired(peer[b][c], elapsed(c))}
            due        == {c \in known[b] : Due(peer[b][c], elapsed(c))}
            aged(c)    == AgedPeer(peer[b][c], elapsed(c))
<1>1. /\ known' = [known EXCEPT ![b] = @ \ gone]
      /\ peer' = [peer EXCEPT ![b] = [c \in Boxes |->
                    IF c \in known[b] \ gone THEN aged(c) ELSE NewPeer(0)]]
      /\ net' = net \cup {peer[b][c].waiting : c \in due}
      /\ given' = given \cup {peer[b][c].waiting : c \in expired}
                        \cup UNION {Held(peer[b][c]) : c \in gone}
      /\ UNCHANGED <<serial, life, sent, acked>>
  BY DEF Idle
<1>2. ASSUME NEW c \in Boxes
      PROVE  /\ peer[b][c] \in PeerShape /\ aged(c) \in PeerShape
             /\ aged(c).queue = peer[b][c].queue
             /\ aged(c).waiting = IF Expired(peer[b][c], elapsed(c)) THEN NoMessage
                                  ELSE peer[b][c].waiting
  <2>1. peer[b][c] \in PeerShape /\ elapsed(c) \in Nat
    BY TimeAssumption DEF AccountInv, BoxShape
  <2>. HIDE DEF elapsed
  <2>. QED BY <2>1, AgedPeerShape
<1>3. known[b] \subseteq Boxes
  BY DEF AccountInv, BoxShape
<1>4. ASSUME NEW c \in known[b]
      PROVE  /\ c \in expired => Held(peer[b][c]) \subseteq {peer[b][c].waiting} \cup Held(aged(c))
             /\ c \notin expired => Held(peer[b][c]) = Held(aged(c))
             /\ c \in due => peer[b][c].waiting \in Messages
  <2>1. /\ c \in Boxes /\ peer[b][c] \in PeerShape /\ aged(c).queue = peer[b][c].queue
        /\ aged(c).waiting = IF Expired(peer[b][c], elapsed(c)) THEN NoMessage
                             ELSE peer[b][c].waiting
    BY <1>2, <1>3
  <2>2. c \in expired <=> Expired(peer[b][c], elapsed(c))
    OBVIOUS
  <2>3. c \in due => peer[b][c].waiting # NoMessage
    BY DEF Due
  <2>. HIDE DEF elapsed, expired, due, aged
  <2>. QED BY <2>1, <2>2, <2>3 DEF Held, PeerShape
<1>. HIDE DEF elapsed, gone, expired, due, aged
<1>5. \A x, y \in Boxes :
        peer'[x][y] = IF x # b THEN peer[x][y]
                      ELSE IF y \in known[b] \ gone THEN aged(y) ELSE NewPeer(0)
  BY <1>1 DEF AccountInv, BoxShape
<1>6. BoxShape'
  <2>1. peer' \in [Boxes -> [Boxes -> PeerShape]]
    <3>1. peer \in [Boxes -> [Boxes -> PeerShape]]
      BY DEF AccountInv, BoxShape
    <3>2. [c \in Boxes |-> IF c \in known[b] \ gone THEN aged(c) ELSE NewPeer(0)]
            \in [Boxes -> PeerShape]
      BY <1>2, NewPeerInOrder
    <3>. QED BY <1>1, <3>1, <3>2
  <2>. QED BY <1>1, <2>1 DEF AccountInv, BoxShape
<1>7. ASSUME NEW x \in Boxes, NEW y \in Boxes, y \in known[x]
      PROVE  Held(peer[x][y]) \subseteq Secured(x, y)
  <2>1. CASE x # b
    <3>1. peer'[x][y] = peer[x][y] /\ y \in known'[x]
      BY <1>1, <1>5, <1>7, <2>1 DEF AccountInv, BoxShape
    <3>. QED BY <3>1 DEF Secured
  <2>2. CASE x = b /\ y \in gone
    <3>1. Held(peer[b][y]) \subseteq given'
      BY <1>1, <2>2
    <3>. QED BY <2>2, <3>1 DEF Secured
  <2>3. CASE x = b /\ y \notin gone
    <3>1. peer'[x][y] = aged(y) /\ y \in known'[x] /\ y \in known[b]
      BY <1>1, <1>5, <1>7, <2>3 DEF AccountInv, BoxShape
    <3>2. y \in expired => peer[b][y].waiting \in given'
      BY <1>1
    <3>. QED BY <1>4, <2>3, <3>1, <3>2 DEF Secured
  <2>. QED BY <2>1, <2>2, <2>3
<1>8. Accounted'
  BY <1>1, <1>7, AccountedKept
<1>9. net' \subseteq Messages \cup Acks
  <2>1. due \subseteq known[b]
    BY DEF due
  <2>. QED BY <1>1, <1>4, <2>1 DEF AccountInv
<1>. QED BY <1>1, <1>6, <1>8, <1>9 DEF AccountInv

\* A box that is restarted gives up all it held.
LEMMA RestartAccounted ==
  ASSUME AccountInv, NEW b \in Boxes, Restart(b)
  PROVE  AccountInv'
<1>1. /\ life[b] < MaxLives /\ life' = [life EXCEPT ![b] = @ + 1]
      /\ serial' = [serial EXCEPT ![b] = 0]
      /\ known' = [known EXCEPT ![b] = {}]
      /\ peer' = [peer EXCEPT ![b] = [c \in Boxes |-> NewPeer(0)]]
      /\ given' = given \cup UNION {Held(peer[b][c]) : c \in known[b]}
      /\ UNCHANGED <<net, sent, acked>>
  BY DEF Restart
<1>2. BoxShape'
  <2>1. life' \in [Boxes -> 1 .. MaxLives]
    BY <1>1, BoxAssumption DEF AccountInv, BoxShape
  <2>2. serial' \in [Boxes -> 0 .. MaxSerial] /\ known' \in [Boxes -> SUBSET Boxes]
    BY <1>1, BoxAssumption DEF AccountInv, BoxShape
  <2>3. peer' \in [Boxes -> [Boxes -> PeerShape]]
    BY <1>1, NewPeerInOrder DEF AccountInv, BoxShape
  <2>. QED BY <2>1, <2>2, <2>3 DEF BoxShape
<1>3. ASSUME NEW x \in Boxes, NEW y \in Boxes, y \in known[x]
      PROVE  Held(peer[x][y]) \subseteq Secured(x, y)
  <2>1. CASE x = b
    <3>1. Held(peer[b][y]) \subseteq given'
      BY <1>1, <1>3, <2>1
    <3>. QED BY <2>1, <3>1 DEF Secured
  <2>2. CASE x # b
    <3>1. peer'[x][y] = peer[x][y] /\ y \in known'[x]
      BY <1>1, <1>3, <2>2 DEF AccountInv, BoxShape
    <3>. QED BY <3>1 DEF Secured
  <2>. QED BY <2>1, <2>2
<1>4. Accounted'
  BY <1>1, <1>3, AccountedKept
<1>. QED BY <1>1, <1>2, <1>4 DEF AccountInv

\* The invariant holds in every state of every behaviour.
LEMMA AccountInvariant == UdpSpec => []AccountInv
<1>1. UdpInit => AccountInv
  <2>. SUFFICES ASSUME UdpInit PROVE AccountInv
    OBVIOUS
  <2>1. BoxShape
    BY NewPeerInOrder, BoxAssumption DEF UdpInit, BoxShape
  <2>. QED BY <2>1 DEF UdpInit, AccountInv, Accounted
<1>2. AccountInv /\ [UdpNext]_uvars => AccountInv'
  <2>. SUFFICES ASSUME AccountInv, [UdpNext]_uvars PROVE AccountInv'
    OBVIOUS
  <2>1. CASE SendSome
    BY <2>1, SendAccounted DEF SendSome
  <2>2. CASE ReceiveSome
    <3>1. PICK d \in net : IF "ack" \in DOMAIN d THEN ReceiveAck(d.dst, d)
                           ELSE Receive(d.dst, d)
      BY <2>2 DEF ReceiveSome
    <3>2. CASE d \in Acks
      <4>1. "ack" \in DOMAIN d /\ d.dst \in Boxes
        BY <3>2 DEF Acks
      <4>. QED BY <3>1, <3>2, <4>1, AckAccounted
    <3>3. CASE d \in Messages
      <4>1. "ack" \notin DOMAIN d /\ d.dst \in Boxes
        BY <3>3 DEF Messages
      <4>. QED BY <3>1, <3>3, <4>1, ReceiveAccounted
    <3>. QED BY <3>2, <3>3 DEF AccountInv
  <2>3. ASSUME NEW b \in Boxes, IdleSome(b) PROVE AccountInv'
    BY <2>3, IdleAccounted DEF IdleSome
  <2>4. ASSUME NEW b \in Boxes, Restart(b) PROVE AccountInv'
    BY <2>4, RestartAccounted
  <2>5. CASE UNCHANGED uvars
    BY <2>5 DEF uvars, boxes, history, AccountInv, BoxShape, Accounted
  <2>. QED BY <2>1, <2>2, <2>3, <2>4, <2>5 DEF UdpNext
<1>. QED BY <1>1, <1>2, PTL DEF UdpSpec

\* Whatever the network does and whichever box is restarted, every reliable
\* message is waiting or queued at its peer, acknowledged or given up.
THEOREM NothingLostFromSight == UdpSpec => []Accounted
<1>1. AccountInv => Accounted
  BY DEF AccountInv
<1>. QED BY <1>1, AccountInvariant, PTL

-----------------------------------------------------------------------------
(* No message waits beyond its life, and no silent peer is kept.           *)

\* Peer p has time left: idle() has found neither its silence nor the wait of
\* its message too long.
InTime(p) == /\ p.silence < PeerTimeout
             /\ p.waiting # NoMessage => p.lifespan < ReliableTimeout

\* Every known peer has time left.
Timely == \A b \in Boxes : \A c \in known[b] : InTime(peer[b][c])

LEMMA NewPeerInTime == \A k : InTime(NewPeer(k))
BY TimeAssumption DEF InTime, NewPeer

\* A message begins to wait with its whole life before it.
LEMMA SendQueueInTime ==
  ASSUME NEW p \in PeerShape, InTime(p)
  PROVE  InTime(SendQueue(p).peer)
<1>1. CASE p.waiting # NoMessage \/ p.queue = <<>>
  <2>1. SendQueue(p) = [peer |-> p, out |-> {}]
    BY <1>1 DEF SendQueue
  <2>. QED BY <2>1
<1>2. CASE p.waiting = NoMessage /\ p.queue # <<>>
  <2>. DEFINE n    == Burst(p.queue)
              last == p.queue[n]
              rest == SubSeq(p.queue, n + 1, Len(p.queue))
              w    == IF last.reliable THEN last ELSE NoMessage
              t    == IF last.reliable THEN Resend ELSE 0
              e    == [p EXCEPT !.queue = rest, !.waiting = w, !.timeout = t, !.lifespan = 0]
  <2>1. SendQueue(p).peer = e
    BY <1>2 DEF SendQueue
  <2>. HIDE DEF rest, w, t
  <2>2. e.silence = p.silence /\ e.lifespan = 0
    BY DEF PeerShape
  <2>. HIDE DEF e
  <2>. QED BY <2>1, <2>2, TimeAssumption DEF InTime
<1>. QED BY <1>1, <1>2

\* What idle() keeps has time left.
LEMMA AgedInTime ==
  ASSUME NEW p \in PeerShape, NEW e \in Nat, ~Silent(p, e)
  PROVE  InTime(AgedPeer(p, e))
<1>. DEFINE w == IF Expired(p, e) THEN NoMessage ELSE p.waiting
            t == IF p.waiting = NoMessage \/ Expired(p, e) THEN 0
                 ELSE IF Due(p, e) THEN Resend ELSE p.timeout - e
            l == IF p.waiting = NoMessage \/ Expired(p, e) THEN 0 ELSE p.lifespan + e
            z == p.silence + e
            a == [p EXCEPT !.waiting = w, !.timeout = t, !.lifespan = l,
                           !.silence = z, !.fresh = FALSE]
<1>1. AgedPeer(p, e) = a
  BY DEF AgedPeer
<1>2. /\ w # NoMessage => l < ReliableTimeout
      /\ z < PeerTimeout
  BY TimeAssumption DEF Expired, Silent, PeerShape
<1>. HIDE DEF w, t, l, z
<1>3. a.waiting = w /\ a.lifespan = l /\ a.silence = z
  BY DEF PeerShape
<1>. HIDE DEF a
<1>. QED BY <1>1, <1>2, <1>3 DEF InTime

\* Every step leaves each box with peers that have time left.
LEMMA TimelyStep ==
  ASSUME AccountInv, Timely, UdpNext
  PROVE  Timely'
<1>0. peer \in [Boxes -> [Boxes -> PeerShape]] /\ known \in [Boxes -> SUBSET Boxes]
  BY DEF AccountInv, BoxShape
<1>1. ASSUME NEW b \in Boxes, NEW c \in Boxes, NEW reliable \in BOOLEAN,
             Send(b, c, reliable)
      PROVE  Timely'
  <2>. DEFINE m == [src |-> b, dst |-> c, serial |-> serial[b] + 1,
                    reliable |-> reliable, life |-> life[b]]
              p == IF c \in known[b] THEN peer[b][c] ELSE NewPeer(0)
              p1 == [p EXCEPT !.queue = Append(@, m)]
              r == SendQueue(p1)
  <2>1. /\ known' = [known EXCEPT ![b] = @ \cup {c}]
        /\ peer' = [peer EXCEPT ![b][c] = r.peer]
    BY <1>1 DEF Send
  <2>2. m \in Messages
    <3>1. serial[b] \in 0 .. MaxSerial /\ life[b] \in 1 .. MaxLives
      BY DEF AccountInv, BoxShape
    <3>2. serial[b] < Quota[b] /\ Quota[b] \in 0 .. MaxSerial
      BY <1>1, BoxAssumption DEF Send
    <3>3. serial[b] + 1 \in 1 .. MaxSerial
      BY <3>1, <3>2, BoxAssumption
    <3>. QED BY <3>1, <3>3 DEF Messages
  <2>. HIDE DEF m
  <2>3. p \in PeerShape /\ InTime(p)
    BY <1>0, NewPeerInOrder, NewPeerInTime DEF Timely
  <2>. HIDE DEF p
  <2>4. p1 \in PeerShape /\ p1.silence = p.silence /\ p1.waiting = p.waiting
        /\ p1.lifespan = p.lifespan
    BY <2>2, <2>3, AppendProperties DEF PeerShape
  <2>5. InTime(p1)
    BY <2>3, <2>4 DEF InTime
  <2>. HIDE DEF p1
  <2>6. InTime(r.peer)
    BY <2>4, <2>5, SendQueueInTime
  <2>. HIDE DEF r
  <2>7. ASSUME NEW x \in Boxes, NEW y \in known'[x] PROVE InTime(peer'[x][y])
    <3>1. CASE x = b /\ y = c
      BY <1>0, <2>1, <2>6, <3>1
    <3>2. CASE ~(x = b /\ y = c)
      BY <1>0, <2>1, <3>2 DEF Timely
    <3>. QED BY <3>1, <3>2
  <2>. QED BY <2>7 DEF Timely
<1>2. ASSUME NEW m \in net \cap Messages, NEW b \in Boxes, Receive(b, m)
      PROVE  Timely'
  <2>. DEFINE s == m.serial
              c == m.src
              p == IF c \in known[b] THEN peer[b][c] ELSE Newcomer(s)
              q == [p EXCEPT !.recv = IF s > @ THEN s ELSE @, !.silence = 0]
  <2>1. c \in Boxes /\ s \in Nat /\ s - 1 \in Nat
    BY BoxAssumption DEF Messages
  <2>2. p \in PeerShape /\ InTime(p)
    BY <1>0, <2>1, NewPeerInOrder, NewPeerInTime DEF Timely, Newcomer
  <2>3. \/ /\ known' = [known EXCEPT ![b] = @ \ {c}]
           /\ peer' = [peer EXCEPT ![b][c] = NewPeer(0)]
        \/ /\ known' = [known EXCEPT ![b] = @ \cup {c}]
           /\ peer' = [peer EXCEPT ![b][c] = q]
    BY <1>2 DEF Receive
  <2>. HIDE DEF p
  <2>4. InTime(q)
    <3>. DEFINE v == IF s > p.recv THEN s ELSE p.recv
                z == 0
    <3>1. q = [p EXCEPT !.recv = v, !.silence = z]
      OBVIOUS
    <3>2. z < PeerTimeout
      BY TimeAssumption
    <3>. HIDE DEF q, v, z
    <3>3. q.silence = z /\ q.waiting = p.waiting /\ q.lifespan = p.lifespan
      BY <2>2, <3>1 DEF PeerShape
    <3>. QED BY <2>2, <3>2, <3>3 DEF InTime
  <2>. HIDE DEF q
  <2>5. ASSUME NEW x \in Boxes, NEW y \in known'[x] PROVE InTime(peer'[x][y])
    <3>1. CASE x = b /\ y = c
      BY <1>0, <2>1, <2>3, <2>4, <3>1
    <3>2. CASE ~(x = b /\ y = c)
      <4>1. y \in known[x] /\ peer'[x][y] = peer[x][y]
        BY <1>0, <2>1, <2>3, <3>2
      <4>. QED BY <4>1 DEF Timely
    <3>. QED BY <3>1, <3>2
  <2>. QED BY <2>5 DEF Timely
<1>3. ASSUME NEW a \in net \cap Acks, NEW b \in Boxes, ReceiveAck(b, a)
      PROVE  Timely'
  <2>. DEFINE here == {c \in known[b] : /\ peer[b][c].waiting # NoMessage
                                       /\ peer[b][c].waiting.serial = a.ack}
              next(c) == SendQueue(Cleared(peer[b][c]))
  <2>1. peer' = [peer EXCEPT ![b] = [c \in Boxes |-> IF c \in here THEN next(c).peer ELSE @[c]]]
        /\ UNCHANGED known
    BY <1>3 DEF ReceiveAck, Cleared
  <2>2. ASSUME NEW c \in Boxes PROVE InTime(next(c).peer)
    <3>1. /\ Cleared(peer[b][c]) \in PeerShape /\ Cleared(peer[b][c]).waiting = NoMessage
      BY <1>0, ClearedShape
    <3>2. Cleared(peer[b][c]).silence = 0
      BY <1>0 DEF Cleared, PeerShape
    <3>. QED BY <3>1, <3>2, SendQueueInTime, TimeAssumption DEF InTime
  <2>. HIDE DEF here, next
  <2>3. \A x \in Boxes : \A y \in known[x] :
          peer'[x][y] = IF x = b /\ y \in here THEN next(y).peer ELSE peer[x][y]
    BY <1>0, <2>1
  <2>. QED BY <1>0, <2>1, <2>2, <2>3 DEF Timely
<1>4. ASSUME NEW b \in Boxes, NEW e \in Elapses, Idle(b, e)
      PROVE  Timely'
  <2>. DEFINE elapsed(c) == IF peer[b][c].fresh THEN 0 ELSE e
              gone       == {c \in known[b] : Silent(peer[b][c], elapsed(c))}
              aged(c)    == AgedPeer(peer[b][c], elapsed(c))
  <2>1. /\ known' = [known EXCEPT ![b] = @ \ gone]
        /\ peer' = [peer EXCEPT ![b] = [c \in Boxes |->
                      IF c \in known[b] \ gone THEN aged(c) ELSE NewPeer(0)]]
    BY <1>4 DEF Idle
  <2>2. ASSUME NEW c \in known[b] \ gone PROVE InTime(aged(c))
    <3>1. peer[b][c] \in PeerShape /\ elapsed(c) \in Nat /\ ~Silent(peer[b][c], elapsed(c))
      BY <1>0, TimeAssumption
    <3>. HIDE DEF elapsed
    <3>. QED BY <3>1, AgedInTime
  <2>. HIDE DEF gone, aged
  <2>3. ASSUME NEW x \in Boxes, NEW y \in known'[x] PROVE InTime(peer'[x][y])
    <3>1. CASE x = b
      <4>1. y \in known[b] \ gone /\ y \in Boxes
        BY <1>0, <2>1, <3>1
      <4>2. peer'[x][y] = aged(y)
        BY <1>0, <2>1, <3>1, <4>1
      <4>. QED BY <2>2, <4>1, <4>2
    <3>2. CASE x # b
      BY <1>0, <2>1, <3>2 DEF Timely
    <3>. QED BY <3>1, <3>2
  <2>. QED BY <2>3 DEF Timely
<1>5. ASSUME NEW b \in Boxes, Restart(b) PROVE Timely'
  <2>1. known' = [known EXCEPT ![b] = {}]
        /\ peer' = [peer EXCEPT ![b] = [c \in Boxes |-> NewPeer(0)]]
    BY <1>5 DEF Restart
  <2>. QED BY <1>0, <2>1 DEF Timely
<1>6. ASSUME ReceiveSome PROVE Timely'
  <2>1. PICK d \in net : IF "ack" \in DOMAIN d THEN ReceiveAck(d.dst, d)
                         ELSE Receive(d.dst, d)
    BY <1>6 DEF ReceiveSome
  <2>2. CASE d \in Acks
    <3>1. "ack" \in DOMAIN d /\ d.dst \in Boxes
      BY <2>2 DEF Acks
    <3>. QED BY <1>3, <2>1, <2>2, <3>1
  <2>3. CASE d \in Messages
    <3>1. "ack" \notin DOMAIN d /\ d.dst \in Boxes
      BY <2>3 DEF Messages
    <3>. QED BY <1>2, <2>1, <2>3, <3>1
  <2>. QED BY <2>2, <2>3 DEF AccountInv
<1>. QED BY <1>1, <1>4, <1>5, <1>6 DEF UdpNext, SendSome, IdleSome

\* No message waits for its acknowledgement longer than its life, and no peer
\* is kept that has been silent too long: what settles a message in the end.
THEOREM NobodyWaitsTooLong == UdpSpec => []Timely
<1>1. UdpInit => Timely
  BY Zenon DEF UdpInit, Timely
<1>2. AccountInv /\ Timely /\ [UdpNext]_uvars => Timely'
  <2>1. AccountInv /\ Timely /\ UNCHANGED uvars => Timely'
    BY DEF uvars, boxes, Timely, InTime
  <2>. QED BY <2>1, TimelyStep
<1>. QED BY <1>1, <1>2, AccountInvariant, PTL DEF UdpSpec

-----------------------------------------------------------------------------
(* What a box remembers it neither gives twice nor out of order.           *)

\* No box forgets a peer whose messages it has given to its listeners.
Remembers == \A m \in delivered : m.src \in known'[m.dst]

\* What was delivered is not above the last serial number heard of its sender.
HeardUpTo ==
  /\ delivered \subseteq Messages
  /\ \A m \in delivered : m.src \in known[m.dst] /\ m.serial <= peer[m.dst][m.src].recv

\* What is delivered is younger than all that was, of the same sender.
Younger ==
  \A m \in delivered' \ delivered : \A n \in delivered :
    n.src = m.src /\ n.dst = m.dst => n.serial < m.serial

\* The last serial number heard of a peer never goes back while it is known.
LEMMA RecvAdvances ==
  ASSUME AccountInv, UdpNext, NEW x \in Boxes, NEW y \in known[x] \cap known'[x]
  PROVE  peer'[x][y].recv >= peer[x][y].recv
<1>0. /\ peer \in [Boxes -> [Boxes -> PeerShape]] /\ known \in [Boxes -> SUBSET Boxes]
      /\ y \in Boxes /\ peer[x][y] \in PeerShape /\ peer[x][y].recv \in Nat
  BY DEF AccountInv, BoxShape, PeerShape
<1>1. ASSUME NEW b \in Boxes, NEW c \in Boxes, NEW reliable \in BOOLEAN,
             Send(b, c, reliable)
      PROVE  peer'[x][y].recv >= peer[x][y].recv
  <2>. DEFINE m == [src |-> b, dst |-> c, serial |-> serial[b] + 1,
                    reliable |-> reliable, life |-> life[b]]
              p == IF c \in known[b] THEN peer[b][c] ELSE NewPeer(0)
              p1 == [p EXCEPT !.queue = Append(@, m)]
              r == SendQueue(p1)
  <2>1. peer' = [peer EXCEPT ![b][c] = r.peer]
    BY <1>1 DEF Send
  <2>2. m \in Messages
    <3>1. serial[b] \in 0 .. MaxSerial /\ life[b] \in 1 .. MaxLives
      BY DEF AccountInv, BoxShape
    <3>2. serial[b] < Quota[b] /\ Quota[b] \in 0 .. MaxSerial
      BY <1>1, BoxAssumption DEF Send
    <3>3. serial[b] + 1 \in 1 .. MaxSerial
      BY <3>1, <3>2, BoxAssumption
    <3>. QED BY <3>1, <3>3 DEF Messages
  <2>. HIDE DEF m
  <2>3. p \in PeerShape /\ (c \in known[b] => p = peer[b][c])
    BY <1>0, NewPeerInOrder
  <2>. HIDE DEF p
  <2>4. p1 \in PeerShape /\ p1.recv = p.recv
    BY <2>2, <2>3, AppendProperties DEF PeerShape
  <2>. HIDE DEF p1
  <2>5. r.peer.recv = p.recv
    BY <2>4, SendQueueHolds
  <2>. HIDE DEF r
  <2>6. CASE x = b /\ y = c
    BY <1>0, <2>1, <2>3, <2>5, <2>6
  <2>7. CASE ~(x = b /\ y = c)
    BY <1>0, <2>1, <2>7
  <2>. QED BY <2>6, <2>7
<1>2. ASSUME NEW m \in net \cap Messages, NEW b \in Boxes, Receive(b, m)
      PROVE  peer'[x][y].recv >= peer[x][y].recv
  <2>. DEFINE s == m.serial
              c == m.src
              p == IF c \in known[b] THEN peer[b][c] ELSE Newcomer(s)
              v == IF s > p.recv THEN s ELSE p.recv
              z == 0
              q == [p EXCEPT !.recv = v, !.silence = z]
  <2>1. c \in Boxes /\ s \in Nat
    BY BoxAssumption DEF Messages
  <2>2. \/ known' = [known EXCEPT ![b] = @ \ {c}] /\ peer' = [peer EXCEPT ![b][c] = NewPeer(0)]
        \/ peer' = [peer EXCEPT ![b][c] = q]
    BY <1>2 DEF Receive
  <2>3. c \in known[b] => p = peer[b][c]
    OBVIOUS
  <2>4. CASE x = b /\ y = c
    <3>1. peer'[x][y] = q /\ p = peer[x][y]
      <4>. HIDE DEF p, q
      <4>. QED BY <1>0, <2>1, <2>2, <2>3, <2>4
    <3>2. p \in PeerShape /\ p.recv \in Nat
      BY <1>0, <3>1
    <3>3. v >= p.recv
      <4>. HIDE DEF p
      <4>. QED BY <2>1, <3>2
    <3>. HIDE DEF v, p, z
    <3>4. q.recv = v
      BY <3>2 DEF PeerShape
    <3>. QED BY <3>1, <3>3, <3>4
  <2>5. CASE ~(x = b /\ y = c)
    <3>. HIDE DEF q
    <3>. QED BY <1>0, <2>2, <2>5
  <2>. QED BY <2>4, <2>5
<1>3. ASSUME NEW a \in net \cap Acks, NEW b \in Boxes, ReceiveAck(b, a)
      PROVE  peer'[x][y].recv >= peer[x][y].recv
  <2>. DEFINE here == {c \in known[b] : /\ peer[b][c].waiting # NoMessage
                                       /\ peer[b][c].waiting.serial = a.ack}
              next(c) == SendQueue(Cleared(peer[b][c]))
  <2>1. peer' = [peer EXCEPT ![b] = [c \in Boxes |-> IF c \in here THEN next(c).peer ELSE @[c]]]
    BY <1>3 DEF ReceiveAck, Cleared
  <2>2. next(y).peer.recv = peer[b][y].recv
    BY <1>0, ClearedShape, SendQueueHolds
  <2>. HIDE DEF here, next
  <2>3. peer'[x][y] = IF x = b /\ y \in here THEN next(y).peer ELSE peer[x][y]
    BY <1>0, <2>1
  <2>. QED BY <1>0, <2>2, <2>3
<1>4. ASSUME NEW b \in Boxes, NEW e \in Elapses, Idle(b, e)
      PROVE  peer'[x][y].recv >= peer[x][y].recv
  <2>. DEFINE elapsed(c) == IF peer[b][c].fresh THEN 0 ELSE e
              gone       == {c \in known[b] : Silent(peer[b][c], elapsed(c))}
              aged(c)    == AgedPeer(peer[b][c], elapsed(c))
  <2>1. /\ known' = [known EXCEPT ![b] = @ \ gone]
        /\ peer' = [peer EXCEPT ![b] = [c \in Boxes |->
                      IF c \in known[b] \ gone THEN aged(c) ELSE NewPeer(0)]]
    BY <1>4 DEF Idle
  <2>2. aged(y).recv = peer[b][y].recv
    <3>1. peer[b][y] \in PeerShape /\ elapsed(y) \in Nat
      BY <1>0, TimeAssumption
    <3>. HIDE DEF elapsed
    <3>. QED BY <3>1, AgedPeerShape
  <2>. HIDE DEF gone, aged
  <2>3. CASE x = b
    <3>1. y \in known[b] \ gone
      BY <1>0, <2>1, <2>3
    <3>2. peer'[x][y] = aged(y)
      BY <1>0, <2>1, <2>3, <3>1
    <3>. QED BY <1>0, <2>2, <2>3, <3>2
  <2>4. CASE x # b
    BY <1>0, <2>1, <2>4
  <2>. QED BY <2>3, <2>4
<1>5. ASSUME NEW b \in Boxes, Restart(b)
      PROVE  peer'[x][y].recv >= peer[x][y].recv
  <2>1. known' = [known EXCEPT ![b] = {}]
        /\ peer' = [peer EXCEPT ![b] = [c \in Boxes |-> NewPeer(0)]]
    BY <1>5 DEF Restart
  <2>. QED BY <1>0, <2>1
<1>6. ASSUME ReceiveSome PROVE peer'[x][y].recv >= peer[x][y].recv
  <2>1. PICK d \in net : IF "ack" \in DOMAIN d THEN ReceiveAck(d.dst, d)
                         ELSE Receive(d.dst, d)
    BY <1>6 DEF ReceiveSome
  <2>2. CASE d \in Acks
    <3>1. "ack" \in DOMAIN d /\ d.dst \in Boxes
      BY <2>2 DEF Acks
    <3>. QED BY <1>3, <2>1, <2>2, <3>1
  <2>3. CASE d \in Messages
    <3>1. "ack" \notin DOMAIN d /\ d.dst \in Boxes
      BY <2>3 DEF Messages
    <3>. QED BY <1>2, <2>1, <2>3, <3>1
  <2>. QED BY <2>2, <2>3 DEF AccountInv
<1>. QED BY <1>1, <1>4, <1>5, <1>6 DEF UdpNext, SendSome, IdleSome

\* A message that is delivered is above all that was heard of its sender, and
\* becomes the last of it.
LEMMA DeliveryIsNews ==
  ASSUME AccountInv, UdpNext
  PROVE  \/ delivered' = delivered /\ again' = again
         \/ \E m \in Messages :
              /\ delivered' = delivered \cup {m}
              /\ again' = IF m \in delivered THEN again \cup {m} ELSE again
              /\ m.src \in known'[m.dst] /\ m.serial <= peer'[m.dst][m.src].recv
              /\ m.src \in known[m.dst] => m.serial > peer[m.dst][m.src].recv
<1>1. CASE ~ReceiveSome
  BY <1>1, Zenon DEF UdpNext, SendSome, IdleSome, Send, Idle, Restart
<1>2. CASE ReceiveSome
  <2>1. PICK d \in net : IF "ack" \in DOMAIN d THEN ReceiveAck(d.dst, d)
                         ELSE Receive(d.dst, d)
    BY <1>2 DEF ReceiveSome
  <2>2. CASE d \in Acks
    <3>1. "ack" \in DOMAIN d
      BY <2>2 DEF Acks
    <3>. QED BY <2>1, <3>1 DEF ReceiveAck
  <2>3. CASE d \in Messages
    <3>. DEFINE s == d.serial
                c == d.src
                b == d.dst
                p == IF c \in known[b] THEN peer[b][c] ELSE Newcomer(s)
                v == IF s > p.recv THEN s ELSE p.recv
                z == 0
                q == [p EXCEPT !.recv = v, !.silence = z]
    <3>1. "ack" \notin DOMAIN d /\ b \in Boxes /\ c \in Boxes /\ s \in Nat /\ s - 1 \in Nat
      BY <2>3, BoxAssumption DEF Messages
    <3>2. Receive(b, d)
      BY <2>1, <3>1
    <3>3. CASE Reset(p, s) \/ ~(s > p.recv)
      BY <3>2, <3>3 DEF Receive
    <3>4. CASE ~Reset(p, s) /\ s > p.recv
      <4>1. /\ known' = [known EXCEPT ![b] = @ \cup {c}]
            /\ peer' = [peer EXCEPT ![b][c] = q]
            /\ delivered' = delivered \cup {d}
            /\ again' = IF d \in delivered THEN again \cup {d} ELSE again
        BY <3>2, <3>4 DEF Receive
      <4>2. p \in PeerShape /\ (c \in known[b] => p = peer[b][c])
        BY <3>1, NewPeerInOrder DEF AccountInv, BoxShape, Newcomer
      <4>3. v = s
        BY <3>4
      <4>. HIDE DEF p, v, z
      <4>4. q.recv = s
        BY <4>2, <4>3 DEF PeerShape
      <4>. HIDE DEF q
      <4>5. c \in known'[b] /\ peer'[b][c].recv = s
        BY <3>1, <4>1, <4>4 DEF AccountInv, BoxShape
      <4>6. c \in known[b] => s > peer[b][c].recv
        BY <3>4, <4>2
      <4>7. c \in known'[b] /\ d.serial <= peer'[b][c].recv
        BY <3>1, <4>5
      <4>. QED BY <2>3, <4>1, <4>6, <4>7
    <3>. QED BY <3>3, <3>4
  <2>. QED BY <2>2, <2>3 DEF AccountInv
<1>. QED BY <1>1, <1>2

\* While boxes remember, what is delivered is new and younger than the rest.
LEMMA RememberedStep ==
  ASSUME AccountInv, AccountInv', HeardUpTo, AtMostOnce, UdpNext, Remembers
  PROVE  HeardUpTo' /\ AtMostOnce' /\ Younger
<1>1. ASSUME NEW n \in delivered
      PROVE  /\ n \in Messages /\ n.src \in known'[n.dst]
             /\ n.serial <= peer[n.dst][n.src].recv
             /\ n.serial <= peer'[n.dst][n.src].recv
  <2>1. /\ n.dst \in Boxes /\ n.src \in known[n.dst] \cap known'[n.dst]
        /\ n.serial \in Nat /\ n.src \in Boxes
        /\ n.serial <= peer[n.dst][n.src].recv
    BY BoxAssumption DEF HeardUpTo, Remembers, Messages
  <2>2. peer'[n.dst][n.src].recv >= peer[n.dst][n.src].recv
    BY <2>1, RecvAdvances
  <2>3. peer'[n.dst][n.src].recv \in Nat /\ peer[n.dst][n.src].recv \in Nat
    BY <2>1 DEF AccountInv, BoxShape, PeerShape
  <2>. QED BY <2>1, <2>2, <2>3 DEF HeardUpTo
<1>2. CASE delivered' = delivered /\ again' = again
  BY <1>1, <1>2 DEF HeardUpTo, AtMostOnce, Younger
<1>3. ASSUME NEW m \in Messages,
             /\ delivered' = delivered \cup {m}
             /\ again' = IF m \in delivered THEN again \cup {m} ELSE again
             /\ m.src \in known'[m.dst] /\ m.serial <= peer'[m.dst][m.src].recv
             /\ m.src \in known[m.dst] => m.serial > peer[m.dst][m.src].recv
      PROVE  HeardUpTo' /\ AtMostOnce' /\ Younger
  <2>1. HeardUpTo'
    BY <1>1, <1>3 DEF HeardUpTo
  <2>2. ASSUME NEW n \in delivered, n.src = m.src, n.dst = m.dst
        PROVE  n.serial < m.serial
    <3>1. n.src \in known[n.dst] /\ n.serial <= peer[n.dst][n.src].recv
      BY DEF HeardUpTo
    <3>2. m.serial > peer[n.dst][n.src].recv
      BY <1>3, <2>2, <3>1
    <3>3. n.serial \in Int /\ m.serial \in Int /\ peer[n.dst][n.src].recv \in Int
      <4>1. n \in Messages /\ n.src \in Boxes /\ n.dst \in Boxes
        BY DEF HeardUpTo, Messages
      <4>2. n.serial \in Int /\ m.serial \in Int
        BY <4>1, BoxAssumption DEF Messages
      <4>3. peer[n.dst][n.src] \in PeerShape
        BY <4>1 DEF AccountInv, BoxShape
      <4>. QED BY <4>2, <4>3 DEF PeerShape
    <3>. QED BY <3>1, <3>2, <3>3
  <2>3. m \notin delivered
    <3>1. m.serial \in Int
      BY BoxAssumption DEF Messages
    <3>. QED BY <2>2, <3>1
  <2>. QED BY <1>3, <2>1, <2>2, <2>3 DEF AtMostOnce, Younger
<1>. QED BY <1>2, <1>3, DeliveryIsNews

\* While no box forgets a peer it was given messages of, no message is given
\* twice to the listeners, whatever the network repeats: duplicates are the work
\* of a peer forgotten for its silence, its reset or a restart.
THEOREM DeliveredOnce == UdpSpec /\ [][Remembers]_uvars => []AtMostOnce
<1>1. UdpInit => HeardUpTo /\ AtMostOnce
  BY DEF UdpInit, HeardUpTo, AtMostOnce
<1>2. /\ AccountInv /\ AccountInv' /\ HeardUpTo /\ AtMostOnce
      /\ [UdpNext]_uvars /\ [Remembers]_uvars
      => HeardUpTo' /\ AtMostOnce'
  <2>1. HeardUpTo /\ AtMostOnce /\ UNCHANGED uvars => HeardUpTo' /\ AtMostOnce'
    BY DEF uvars, boxes, history, HeardUpTo, AtMostOnce
  <2>. QED BY <2>1, RememberedStep
<1>. QED BY <1>1, <1>2, AccountInvariant, PTL DEF UdpSpec

\* Under the same condition the messages of a box reach the listeners of another
\* in the order of their serial numbers, with gaps: that of their creation, but
\* for what a restarted sender had left on the network.
THEOREM DeliveredInOrder == UdpSpec /\ [][Remembers]_uvars => [][Younger]_uvars
<1>1. UdpInit => HeardUpTo /\ AtMostOnce
  BY DEF UdpInit, HeardUpTo, AtMostOnce
<1>2. /\ AccountInv /\ AccountInv' /\ HeardUpTo /\ AtMostOnce
      /\ [UdpNext]_uvars /\ [Remembers]_uvars
      => HeardUpTo' /\ AtMostOnce' /\ [Younger]_uvars
  <2>1. HeardUpTo /\ AtMostOnce /\ UNCHANGED uvars
        => HeardUpTo' /\ AtMostOnce' /\ [Younger]_uvars
    BY DEF uvars, boxes, history, HeardUpTo, AtMostOnce
  <2>. QED BY <2>1, RememberedStep
<1>. QED BY <1>1, <1>2, AccountInvariant, PTL DEF UdpSpec
=============================================================================
