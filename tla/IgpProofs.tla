------------------------------- MODULE IgpProofs -------------------------------
(***************************************************************************)
(* The numbers of the IGP protocol and the pending pings of a client,      *)
(* proved for any clients, services, numbers, transactions and bounds.     *)
(*                                                                         *)
(* Uniqueness needs that a number given on demand is always behind the     *)
(* next one, and one that was asked for before the first of them.          *)
(* Ownership needs what was told as well as what is in the table: a number *)
(* that was given is held by one, who has it or was told it.  What the     *)
(* clients say, once or again, does not matter.                            *)
(* The list of the pings is exact because a ping that waits still points   *)
(* to its client; a ping ends because it only grows older and every scan   *)
(* comes to the first one that is past its timeout.                        *)
(***************************************************************************)
EXTENDS IgpSession, IgpPing, SequenceTheorems, TLAPS

Everyone == Hosts \cup Services
Peer     == [who : Everyone, id : Int]
DownMsg  == {Mail} \cup {Inform(i) : i \in Int}
Asking   == {Nothing, AutoId} \cup {Assign(i) : i \in Chosen}
Session  == [asked : Asking, enabled : BOOLEAN, ident : Int]

\* In table t, p is known by the number i.
Has(t, p, i) == i # None /\ \E k \in DOMAIN t : t[k].who = p /\ t[k].id = i

OnePlace(t)  == \A j, k \in DOMAIN t : t[j].who = t[k].who => j = k
OneNumber(t) == \A j, k \in DOMAIN t : t[j].id = t[k].id /\ t[j].id # None => j = k

\* Numbers that were asked for lie before those that were given.
Ranged(t, next) ==
  \A k \in DOMAIN t : t[k].id = None \/ t[k].id \in 1 .. FirstAuto - 1
                                     \/ t[k].id \in FirstAuto .. next - 1

Table(t, next) == t \in Seq(Peer) /\ OnePlace(t) /\ OneNumber(t) /\ Ranged(t, next)

TypeInv ==
  /\ nextAuto \in Nat /\ nextAuto >= FirstAuto
  /\ down \in [Hosts -> Seq(DownMsg)]
  /\ client \in [Hosts -> Session]
  /\ told \in [Hosts -> SUBSET Int]

\* What c believes its number to be, and what is on its way to it, it was told.
Heard(c) ==
  /\ \A j \in DOMAIN down[c] : down[c][j].kind = "inform" => down[c][j].id \in told[c]
  /\ client[c].enabled => client[c].ident \in told[c]

Holds(p, n) == Has(peers, p, n) \/ (p \in Hosts /\ n \in told[p])

\* A number that was given has one holder, and the next one has none.
Owned ==
  \A n \in Int : \A p \in Everyone : n >= FirstAuto /\ Holds(p, n) =>
    n < nextAuto /\ \A q \in Everyone : Holds(q, n) => q = p

IgpInv ==
  /\ TypeInv
  /\ Table(peers, nextAuto)
  /\ \A c \in Hosts : Heard(c)
  /\ Owned

-----------------------------------------------------------------------------
(* The operations of the table.                                            *)

\* A peer has one place, which FindPeer returns.
LEMMA FoundPlace ==
  ASSUME OnePlace(peers), peers \in Seq(Peer), NEW c
  PROVE  /\ FindPeer(c) = Nobody => \A k \in DOMAIN peers : peers[k].who # c
         /\ FindPeer(c) # Nobody => FindPeer(c) \in DOMAIN peers /\ peers[FindPeer(c)].who = c
         /\ \A k \in DOMAIN peers : peers[k].who = c => FindPeer(c) = k
<1> DEFINE at == {k \in DOMAIN peers : peers[k].who = c}
<1>1. CASE at = {}
  BY <1>1 DEF FindPeer, First
<1>2. ASSUME NEW k \in at PROVE FindPeer(c) = k
  <2>1. at = {k}
    BY <1>2 DEF OnePlace
  <2>2. k \in Nat /\ k # Nobody
    BY <1>2 DEF Nobody
  <2>3. (CHOOSE x \in at : \A y \in at : x <= y) = k
    BY <2>1, <2>2
  <2> QED  BY <1>2, <2>3 DEF FindPeer, First
<1>3. \A k \in at : k # Nobody
  BY DEF Nobody
<1> QED  BY <1>1, <1>2, <1>3

\* The table in which c has its place.
LEMMA KnownTable ==
  ASSUME NEW next \in Nat, Table(peers, next), NEW c \in Hosts
  PROVE  /\ Table(Known(c), next)
         /\ Place(c) \in DOMAIN Known(c) /\ Known(c)[Place(c)].who = c
         /\ \A p, i : Has(Known(c), p, i) => Has(peers, p, i)
<1>1. CASE FindPeer(c) # Nobody
  BY <1>1, FoundPlace DEF Known, Place, Table
<1>2. CASE FindPeer(c) = Nobody
  <2> DEFINE new == [who |-> c, id |-> None]
             t   == Append(peers, new)
  <2>1. new \in Peer /\ Known(c) = t /\ Place(c) = Len(peers) + 1
    BY <1>2 DEF Known, Place, Peer, Everyone, None
  <2>2. /\ t \in Seq(Peer) /\ DOMAIN t = 1 .. Len(peers) + 1 /\ DOMAIN peers = 1 .. Len(peers)
        /\ Len(peers) \in Nat
        /\ t[Len(peers) + 1] = new /\ \A k \in DOMAIN peers : t[k] = peers[k]
    BY <2>1 DEF Table
  <2>3. \A k \in DOMAIN peers : peers[k].who # c
    BY <1>2, FoundPlace DEF Table
  <2> HIDE DEF t
  <2>4. OnePlace(t)
    BY <2>2, <2>3 DEF Table, OnePlace
  <2>5. OneNumber(t) /\ Ranged(t, next)
    BY <2>2 DEF Table, OneNumber, Ranged
  <2>6. ASSUME NEW p, NEW i, Has(t, p, i) PROVE Has(peers, p, i)
    BY <2>2, <2>6 DEF Has
  <2> QED  BY <2>1, <2>2, <2>4, <2>5, <2>6 DEF Table
<1> QED  BY <1>1, <1>2

\* A number that nobody has, in its range, is given to the peer at k.
LEMMA NumberedTable ==
  ASSUME NEW t, NEW next \in Nat, NEW after \in Nat, after >= next, Table(t, next),
         NEW k \in DOMAIN t, NEW i \in Int, \A j \in DOMAIN t : t[j].id # i,
         i \in 1 .. FirstAuto - 1 \/ i \in FirstAuto .. after - 1
  PROVE  /\ Table(Numbered(t, k, i), after)
         /\ \A p, n : Has(Numbered(t, k, i), p, n) =>
                        IF p = t[k].who THEN n = i ELSE Has(t, p, n)
<1> DEFINE u == Numbered(t, k, i)
<1>1. /\ u \in Seq(Peer) /\ DOMAIN u = DOMAIN t
      /\ \A j \in DOMAIN t : u[j] = IF j = k THEN [who |-> t[k].who, id |-> i] ELSE t[j]
  <2> DEFINE e == [who |-> t[k].who, id |-> i]
  <2>1. t \in Seq(Peer) /\ k \in 1 .. Len(t) /\ DOMAIN t = 1 .. Len(t) /\ t[k] \in Peer
    BY DEF Table
  <2>2. e \in Peer
    BY <2>1 DEF Peer
  <2>3. u = [t EXCEPT ![k] = e]
    BY <2>1 DEF Numbered
  <2> HIDE DEF e
  <2>4. u \in Seq(Peer) /\ Len(u) = Len(t) /\ \A j \in 1 .. Len(t) : u[j] = IF j = k THEN e ELSE t[j]
    <3> HIDE DEF u
    <3> QED  BY <2>1, <2>2, <2>3, ExceptSeq
  <2> HIDE DEF u
  <2> QED  BY <2>1, <2>4 DEF e
<1> HIDE DEF u
<1>2. OnePlace(u) /\ OneNumber(u)
  BY <1>1 DEF Table, OnePlace, OneNumber
<1>3. Ranged(u, after)
  BY <1>1, IgpAssumption DEF Table, Ranged
<1>4. ASSUME NEW p, NEW n, Has(u, p, n)
      PROVE  IF p = t[k].who THEN n = i ELSE Has(t, p, n)
  BY <1>1, <1>4 DEF Table, Has, OnePlace
<1> QED  BY <1>1, <1>2, <1>3, <1>4 DEF Table, u

\* A peer that is removed takes its number with it.
LEMMA WithoutTable ==
  ASSUME NEW t, NEW next \in Nat, Table(t, next), NEW k \in DOMAIN t
  PROVE  /\ Table(Without(t, k), next)
         /\ \A p, n : Has(Without(t, k), p, n) => Has(t, p, n) /\ p # t[k].who
<1> DEFINE u == Without(t, k)
<1>1. /\ u \in Seq(Peer) /\ DOMAIN u = 1 .. Len(t) - 1 /\ DOMAIN t = 1 .. Len(t)
      /\ Len(t) \in Nat
      /\ \A j \in 1 .. Len(t) - 1 : u[j] = IF j = k THEN t[Len(t)] ELSE t[j]
  <2> DEFINE e == [t EXCEPT ![k] = t[Len(t)]]
  <2>1. t \in Seq(Peer) /\ k \in 1 .. Len(t) /\ DOMAIN t = 1 .. Len(t) /\ Len(t) \in Nat
        /\ t[Len(t)] \in Peer
    BY DEF Table
  <2>2. /\ e \in Seq(Peer) /\ Len(e) = Len(t)
        /\ \A j \in 1 .. Len(t) : e[j] = IF j = k THEN t[Len(t)] ELSE t[j]
    BY <2>1, ExceptSeq
  <2> HIDE DEF e
  <2>3. /\ SubSeq(e, 1, Len(t) - 1) \in Seq(Peer)
        /\ Len(SubSeq(e, 1, Len(t) - 1)) = Len(t) - 1
        /\ \A j \in 1 .. Len(t) - 1 : SubSeq(e, 1, Len(t) - 1)[j] = e[j]
    BY <2>1, <2>2
  <2>4. u = SubSeq(e, 1, Len(t) - 1)
    BY DEF Without, e
  <2> HIDE DEF u
  <2> QED  BY <2>1, <2>2, <2>3, <2>4
<1> HIDE DEF u
<1>2. OnePlace(u)
  BY <1>1 DEF Table, OnePlace
<1>4. OneNumber(u)
  BY <1>1 DEF Table, OneNumber
<1>5. Ranged(u, next)
  BY <1>1 DEF Table, Ranged
<1>3. ASSUME NEW p, NEW n, Has(u, p, n) PROVE Has(t, p, n) /\ p # t[k].who
  <2>1. PICK j \in DOMAIN u : u[j].who = p /\ u[j].id = n
    BY <1>3 DEF Has
  <2>2. CASE j = k
    BY <1>1, <1>3, <2>1, <2>2 DEF Has, Table, OnePlace
  <2>3. CASE j # k
    BY <1>1, <1>3, <2>1, <2>3 DEF Has, Table, OnePlace
  <2> QED  BY <2>2, <2>3
<1> QED  BY <1>1, <1>2, <1>3, <1>4, <1>5 DEF Table, u

\* A service takes the place behind the others, with a number nobody has.
LEMMA RegisteredTable ==
  ASSUME NEW next \in Nat, NEW after \in Nat, after >= next, Table(peers, next),
         NEW s \in Services, FindPeer(s) = Nobody, NEW i \in Int,
         \A j \in DOMAIN peers : peers[j].id # i,
         i \in 1 .. FirstAuto - 1 \/ i \in FirstAuto .. after - 1
  PROVE  /\ Table(Append(peers, [who |-> s, id |-> i]), after)
         /\ \A p, n : Has(Append(peers, [who |-> s, id |-> i]), p, n) =>
                        Has(peers, p, n) \/ (p = s /\ n = i)
<1> DEFINE new == [who |-> s, id |-> i]
           t   == Append(peers, new)
<1>1. /\ t \in Seq(Peer) /\ DOMAIN t = 1 .. Len(peers) + 1 /\ DOMAIN peers = 1 .. Len(peers)
      /\ Len(peers) \in Nat
      /\ t[Len(peers) + 1] = new /\ \A k \in DOMAIN peers : t[k] = peers[k]
  <2>1. new \in Peer
    BY DEF Peer, Everyone
  <2> HIDE DEF new
  <2> QED  BY <2>1 DEF Table
<1>2. \A k \in DOMAIN peers : peers[k].who # s
  BY FoundPlace DEF Table
<1> HIDE DEF t
<1>3. OnePlace(t)
  BY <1>1, <1>2 DEF Table, OnePlace
<1>4. OneNumber(t)
  BY <1>1 DEF Table, OneNumber
<1>5. Ranged(t, after)
  BY <1>1, IgpAssumption DEF Table, Ranged
<1>6. ASSUME NEW p, NEW n, Has(t, p, n) PROVE Has(peers, p, n) \/ (p = s /\ n = i)
  BY <1>1, <1>6 DEF Has
<1> QED  BY <1>1, <1>3, <1>4, <1>5, <1>6 DEF Table, t

\* A number not yet given, and one that is valid and unique, are nobody's.
LEMMA NextFree ==
  ASSUME NEW t, Table(t, nextAuto), nextAuto \in Nat, nextAuto >= FirstAuto
  PROVE  \A j \in DOMAIN t : t[j].id # nextAuto
  BY IgpAssumption DEF Table, Ranged, None

-----------------------------------------------------------------------------
(* The steps.                                                              *)

\* The next number may get its holder, c; nobody else gets one that was given.
LEMMA OwnedKept ==
  ASSUME TypeInv, Owned, nextAuto' \in Nat, nextAuto' >= nextAuto, NEW c,
         \A p \in Everyone, n \in Int : n >= FirstAuto /\ Holds(p, n)' =>
            Holds(p, n) \/ (p = c /\ n = nextAuto /\ nextAuto' > nextAuto)
  PROVE  Owned'
<1> SUFFICES ASSUME NEW n \in Int, NEW p \in Everyone, n >= FirstAuto, Holds(p, n)'
             PROVE  n < nextAuto' /\ \A q \in Everyone : Holds(q, n)' => q = p
  BY DEF Owned
<1>1. CASE Holds(p, n)
  <2>1. n < nextAuto
    BY <1>1 DEF Owned
  <2>2. ASSUME NEW q \in Everyone, Holds(q, n)' PROVE q = p
    <3>1. Holds(q, n)
      BY <2>1, <2>2 DEF TypeInv
    <3> QED  BY <1>1, <3>1 DEF Owned
  <2> QED  BY <2>1, <2>2 DEF TypeInv
<1>2. CASE p = c /\ n = nextAuto /\ nextAuto' > nextAuto
  <2>1. \A q \in Everyone : ~Holds(q, n)
    BY <1>2 DEF Owned, TypeInv
  <2> QED  BY <1>2, <2>1
<1> QED  BY <1>1, <1>2

\* A message is sent to d.
LEMMA Replied ==
  ASSUME TypeInv, NEW d \in Hosts, NEW m \in DownMsg, Reply(d, m)
  PROVE  /\ down' \in [Hosts -> Seq(DownMsg)]
         /\ \A e \in Hosts : e # d => down'[e] = down[e]
         /\ \A j \in DOMAIN down'[d] :
              down'[d][j] = m \/ \E k \in DOMAIN down[d] : down[d][k] = down'[d][j]
<1>1. /\ down'[d] = Append(down[d], m) /\ down[d] \in Seq(DownMsg)
      /\ \A e \in Hosts : e # d => down'[e] = down[e]
  BY DEF Reply, TypeInv
<1>2. down' \in [Hosts -> Seq(DownMsg)]
  BY <1>1 DEF Reply, TypeInv
<1>3. ASSUME NEW j \in DOMAIN down'[d]
      PROVE  down'[d][j] = m \/ \E k \in DOMAIN down[d] : down[d][k] = down'[d][j]
  <2>1. DOMAIN down'[d] = 1 .. Len(down[d]) + 1 /\ DOMAIN down[d] = 1 .. Len(down[d])
        /\ Len(down[d]) \in Nat
    BY <1>1
  <2> QED  BY <1>1, <2>1
<1> QED  BY <1>1, <1>2, <1>3

\* c is told a number.
LEMMA Telling ==
  ASSUME IgpInv, NEW c \in Hosts, NEW i \in Int, Tell(c, i), client' = client
  PROVE  /\ down' \in [Hosts -> Seq(DownMsg)] /\ told' \in [Hosts -> SUBSET Int]
         /\ \A d \in Hosts : told'[d] = IF d = c THEN told[c] \cup {i} ELSE told[d]
         /\ \A d \in Hosts : Heard(d)'
<1>1. TypeInv /\ \A d \in Hosts : Heard(d)
  BY DEF IgpInv
<1>2. Inform(i) \in DownMsg /\ Inform(i).id = i
  BY DEF DownMsg, Inform
<1>3. /\ told' \in [Hosts -> SUBSET Int]
      /\ \A d \in Hosts : told'[d] = IF d = c THEN told[c] \cup {i} ELSE told[d]
  BY <1>1 DEF Tell, TypeInv
<1>4. /\ down' \in [Hosts -> Seq(DownMsg)]
      /\ \A e \in Hosts : e # c => down'[e] = down[e]
      /\ \A j \in DOMAIN down'[c] :
           down'[c][j] = Inform(i) \/ \E k \in DOMAIN down[c] : down[c][k] = down'[c][j]
  BY <1>1, <1>2, Replied DEF Tell
<1>5. ASSUME NEW d \in Hosts PROVE Heard(d)'
  <2>1. CASE d = c
    BY <1>1, <1>2, <1>3, <1>4, <2>1 DEF Heard
  <2>2. CASE d # c
    BY <1>1, <1>3, <1>4, <2>2 DEF Heard
  <2> QED  BY <2>1, <2>2
<1> QED  BY <1>3, <1>4, <1>5

\* Nobody is told or given a number: the table and what is under way may shrink,
\* and mail may be sent.
LEMMA SilentKeeps ==
  ASSUME IgpInv, UNCHANGED <<nextAuto, told>>,
         Table(peers', nextAuto), \A p, n : Has(peers', p, n) => Has(peers, p, n),
         down' \in [Hosts -> Seq(DownMsg)],
         \A d \in Hosts : \A j \in DOMAIN down'[d] : down'[d][j].kind = "inform" =>
            \E k \in DOMAIN down[d] : down[d][k] = down'[d][j],
         client' \in [Hosts -> Session],
         \A d \in Hosts : client'[d].enabled =>
            \/ client[d].enabled /\ client'[d].ident = client[d].ident
            \/ client'[d].ident \in told[d]
  PROVE  IgpInv'
<1>1. TypeInv /\ Owned /\ \A d \in Hosts : Heard(d)
  BY DEF IgpInv
<1>2. TypeInv'
  BY <1>1 DEF TypeInv
<1>3. \A d \in Hosts : Heard(d)'
  BY <1>1 DEF Heard
<1>4. Owned'
  <2>1. \A p \in Everyone, n \in Int : Holds(p, n)' => Holds(p, n)
    BY DEF Holds
  <2> QED  BY <1>1, <2>1, OwnedKept DEF TypeInv
<1> QED  BY <1>2, <1>3, <1>4 DEF IgpInv

\* What c sends that is not about its number, or asks for one it cannot have.
LEMMA HeardKeeps ==
  ASSUME IgpInv, NEW c \in Hosts,
         peers' = Known(c), UNCHANGED <<nextAuto, client, told>>,
         \/ UNCHANGED down
         \/ \E d \in Hosts : Reply(d, Mail)
  PROVE  IgpInv'
<1>1. TypeInv /\ Table(peers, nextAuto)
  BY DEF IgpInv
<1>2. Mail \in DownMsg /\ Mail.kind # "inform"
  BY DEF DownMsg, Mail
<1>3. /\ down' \in [Hosts -> Seq(DownMsg)]
      /\ \A d \in Hosts : \A j \in DOMAIN down'[d] : down'[d][j].kind = "inform" =>
            \E k \in DOMAIN down[d] : down[d][k] = down'[d][j]
  <2>1. CASE UNCHANGED down
    BY <2>1, <1>1 DEF TypeInv
  <2>2. ASSUME NEW d \in Hosts, Reply(d, Mail) PROVE <1>3!:
    BY <2>2, <1>1, <1>2, Replied
  <2> QED  BY <2>1, <2>2
<1>4. /\ Table(peers', nextAuto)
      /\ \A p, n : Has(peers', p, n) => Has(peers, p, n)
  BY <1>1, KnownTable DEF TypeInv
<1> QED  BY <1>1, <1>3, <1>4, SilentKeeps DEF TypeInv

LEMMA ServeAutoKeeps ==
  ASSUME IgpInv, NEW c \in Hosts, ServeAuto(c)
  PROVE  IgpInv'
<1>1. /\ TypeInv /\ Owned /\ Table(peers, nextAuto)
      /\ peers' = Numbered(Known(c), Place(c), nextAuto) /\ nextAuto' = nextAuto + 1
      /\ Tell(c, nextAuto) /\ client' = client
  BY DEF IgpInv, ServeAuto, Issued
<1>2. /\ nextAuto \in Nat /\ nextAuto >= FirstAuto /\ FirstAuto \in Nat
      /\ nextAuto' \in Nat /\ nextAuto' > nextAuto /\ nextAuto' >= FirstAuto
  BY <1>1, IgpAssumption DEF TypeInv
<1>3. /\ Table(Known(c), nextAuto) /\ Place(c) \in DOMAIN Known(c)
      /\ Known(c)[Place(c)].who = c
      /\ \A p, i : Has(Known(c), p, i) => Has(peers, p, i)
  BY <1>1, <1>2, KnownTable
<1>4. \A j \in DOMAIN Known(c) : Known(c)[j].id # nextAuto
  BY <1>2, <1>3, NextFree
<1>5. /\ Table(peers', nextAuto')
      /\ \A p, n : Has(peers', p, n) => IF p = c THEN n = nextAuto ELSE Has(Known(c), p, n)
  <2>1. nextAuto \in FirstAuto .. (nextAuto + 1) - 1 /\ nextAuto + 1 \in Nat
        /\ nextAuto + 1 >= nextAuto /\ nextAuto \in Int
    BY <1>2
  <2> QED  BY <1>1, <1>2, <1>3, <1>4, <2>1, NumberedTable
<1>6. /\ down' \in [Hosts -> Seq(DownMsg)] /\ told' \in [Hosts -> SUBSET Int]
      /\ \A d \in Hosts : told'[d] = IF d = c THEN told[c] \cup {nextAuto} ELSE told[d]
      /\ \A d \in Hosts : Heard(d)'
  <2>1. nextAuto \in Int
    BY <1>2
  <2> QED  BY <1>1, <2>1, Telling
<1>7. Owned'
  <2>1. \A p \in Everyone, n \in Int : Holds(p, n)' => Holds(p, n) \/ (p = c /\ n = nextAuto)
    BY <1>3, <1>5, <1>6 DEF Holds
  <2> QED  BY <1>1, <1>2, <2>1, OwnedKept
<1> QED  BY <1>1, <1>2, <1>5, <1>6, <1>7 DEF IgpInv, TypeInv

LEMMA ServeAssignKeeps ==
  ASSUME IgpInv, NEW c \in Hosts, ServeAssign(c)
  PROVE  IgpInv'
<1>1. PICK i \in Chosen :
        /\ IF ValidAndUnique(i, Known(c))
              THEN peers' = Numbered(Known(c), Place(c), i) /\ Tell(c, i)
              ELSE peers' = Known(c) /\ UNCHANGED <<down, told>>
        /\ UNCHANGED <<nextAuto, client>>
  BY DEF ServeAssign
<1>2. /\ TypeInv /\ Owned /\ Table(peers, nextAuto) /\ nextAuto \in Nat /\ nextAuto >= FirstAuto
      /\ i \in Int /\ FirstAuto \in Nat
  BY IgpAssumption DEF IgpInv, TypeInv
<1>3. /\ Table(Known(c), nextAuto) /\ Place(c) \in DOMAIN Known(c)
      /\ Known(c)[Place(c)].who = c
      /\ \A p, n : Has(Known(c), p, n) => Has(peers, p, n)
  BY <1>2, KnownTable
<1>4. CASE ValidAndUnique(i, Known(c))
  <2>1. i \in 1 .. FirstAuto - 1 /\ \A j \in DOMAIN Known(c) : Known(c)[j].id # i
    BY <1>2, <1>4 DEF ValidAndUnique
  <2>2. /\ Table(peers', nextAuto')
        /\ \A p, n : Has(peers', p, n) => IF p = c THEN n = i ELSE Has(Known(c), p, n)
    BY <1>1, <1>2, <1>3, <1>4, <2>1, NumberedTable
  <2>3. /\ down' \in [Hosts -> Seq(DownMsg)] /\ told' \in [Hosts -> SUBSET Int]
        /\ \A d \in Hosts : told'[d] = IF d = c THEN told[c] \cup {i} ELSE told[d]
        /\ \A d \in Hosts : Heard(d)'
    BY <1>1, <1>2, <1>4, Telling
  <2>4. Owned'
    <3>1. \A p \in Everyone, n \in Int : n >= FirstAuto /\ Holds(p, n)' => Holds(p, n)
      BY <1>2, <1>3, <2>1, <2>2, <2>3 DEF Holds
    <3> QED  BY <1>1, <1>2, <3>1, OwnedKept
  <2> QED  BY <1>1, <1>2, <2>2, <2>3, <2>4 DEF IgpInv, TypeInv
<1>5. CASE ~ValidAndUnique(i, Known(c))
  BY <1>1, <1>2, <1>5, HeardKeeps
<1> QED  BY <1>4, <1>5

\* The number c is told it has, or it is told that it has none.
LEMMA ServeGetIdKeeps ==
  ASSUME IgpInv, NEW c \in Hosts, ServeGetId(c)
  PROVE  IgpInv'
<1> DEFINE i == Known(c)[Place(c)].id
<1>1. /\ TypeInv /\ Owned /\ Table(peers, nextAuto)
      /\ peers' = Known(c) /\ Tell(c, i) /\ UNCHANGED <<nextAuto, client>>
      /\ nextAuto \in Nat /\ FirstAuto > None
  BY IgpAssumption DEF IgpInv, ServeGetId, TypeInv, None
<1>2. /\ Table(Known(c), nextAuto) /\ Place(c) \in DOMAIN Known(c)
      /\ Known(c)[Place(c)].who = c
      /\ \A p, n : Has(Known(c), p, n) => Has(peers, p, n)
  BY <1>1, KnownTable
<1>3. i \in Int /\ (i # None => Has(peers, c, i))
  <2>1. Known(c)[Place(c)] \in Peer
    BY <1>2 DEF Table
  <2>2. i # None => Has(Known(c), c, i)
    BY <1>2 DEF Has
  <2> QED  BY <1>2, <2>1, <2>2 DEF Peer
<1> HIDE DEF i
<1>4. /\ down' \in [Hosts -> Seq(DownMsg)] /\ told' \in [Hosts -> SUBSET Int]
      /\ \A d \in Hosts : told'[d] = IF d = c THEN told[c] \cup {i} ELSE told[d]
      /\ \A d \in Hosts : Heard(d)'
  BY <1>1, <1>3, Telling
<1>5. Owned'
  <2>1. \A p \in Everyone, n \in Int : n >= FirstAuto /\ Holds(p, n)' => Holds(p, n)
    <3> SUFFICES ASSUME NEW p \in Everyone, NEW n \in Int, n >= FirstAuto, Holds(p, n)'
                 PROVE  Holds(p, n)
      OBVIOUS
    <3>1. CASE Has(peers', p, n)
      BY <1>1, <1>2, <3>1 DEF Holds
    <3>2. CASE p \in Hosts /\ n \in told'[p]
      <4>1. n # None
        BY <1>1, IgpAssumption DEF None
      <4> QED  BY <1>3, <1>4, <3>2, <4>1 DEF Holds
    <3> QED  BY <3>1, <3>2 DEF Holds
  <2> QED  BY <1>1, <2>1, OwnedKept
<1> QED  BY <1>1, <1>2, <1>4, <1>5 DEF IgpInv, TypeInv

\* A message that is routed, to a client or to nobody.
LEMMA ServeToKeeps ==
  ASSUME IgpInv, NEW c \in Hosts, ServeTo(c)
  PROVE  IgpInv'
<1>1. PICK m : /\ peers' = Known(c)
               /\ IF /\ GetPeer(Known(c), m.id) # Nobody
                     /\ Known(c)[GetPeer(Known(c), m.id)].who \in Hosts
                    THEN Reply(Known(c)[GetPeer(Known(c), m.id)].who, Mail)
                    ELSE UNCHANGED down
               /\ UNCHANGED <<nextAuto, client, told>>
  BY DEF ServeTo
<1>2. UNCHANGED down \/ \E d \in Hosts : Reply(d, Mail)
  BY <1>1
<1> QED  BY <1>1, <1>2, HeardKeeps

LEMMA ServiceToKeeps ==
  ASSUME IgpInv, NEW s \in Services, ServiceTo(s)
  PROVE  IgpInv'
<1>1. PICK d \in Hosts : Reply(d, Mail)
  BY DEF ServiceTo
<1>2. UNCHANGED <<peers, nextAuto, client, told>>
  BY DEF ServiceTo
<1>3. TypeInv /\ Table(peers, nextAuto)
  BY DEF IgpInv
<1>4. Mail \in DownMsg /\ Mail.kind # "inform"
  BY DEF DownMsg, Mail
<1>5. /\ down' \in [Hosts -> Seq(DownMsg)]
      /\ \A c \in Hosts : \A j \in DOMAIN down'[c] : down'[c][j].kind = "inform" =>
            \E k \in DOMAIN down[c] : down[c][k] = down'[c][j]
  BY <1>1, <1>3, <1>4, Replied
<1> QED  BY <1>2, <1>3, <1>5, SilentKeeps DEF TypeInv

\* What a client says, or what is said again, is not yet served.
LEMMA SpokenKeeps ==
  ASSUME IgpInv, UNCHANGED <<peers, nextAuto, down, told>>,
         client' \in [Hosts -> Session],
         \A d \in Hosts : client'[d].enabled = client[d].enabled
                          /\ client'[d].ident = client[d].ident
  PROVE  IgpInv'
  BY SilentKeeps DEF IgpInv, TypeInv

LEMMA IdentifyKeeps ==
  ASSUME IgpInv, NEW c \in Hosts, NEW m \in {AutoId} \cup {Assign(i) : i \in Chosen},
         Identify(c, m)
  PROVE  IgpInv'
<1> DEFINE e == [asked |-> m, enabled |-> client[c].enabled, ident |-> client[c].ident]
<1>1. client \in [Hosts -> Session] /\ client' = [client EXCEPT ![c] = e]
  BY DEF IgpInv, TypeInv, Identify
<1>2. e \in Session /\ e.enabled = client[c].enabled /\ e.ident = client[c].ident
  BY <1>1 DEF Session, Asking
<1> HIDE DEF e
<1>3. /\ client' \in [Hosts -> Session]
      /\ \A d \in Hosts : client'[d] = IF d = c THEN e ELSE client[d]
  BY <1>1, <1>2
<1> QED  BY <1>2, <1>3, SpokenKeeps DEF Identify

\* c takes a number it was told for its own.
LEMMA TakesKeeps ==
  ASSUME IgpInv, NEW c \in Hosts, NEW i \in told[c],
         client' = [client EXCEPT ![c] = [asked |-> @.asked, enabled |-> TRUE, ident |-> i]],
         UNCHANGED <<peers, nextAuto, told>>,
         down' \in [Hosts -> Seq(DownMsg)],
         \A d \in Hosts : \A j \in DOMAIN down'[d] :
            \E k \in DOMAIN down[d] : down[d][k] = down'[d][j]
  PROVE  IgpInv'
<1> DEFINE e == [asked |-> client[c].asked, enabled |-> TRUE, ident |-> i]
<1>1. /\ TypeInv /\ Table(peers, nextAuto) /\ client \in [Hosts -> Session] /\ i \in Int
      /\ client' = [client EXCEPT ![c] = e]
  BY DEF IgpInv, TypeInv
<1>2. e \in Session /\ e.ident = i
  BY <1>1 DEF Session
<1> HIDE DEF e
<1>3. /\ client' \in [Hosts -> Session]
      /\ \A d \in Hosts : client'[d] = IF d = c THEN e ELSE client[d]
  BY <1>1, <1>2
<1> QED  BY <1>1, <1>2, <1>3, SilentKeeps

\* The first of the messages under way to c has come, or is lost.
LEMMA FirstGone ==
  ASSUME TypeInv, NEW c \in Hosts, down[c] # <<>>, down' = [down EXCEPT ![c] = Tail(@)]
  PROVE  /\ down' \in [Hosts -> Seq(DownMsg)]
         /\ \A d \in Hosts : \A j \in DOMAIN down'[d] :
              \E k \in DOMAIN down[d] : down[d][k] = down'[d][j]
         /\ 1 \in DOMAIN down[c] /\ Head(down[c]) = down[c][1] /\ Head(down[c]) \in DownMsg
<1>1. down[c] \in Seq(DownMsg) /\ down[c] # <<>>
  BY DEF TypeInv
<1>2. /\ Tail(down[c]) \in Seq(DownMsg) /\ Len(Tail(down[c])) = Len(down[c]) - 1
      /\ \A j \in 1 .. Len(down[c]) - 1 : Tail(down[c])[j] = down[c][j + 1]
      /\ Head(down[c]) = down[c][1] /\ 1 \in DOMAIN down[c] /\ Head(down[c]) \in DownMsg
      /\ DOMAIN down[c] = 1 .. Len(down[c]) /\ Len(down[c]) \in Nat
  BY <1>1
<1>3. /\ down'[c] = Tail(down[c]) /\ \A d \in Hosts : d # c => down'[d] = down[d]
      /\ down' \in [Hosts -> Seq(DownMsg)]
  BY <1>2 DEF TypeInv
<1>4. \A j \in DOMAIN down'[c] : \E k \in DOMAIN down[c] : down[c][k] = down'[c][j]
  <2>1. DOMAIN down'[c] = 1 .. Len(down[c]) - 1
    BY <1>2, <1>3
  <2>2. \A j \in 1 .. Len(down[c]) - 1 : j + 1 \in DOMAIN down[c]
    BY <1>2
  <2> QED  BY <1>2, <1>3, <2>1, <2>2
<1> QED  BY <1>2, <1>3, <1>4

LEMMA ReceiveKeeps ==
  ASSUME IgpInv, NEW c \in Hosts, OnMessage(c)
  PROVE  IgpInv'
<1>1. /\ TypeInv /\ Table(peers, nextAuto) /\ Heard(c)
      /\ down[c] # <<>> /\ down' = [down EXCEPT ![c] = Tail(@)]
      /\ UNCHANGED <<peers, nextAuto, told>>
  BY DEF IgpInv, OnMessage
<1>2. /\ down' \in [Hosts -> Seq(DownMsg)]
      /\ \A d \in Hosts : \A j \in DOMAIN down'[d] :
           \E k \in DOMAIN down[d] : down[d][k] = down'[d][j]
      /\ 1 \in DOMAIN down[c] /\ Head(down[c]) = down[c][1]
  BY <1>1, FirstGone
<1>3. CASE Head(down[c]).kind # "inform"
  <2>1. client' = client
    BY <1>3 DEF OnMessage
  <2> QED  BY <1>1, <1>2, <2>1, SilentKeeps DEF TypeInv
<1>4. CASE Head(down[c]).kind = "inform"
  <2>1. Head(down[c]).id \in told[c]
    BY <1>1, <1>2, <1>4 DEF Heard
  <2>2. client' = [client EXCEPT ![c] = [asked |-> @.asked, enabled |-> TRUE,
                                         ident |-> Head(down[c]).id]]
    BY <1>4 DEF OnMessage
  <2> QED  BY <1>1, <1>2, <2>1, <2>2, TakesKeeps
<1> QED  BY <1>3, <1>4

LEMMA RecallKeeps ==
  ASSUME IgpInv, NEW c \in Hosts, Recall(c)
  PROVE  IgpInv'
<1>1. PICK i \in told[c] :
        client' = [client EXCEPT ![c] = [asked |-> @.asked, enabled |-> TRUE, ident |-> i]]
  BY DEF Recall
<1>2. UNCHANGED <<peers, nextAuto, down, told>> /\ down \in [Hosts -> Seq(DownMsg)]
  BY DEF Recall, IgpInv, TypeInv
<1> QED  BY <1>1, <1>2, TakesKeeps

LEMMA LoseDownKeeps ==
  ASSUME IgpInv, NEW c \in Hosts, LoseDown(c)
  PROVE  IgpInv'
<1>1. /\ TypeInv /\ Table(peers, nextAuto) /\ down[c] # <<>> /\ down' = [down EXCEPT ![c] = Tail(@)]
      /\ UNCHANGED <<peers, nextAuto, client, told>>
  BY DEF IgpInv, LoseDown
<1> QED  BY <1>1, FirstGone, SilentKeeps DEF TypeInv

\* The number of c may go, and what waits for it.
LEMMA DisconnectKeeps ==
  ASSUME IgpInv, NEW c \in Hosts, Disconnect(c)
  PROVE  IgpInv'
<1>1. TypeInv /\ Table(peers, nextAuto) /\ UNCHANGED <<nextAuto, client, told>>
  BY DEF IgpInv, Disconnect
<1>2. PICK kept \in 0 .. 1 : kept <= Len(down[c]) /\ down' = [down EXCEPT ![c] = SubSeq(@, 1, kept)]
  BY DEF Disconnect
<1>3. down[c] \in Seq(DownMsg) /\ Len(down[c]) \in Nat /\ DOMAIN down[c] = 1 .. Len(down[c])
  BY <1>1 DEF TypeInv
<1>4. /\ SubSeq(down[c], 1, kept) \in Seq(DownMsg) /\ Len(SubSeq(down[c], 1, kept)) = kept
      /\ \A j \in 1 .. kept : SubSeq(down[c], 1, kept)[j] = down[c][j]
  BY <1>2, <1>3
<1>5. /\ down'[c] = SubSeq(down[c], 1, kept) /\ \A d \in Hosts : d # c => down'[d] = down[d]
      /\ down' \in [Hosts -> Seq(DownMsg)]
  BY <1>1, <1>2, <1>4 DEF TypeInv
<1>6. \A j \in DOMAIN down'[c] : \E k \in DOMAIN down[c] : down[c][k] = down'[c][j]
  BY <1>2, <1>3, <1>4, <1>5
<1>7. Table(peers', nextAuto) /\ \A p, n : Has(peers', p, n) => Has(peers, p, n)
  <2>1. CASE FindPeer(c) = Nobody
    BY <1>1, <2>1 DEF Disconnect
  <2>2. CASE FindPeer(c) # Nobody
    BY <1>1, <2>2, FoundPlace, WithoutTable DEF Disconnect, Table, TypeInv
  <2> QED  BY <2>1, <2>2
<1> QED  BY <1>1, <1>5, <1>6, <1>7, SilentKeeps DEF TypeInv

LEMMA RegisterKeeps ==
  ASSUME IgpInv, NEW s \in Services, Register(s)
  PROVE  IgpInv'
<1>1. /\ TypeInv /\ Owned /\ Table(peers, nextAuto) /\ \A c \in Hosts : Heard(c)
      /\ nextAuto \in Nat /\ nextAuto >= FirstAuto /\ FirstAuto \in Nat
      /\ FindPeer(s) = Nobody /\ UNCHANGED <<down, client, told>>
  BY IgpAssumption DEF IgpInv, TypeInv, Register
<1>2. ASSUME NEW i \in Int, nextAuto' \in Nat, nextAuto' >= nextAuto, Table(peers', nextAuto'),
             \A p, n : Has(peers', p, n) => Has(peers, p, n) \/ (p = s /\ n = i),
             i < FirstAuto \/ (i = nextAuto /\ nextAuto' > nextAuto)
      PROVE  IgpInv'
  <2>1. \A p \in Everyone, n \in Int : n >= FirstAuto /\ Holds(p, n)' =>
          Holds(p, n) \/ (p = s /\ n = nextAuto /\ nextAuto' > nextAuto)
    BY <1>1, <1>2 DEF Holds
  <2>2. Owned'
    BY <1>1, <1>2, <2>1, OwnedKept
  <2>3. \A c \in Hosts : Heard(c)'
    BY <1>1 DEF Heard
  <2> QED  BY <1>1, <1>2, <2>2, <2>3 DEF IgpInv, TypeInv
<1>3. ASSUME NEW i \in Chosen, nextAuto' = nextAuto,
             ValidAndUnique(i, Append(peers, [who |-> s, id |-> None])),
             peers' = Append(peers, [who |-> s, id |-> i])
      PROVE  IgpInv'
  <2> DEFINE t == Append(peers, [who |-> s, id |-> None])
  <2>1. i \in Int /\ i > 0 /\ i < FirstAuto /\ \A k \in DOMAIN t : t[k].id # i
    BY <1>3, IgpAssumption DEF ValidAndUnique
  <2>2. \A k \in DOMAIN peers : k \in DOMAIN t /\ t[k] = peers[k]
    BY <1>1 DEF Table
  <2>3. i \in 1 .. FirstAuto - 1 /\ \A k \in DOMAIN peers : peers[k].id # i
    BY <1>1, <2>1, <2>2
  <2> QED  BY <1>1, <1>2, <1>3, <2>1, <2>3, RegisteredTable
<1>4. ASSUME nextAuto' = nextAuto + 1, peers' = Append(peers, [who |-> s, id |-> nextAuto])
      PROVE  IgpInv'
  <2>1. nextAuto \in FirstAuto .. (nextAuto + 1) - 1 /\ nextAuto + 1 \in Nat
        /\ nextAuto + 1 >= nextAuto /\ nextAuto + 1 > nextAuto /\ nextAuto \in Int
    BY <1>1
  <2>2. \A j \in DOMAIN peers : peers[j].id # nextAuto
    BY <1>1, NextFree
  <2> QED  BY <1>1, <1>2, <1>4, <2>1, <2>2, RegisteredTable
<1> QED  BY <1>3, <1>4 DEF Register, Issued

LEMMA UnregisterKeeps ==
  ASSUME IgpInv, NEW s \in Services, Unregister(s)
  PROVE  IgpInv'
<1>1. TypeInv /\ Table(peers, nextAuto) /\ UNCHANGED <<nextAuto, down, client, told>>
  BY DEF IgpInv, Unregister
<1>2. FindPeer(s) \in DOMAIN peers /\ peers' = Without(peers, FindPeer(s))
  BY <1>1, FoundPlace DEF Unregister, Table
<1>3. Table(peers', nextAuto) /\ \A p, n : Has(peers', p, n) => Has(peers, p, n)
  BY <1>1, <1>2, WithoutTable DEF TypeInv
<1> QED  BY <1>1, <1>3, SilentKeeps DEF TypeInv

-----------------------------------------------------------------------------
LEMMA IgpInitial == IgpInit => IgpInv
<1> SUFFICES ASSUME IgpInit PROVE IgpInv
  OBVIOUS
<1>1. TypeInv
  BY IgpAssumption DEF IgpInit, TypeInv, Session, Asking, None
<1>2. Table(peers, nextAuto)
  BY DEF IgpInit, Table, OnePlace, OneNumber, Ranged
<1>3. ASSUME NEW c \in Hosts PROVE Heard(c)
  <2>1. down[c] = <<>> /\ ~client[c].enabled
    BY DEF IgpInit
  <2> QED  BY <2>1 DEF Heard
<1>4. Owned
  BY DEF IgpInit, Owned, Holds, Has
<1> QED  BY <1>1, <1>2, <1>3, <1>4 DEF IgpInv

LEMMA IgpStep == IgpInv /\ [IgpNext]_igp => IgpInv'
<1> SUFFICES ASSUME IgpInv, [IgpNext]_igp PROVE IgpInv'
  OBVIOUS
<1>1. ASSUME NEW c \in Hosts, Serve(c) PROVE IgpInv'
  <2>1. CASE ServeAlive(c)
    BY <2>1, HeardKeeps DEF ServeAlive
  <2> QED  BY <1>1, <2>1, ServeAutoKeeps, ServeAssignKeeps, ServeGetIdKeeps, ServeToKeeps DEF Serve
<1>2. ASSUME UNCHANGED <<peers, nextAuto, down, client, told>> PROVE IgpInv'
  BY <1>2, SpokenKeeps DEF IgpInv, TypeInv
<1>3. ASSUME NEW c \in Hosts, NEW m, Say(c, m) PROVE IgpInv'
  BY <1>2, <1>3 DEF Say
<1>4. CASE UNCHANGED igp
  BY <1>2, <1>4 DEF igp
<1>5. ASSUME NEW c \in Hosts, LoseUp(c) \/ Repeat(c) PROVE IgpInv'
  BY <1>2, <1>5 DEF LoseUp, Repeat
<1>6. ASSUME NEW c \in Hosts,
             \/ \E m \in {AutoId} \cup {Assign(i) : i \in Chosen} : Identify(c, m)
             \/ \E m \in {Alive, GetId} \cup {To(i) : i \in Targets} : Say(c, m)
      PROVE  IgpInv'
  BY <1>3, <1>6, IdentifyKeeps
<1> QED  BY <1>1, <1>4, <1>5, <1>6, ReceiveKeeps, LoseDownKeeps, DisconnectKeeps, RecallKeeps,
            RegisterKeeps, UnregisterKeeps, ServiceToKeeps
         DEF IgpNext, Client, Service

LEMMA IgpInvariant == IgpSpec => []IgpInv
<1> QED  BY IgpInitial, IgpStep, PTL DEF IgpSpec

\* No two peers ever have the same number, for any range of the numbers and
\* any order of requests, registrations and ends of sessions.
THEOREM NumbersNeverShared == IgpSpec => []NumbersUnique
<1>1. IgpInv => NumbersUnique
  BY DEF IgpInv, Table, OneNumber, NumbersUnique
<1> QED  BY <1>1, IgpInvariant, PTL

\* No other peer ever has, or takes for its own, a number that was given on
\* demand to a client, whatever is lost, comes late or comes again, and although
\* the server may know the client by a later number or by none.
THEOREM NumbersStayOwned == IgpSpec => []NumberOwned
<1>1. IgpInv => NumberOwned
  <2> SUFFICES ASSUME IgpInv, NEW c \in Hosts, client[c].enabled, client[c].ident >= FirstAuto
               PROVE  /\ \A k \in DOMAIN peers : peers[k].id = client[c].ident => peers[k].who = c
                      /\ \A d \in Hosts : client[d].enabled /\ client[d].ident = client[c].ident
                                            => d = c
    BY DEF NumberOwned
  <2> DEFINE n == client[c].ident
  <2>1. n \in Int /\ n # None /\ c \in Everyone /\ Holds(c, n)
    <3>1. n \in Int
      BY DEF IgpInv, TypeInv, Session
    <3>2. n # None
      BY <3>1, IgpAssumption DEF None
    <3> QED  BY <3>1, <3>2 DEF IgpInv, Heard, Holds, Everyone
  <2>2. \A p \in Everyone : Holds(p, n) => p = c
    BY <2>1 DEF IgpInv, Owned
  <2>3. ASSUME NEW k \in DOMAIN peers, peers[k].id = n PROVE peers[k].who = c
    <3>1. Holds(peers[k].who, n)
      BY <2>1, <2>3 DEF Holds, Has
    <3>2. peers \in Seq(Peer)
      BY DEF IgpInv, Table
    <3>3. peers[k] \in Peer
      BY <3>2
    <3>4. peers[k].who \in Everyone
      BY <3>3 DEF Peer
    <3> QED  BY <2>2, <3>1, <3>4
  <2>4. ASSUME NEW d \in Hosts, client[d].enabled, client[d].ident = n PROVE d = c
    BY <2>2, <2>4 DEF IgpInv, Heard, Holds, Everyone
  <2> QED  BY <2>3, <2>4
<1> QED  BY <1>1, IgpInvariant, PTL

-----------------------------------------------------------------------------
(* The ping transactions.                                                  *)

PingRecord == [is : {"no", "waits", "succeeded", "failed"},
               age : Int, since : Int, owned : BOOLEAN]

\* A transaction that waits still points to its client: destroying it takes it
\* off the list.
PingTyped ==
  /\ pending \in Seq(Pings) /\ walk \in Nat
  /\ ping \in [Pings -> PingRecord]

WaitsOwned == \A t \in Pings : ping[t].is = "waits" => ping[t].owned

PingInv == PingTyped /\ PendingExact /\ WaitsOwned

Each(s) == \A j, k \in DOMAIN s : s[j] = s[k] => j = k

\* The last transaction takes the place of the one that is removed.
LEMMA SwappedList ==
  ASSUME pending \in Seq(Pings), Each(pending), NEW k \in DOMAIN pending
  PROVE  /\ Swapped(k) \in Seq(Pings) /\ Each(Swapped(k))
         /\ ToSet(Swapped(k)) = ToSet(pending) \ {pending[k]}
<1> DEFINE n == Len(pending)
           p == [pending EXCEPT ![k] = pending[n]]
           s == Swapped(k)
<1>1. /\ n \in Nat /\ n > 0 /\ DOMAIN pending = 1 .. n /\ k \in 1 .. n
      /\ \A i \in 1 .. n : pending[i] \in Pings
  OBVIOUS
<1>2. \A i \in 1 .. n : p[i] = IF i = k THEN pending[n] ELSE pending[i]
  BY <1>1
<1>3. /\ s \in Seq(Pings) /\ Len(s) = n - 1
      /\ \A i \in 1 .. n - 1 : s[i] = IF i = k THEN pending[n] ELSE pending[i]
  <2>1. \A i \in 1 .. n - 1 : p[i] \in Pings
    BY <1>1, <1>2
  <2>2. s = SubSeq(p, 1, n - 1)
    BY DEF Swapped
  <2> HIDE DEF p, s
  <2>3. /\ SubSeq(p, 1, n - 1) \in Seq(Pings)
        /\ Len(SubSeq(p, 1, n - 1)) = IF 1 <= n - 1 THEN n - 1 - 1 + 1 ELSE 0
        /\ \A i \in 1 .. n - 1 - 1 + 1 : SubSeq(p, 1, n - 1)[i] = p[1 + i - 1]
    BY <1>1, <2>1, SubSeqProperties
  <2> QED  BY <1>1, <1>2, <2>2, <2>3
<1> HIDE DEF n, p, s
<1>4. DOMAIN s = 1 .. n - 1
  BY <1>1, <1>3
<1>5. Each(s)
  BY <1>1, <1>3, <1>4 DEF Each
<1>6. ASSUME NEW x \in ToSet(s) PROVE x \in ToSet(pending) \ {pending[k]}
  BY <1>1, <1>3, <1>4, <1>6 DEF ToSet, Each
<1>7. ASSUME NEW x \in ToSet(pending) \ {pending[k]} PROVE x \in ToSet(s)
  <2>1. PICK i \in 1 .. n : pending[i] = x /\ i # k
    BY <1>1, <1>7 DEF ToSet
  <2>2. PICK j \in 1 .. n - 1 : s[j] = x
    <3>1. CASE i # n
      <4>1. i \in 1 .. n - 1 /\ s[i] = x
        BY <1>1, <1>3, <2>1, <3>1
      <4> QED  BY <4>1
    <3>2. CASE i = n
      <4>1. k \in 1 .. n - 1
        BY <1>1, <2>1, <3>2
      <4> QED  BY <1>3, <2>1, <3>2, <4>1
    <3> QED  BY <3>1, <3>2
  <2> QED  BY <1>4, <2>2 DEF ToSet
<1> QED  BY <1>3, <1>5, <1>6, <1>7 DEF s

\* Removing a transaction takes it off the list, and only it.
LEMMA UnlistedList ==
  ASSUME pending \in Seq(Pings), Each(pending), NEW t
  PROVE  /\ Unlisted(t) \in Seq(Pings) /\ Each(Unlisted(t))
         /\ ToSet(Unlisted(t)) = ToSet(pending) \ {t}
<1> DEFINE at == {k \in DOMAIN pending : pending[k] = t}
<1>1. CASE at = {}
  BY <1>1 DEF Unlisted, ToSet
<1>2. ASSUME NEW k \in at
      PROVE  Unlisted(t) = Swapped(k) /\ k \in DOMAIN pending /\ pending[k] = t
  <2>1. at = {k}
    BY <1>2 DEF Each
  <2>2. k \in Nat
    BY <1>2
  <2>3. (CHOOSE x \in at : \A y \in at : y <= x) = k
    BY <2>1, <2>2
  <2> QED  BY <1>2, <2>3 DEF Unlisted
<1> QED  BY <1>1, <1>2, SwappedList

\* A pong answers the first half of the list and leaves the other, turned round.
LEMMA HalvedList ==
  ASSUME pending \in Seq(Pings), Each(pending)
  PROVE  /\ Unheard \in Seq(Pings) /\ Each(Unheard)
         /\ ToSet(Unheard) = ToSet(pending) \ ToSet(Answered)
<1> DEFINE n == Len(pending)
           h == (n + 1) \div 2
           u == SubSeq(pending, h + 1, n)
<1>1. /\ n \in Nat /\ DOMAIN pending = 1 .. n /\ \A i \in 1 .. n : pending[i] \in Pings
  OBVIOUS
<1>2. h \in 0 .. n
  BY <1>1
<1>3. Answered = SubSeq(pending, 1, h) /\ Unheard = Reverse(u)
  BY DEF Answered, Unheard
<1> HIDE DEF n, h
<1>4. /\ DOMAIN Answered = 1 .. h
      /\ \A i \in 1 .. h : Answered[i] = pending[i]
  <2>1. \A i \in 1 .. h : pending[i] \in Pings
    BY <1>1, <1>2
  <2>2. /\ SubSeq(pending, 1, h) \in Seq(Pings)
        /\ Len(SubSeq(pending, 1, h)) = IF 1 <= h THEN h - 1 + 1 ELSE 0
        /\ \A i \in 1 .. h - 1 + 1 : SubSeq(pending, 1, h)[i] = pending[1 + i - 1]
    BY <1>2, <2>1, SubSeqProperties
  <2> QED  BY <1>2, <1>3, <2>2
<1>5. /\ u \in Seq(Pings) /\ Len(u) = n - h
      /\ \A i \in 1 .. n - h : u[i] = pending[h + i]
  <2>1. \A i \in h + 1 .. n : pending[i] \in Pings
    BY <1>1, <1>2
  <2>2. /\ SubSeq(pending, h + 1, n) \in Seq(Pings)
        /\ Len(SubSeq(pending, h + 1, n)) = IF h + 1 <= n THEN n - (h + 1) + 1 ELSE 0
        /\ \A i \in 1 .. n - (h + 1) + 1 :
             SubSeq(pending, h + 1, n)[i] = pending[h + 1 + i - 1]
    BY <1>1, <1>2, <2>1, SubSeqProperties
  <2> HIDE DEF u
  <2>3. n - (h + 1) + 1 = n - h /\ \A i \in Int : h + 1 + i - 1 = h + i
    BY <1>1, <1>2
  <2>4. (IF h + 1 <= n THEN n - h ELSE 0) = n - h
    <3>1. h <= n /\ (h + 1 <= n \/ n - h = 0)
      BY <1>1, <1>2
    <3> QED  BY <3>1
  <2> QED  BY <1>1, <1>2, <2>2, <2>3, <2>4 DEF u
<1> HIDE DEF u
<1>6. /\ Unheard \in Seq(Pings) /\ DOMAIN Unheard = 1 .. n - h
      /\ \A i \in 1 .. n - h : Unheard[i] = pending[n - i + 1]
  <2>1. Unheard = [i \in 1 .. n - h |-> u[(n - h - i) + 1]]
    BY <1>3, <1>5 DEF Reverse
  <2>2. ASSUME NEW i \in 1 .. n - h PROVE u[(n - h - i) + 1] = pending[n - i + 1]
    <3>1. (n - h - i) + 1 \in 1 .. n - h
      BY <1>1, <1>2
    <3>2. h + ((n - h - i) + 1) = n - i + 1
      BY <1>1, <1>2
    <3> QED  BY <1>5, <3>1, <3>2
  <2>3. ASSUME NEW i \in 1 .. n - h
        PROVE  Unheard[i] = pending[n - i + 1] /\ Unheard[i] \in Pings
    <3>1. n - i + 1 \in 1 .. n
      BY <1>1, <1>2
    <3> QED  BY <1>1, <2>1, <2>2, <3>1
  <2>4. n - h \in Nat
    BY <1>1, <1>2
  <2> QED  BY <2>1, <2>3, <2>4
<1>7. Each(Unheard)
  <2> SUFFICES ASSUME NEW i \in 1 .. n - h, NEW j \in 1 .. n - h, Unheard[i] = Unheard[j]
               PROVE  i = j
    BY <1>6 DEF Each
  <2>1. /\ n - i + 1 \in 1 .. n /\ n - j + 1 \in 1 .. n
        /\ pending[n - i + 1] = pending[n - j + 1]
    BY <1>1, <1>2, <1>6
  <2>2. n - i + 1 = n - j + 1
    BY <1>1, <2>1 DEF Each
  <2> QED  BY <1>1, <2>2
<1>8. ASSUME NEW x \in ToSet(Unheard) PROVE x \in ToSet(pending) \ ToSet(Answered)
  <2>1. PICK i \in 1 .. n - h : x = pending[n - i + 1]
    BY <1>6, <1>8 DEF ToSet
  <2>2. n - i + 1 \in 1 .. n /\ n - i + 1 > h
    BY <1>1, <1>2
  <2>3. \A j \in 1 .. h : pending[j] # x
    BY <1>1, <1>2, <2>1, <2>2 DEF Each
  <2> QED  BY <1>1, <1>4, <2>1, <2>2, <2>3 DEF ToSet
<1>9. ASSUME NEW x \in ToSet(pending) \ ToSet(Answered) PROVE x \in ToSet(Unheard)
  <2>1. PICK j \in 1 .. n : pending[j] = x
    BY <1>1, <1>9 DEF ToSet
  <2>2. j \notin 1 .. h
    BY <1>4, <1>9, <2>1 DEF ToSet
  <2>3. n - j + 1 \in 1 .. n - h /\ n - (n - j + 1) + 1 = j
    BY <1>1, <1>2, <2>2
  <2> QED  BY <1>6, <2>1, <2>3 DEF ToSet
<1> QED  BY <1>6, <1>7, <1>8, <1>9

LEMMA PingStep == PingInv /\ [PingNext]_pings => PingInv'
<1> SUFFICES ASSUME PingInv, [PingNext]_pings PROVE PingInv'
  OBVIOUS
<1> USE DEF PingInv, PingTyped, WaitsOwned
<1>0. /\ ToSet(pending) = {t \in Pings : ping[t].is = "waits"} /\ Each(pending)
      /\ PendingExact' <=> /\ ToSet(pending') = {t \in Pings : ping'[t].is = "waits"}
                           /\ Each(pending')
  BY DEF PendingExact, Each
<1>1. ASSUME NEW t \in Pings, Ping(t) PROVE PingInv'
  <2>1. /\ pending' = Append(pending, t) /\ walk' = walk /\ ping[t].is = "no"
        /\ ping' = [ping EXCEPT ![t] = [is |-> "waits", age |-> 0, since |-> 0, owned |-> TRUE]]
    BY <1>1 DEF Ping
  <2>2. PingTyped' /\ WaitsOwned'
    BY <2>1 DEF PingRecord
  <2>3. t \notin ToSet(pending)
    BY <1>0, <2>1
  <2>4. Each(pending') /\ ToSet(pending') = ToSet(pending) \cup {t}
    <3> DEFINE n == Len(pending)
               s == pending'
    <3>1. /\ n \in Nat /\ DOMAIN pending = 1 .. n /\ DOMAIN s = 1 .. n + 1
          /\ s[n + 1] = t /\ \A k \in 1 .. n : s[k] = pending[k]
      BY <2>1
    <3> HIDE DEF n, s
    <3>2. \A k \in 1 .. n : s[k] # t
      BY <2>3, <3>1 DEF ToSet
    <3>3. Each(s)
      BY <1>0, <3>1, <3>2 DEF Each
    <3>4. ToSet(s) = ToSet(pending) \cup {t}
      <4>1. n + 1 \in 1 .. n + 1 /\ 1 .. n + 1 = (1 .. n) \cup {n + 1}
        BY <3>1
      <4>2. \A x : (\E k \in 1 .. n + 1 : s[k] = x) <=> x = t \/ \E k \in 1 .. n : pending[k] = x
        BY <3>1, <4>1
      <4> QED  BY <3>1, <4>2 DEF ToSet
    <3> QED  BY <3>3, <3>4 DEF s
  <2>5. {u \in Pings : ping'[u].is = "waits"} = {u \in Pings : ping[u].is = "waits"} \cup {t}
    BY <2>1
  <2> QED  BY <1>0, <2>2, <2>4, <2>5
<1>2. ASSUME NEW t \in Pings, Destroy(t) PROVE PingInv'
  <2>1. /\ pending' = IF ping[t].owned THEN Unlisted(t) ELSE pending
        /\ walk' = walk
        /\ ping' = [ping EXCEPT ![t].is = "no", ![t].owned = FALSE]
    BY <1>2 DEF Destroy
  <2>2. /\ pending' \in Seq(Pings) /\ Each(pending')
        /\ ToSet(pending') = ToSet(pending) \ {t}
    BY <1>0, <2>1, UnlistedList
  <2>3. PingTyped' /\ WaitsOwned'
    BY <2>1, <2>2 DEF PingRecord
  <2>4. {u \in Pings : ping'[u].is = "waits"} = {u \in Pings : ping[u].is = "waits"} \ {t}
    BY <2>1
  <2> QED  BY <1>0, <2>2, <2>3, <2>4
<1>3. CASE Pong
  <2>1. /\ ping' = [t \in Pings |-> IF t \in ToSet(Answered)
                                THEN [ping[t] EXCEPT !.is = "succeeded"] ELSE ping[t]]
        /\ pending' = Unheard /\ walk' = walk
    BY <1>3 DEF Pong
  <2>2. PingTyped' /\ WaitsOwned'
    BY <1>0, <2>1, HalvedList DEF PingRecord
  <2>3. {u \in Pings : ping'[u].is = "waits"}
          = {u \in Pings : ping[u].is = "waits"} \ ToSet(Answered)
    BY <2>1
  <2> QED  BY <1>0, <2>1, <2>2, <2>3, HalvedList
<1>4. CASE LosePong
  BY <1>0, <1>4 DEF LosePong
<1>5. CASE Idle
  <2>1. /\ pending' = pending /\ walk' = 1
        /\ ping' = [t \in Pings |->
                IF ping[t].is = "waits"
                  THEN [ping[t] EXCEPT !.age   = IF @ > Timeout THEN @ ELSE @ + 1,
                                       !.since = IF @ > Interval THEN @ ELSE @ + 1]
                  ELSE ping[t]]
    BY <1>5 DEF Idle
  <2>2. ASSUME NEW t \in Pings
        PROVE  /\ ping'[t] \in PingRecord
               /\ ping'[t].is = ping[t].is /\ ping'[t].owned = ping[t].owned
    <3> DEFINE a == IF ping[t].age > Timeout THEN ping[t].age ELSE ping[t].age + 1
               b == IF ping[t].since > Interval THEN ping[t].since ELSE ping[t].since + 1
    <3>1. ping[t] \in PingRecord /\ a \in Int /\ b \in Int
      BY DEF PingRecord
    <3>2. ping'[t] \in {ping[t], [ping[t] EXCEPT !.age = a, !.since = b]}
      BY <2>1
    <3> HIDE DEF a, b
    <3> QED  BY <3>1, <3>2 DEF PingRecord
  <2>3. PingTyped'
    BY <2>1, <2>2
  <2> QED  BY <1>0, <2>1, <2>2, <2>3
<1>6. CASE Turn
  <2>1. CASE walk > Len(pending)
    BY <1>0, <1>6, <2>1 DEF Turn, Rest
  <2>2. CASE ~(walk > Len(pending))
    <3> DEFINE t == pending[walk]
    <3>1. t \in Pings /\ walk' \in Nat
      BY <1>6, <2>2 DEF Turn, Rest
    <3>2. CASE ping[t].age > Timeout
      <4>1. /\ ping' = [ping EXCEPT ![t].is = "failed", ![t].owned = FALSE]
            /\ pending' = Unlisted(t)
        BY <1>6, <2>2, <3>2 DEF Turn
      <4>2. /\ pending' \in Seq(Pings) /\ Each(pending')
            /\ ToSet(pending') = ToSet(pending) \ {t}
        BY <1>0, <4>1, UnlistedList
      <4> HIDE DEF t
      <4>3. PingTyped' /\ WaitsOwned'
        BY <3>1, <4>1, <4>2 DEF PingRecord
      <4>4. {u \in Pings : ping'[u].is = "waits"} = {u \in Pings : ping[u].is = "waits"} \ {t}
        BY <3>1, <4>1
      <4> QED  BY <1>0, <4>2, <4>3, <4>4
    <3>3. CASE ~(ping[t].age > Timeout)
      <4>1. /\ pending' = pending
            /\ ping' \in {ping, [ping EXCEPT ![t] = Repeated(@)]}
        BY <1>6, <2>2, <3>3 DEF Turn
      <4> HIDE DEF t
      <4>2. /\ Repeated(ping[t]).is = ping[t].is /\ Repeated(ping[t]).owned = ping[t].owned
            /\ Repeated(ping[t]) \in PingRecord
        BY <3>1 DEF Repeated, PingRecord
      <4>3. /\ PingTyped'
            /\ \A u \in Pings : ping'[u].is = ping[u].is /\ ping'[u].owned = ping[u].owned
        BY <3>1, <4>1, <4>2
      <4> QED  BY <1>0, <4>1, <4>3
    <3> QED  BY <3>2, <3>3
  <2> QED  BY <2>1, <2>2
<1>7. CASE UNCHANGED pings
  BY <1>0, <1>7 DEF pings
<1> QED  BY <1>1, <1>2, <1>3, <1>4, <1>5, <1>6, <1>7 DEF PingNext

\* The list of the pending transactions holds those that wait, each once, for
\* any number of them and whatever is answered, timed out or destroyed.
THEOREM PendingAlwaysExact == PingSpec => []PendingExact
<1>1. PingInit => PingInv
  BY DEF PingInit, PingInv, PingTyped, PingRecord, PendingExact, WaitsOwned, ToSet, Rest
<1>2. PingInv => PendingExact
  BY DEF PingInv
<1> QED  BY <1>1, <1>2, PingStep, PTL DEF PingSpec

-----------------------------------------------------------------------------
(* A ping comes to its end.                                                *)

\* A ping that waits only grows older, also when it is repeated, and fails no
\* sooner than its timeout; a turn of the scan shortens what is left of it.
GrowsOlder ==
  /\ \A t \in Pings : ping[t].is = "waits" /\ ping'[t].is = "waits" =>
       /\ ping'[t].age >= ping[t].age
       /\ Idle => ping'[t].age > ping[t].age \/ ping[t].age > Timeout
  /\ \A t \in Pings : ping'[t].is = "failed" => ping[t].is = "failed" \/ ping[t].age > Timeout
  /\ Turn => walk' = Rest \/ Len(pending') - walk' < Len(pending) - walk

\* The first ping of the list that is past its timeout.
FirstExpired(f) ==
  /\ f \in DOMAIN pending /\ ping[pending[f]].age > Timeout
  /\ \A j \in 1 .. f - 1 : ping[pending[j]].age <= Timeout

\* A scan that has not come to the first ping past its timeout comes to it, and
\* that ping fails, although the scan passes over others.
ScanReaches ==
  \A f \in DOMAIN pending : FirstExpired(f) /\ walk \in 1 .. f =>
    \/ ping'[pending[f]].is = "failed"
    \/ FirstExpired(f)' /\ pending' = pending /\ walk' \in walk .. f

\* One turn of the scan, by what it finds.
LEMMA TurnCases ==
  ASSUME PingInv, Turn
  PROVE  \/ walk > Len(pending) /\ walk' = Rest /\ UNCHANGED <<pending, ping>>
         \/ /\ walk \in DOMAIN pending /\ walk' = walk + 1 /\ pending[walk] \in Pings
            /\ ping[pending[walk]].age > Timeout
            /\ ping' = [ping EXCEPT ![pending[walk]].is = "failed",
                                    ![pending[walk]].owned = FALSE]
            /\ pending' = Unlisted(pending[walk])
         \/ /\ walk \in DOMAIN pending /\ walk' = walk + 1 /\ pending[walk] \in Pings
            /\ ~(ping[pending[walk]].age > Timeout)
            /\ pending' = pending
            /\ \A t \in Pings : ping'[t].age = ping[t].age /\ ping'[t].is = ping[t].is
<1>1. pending \in Seq(Pings) /\ walk \in Nat /\ walk # 0 /\ ping \in [Pings -> PingRecord]
  BY DEF PingInv, PingTyped, Turn, Rest
<1>2. CASE walk > Len(pending)
  BY <1>2 DEF Turn
<1>3. CASE ~(walk > Len(pending))
  <2> DEFINE t == pending[walk]
  <2>1. walk \in DOMAIN pending /\ t \in Pings /\ walk' = walk + 1
    BY <1>1, <1>3 DEF Turn
  <2>2. CASE ping[t].age > Timeout
    BY <1>3, <2>1, <2>2 DEF Turn
  <2>3. CASE ~(ping[t].age > Timeout)
    <3>1. pending' = pending /\ ping' \in {ping, [ping EXCEPT ![t] = Repeated(@)]}
      BY <1>3, <2>3 DEF Turn
    <3>2. Repeated(ping[t]).is = ping[t].is /\ Repeated(ping[t]).age = ping[t].age
      BY <1>1, <2>1 DEF Repeated, PingRecord
    <3> HIDE DEF t
    <3>3. \A u \in Pings : ping'[u].age = ping[u].age /\ ping'[u].is = ping[u].is
      BY <1>1, <2>1, <3>1, <3>2
    <3> QED  BY <2>1, <2>3, <3>1, <3>3 DEF t
  <2> QED  BY <2>2, <2>3
<1> QED  BY <1>2, <1>3

\* The list is shorter by the one that is removed.
LEMMA UnlistedShorter ==
  ASSUME pending \in Seq(Pings), Each(pending), NEW k \in DOMAIN pending
  PROVE  Len(Unlisted(pending[k])) = Len(pending) - 1
<1> DEFINE at == {i \in DOMAIN pending : pending[i] = pending[k]}
           n == Len(pending)
           p == [pending EXCEPT ![k] = pending[n]]
<1>1. at = {k} /\ k \in Nat
  BY DEF Each
<1>2. (CHOOSE x \in at : \A y \in at : y <= x) = k
  BY <1>1
<1>3. Unlisted(pending[k]) = SubSeq(p, 1, n - 1)
  BY <1>1, <1>2 DEF Unlisted, Swapped
<1>4. n \in Nat /\ n > 0 /\ \A i \in 1 .. n - 1 : p[i] \in Pings
  OBVIOUS
<1> HIDE DEF p, n
<1>5. Len(SubSeq(p, 1, n - 1)) = IF 1 <= n - 1 THEN n - 1 - 1 + 1 ELSE 0
  BY <1>4, SubSeqProperties
<1>6. Len(SubSeq(p, 1, n - 1)) = n - 1
  BY <1>4, <1>5
<1> QED  BY <1>3, <1>6 DEF n

LEMMA OlderStep ==
  ASSUME PingInv, [PingNext]_pings
  PROVE  GrowsOlder
<1>1. /\ pending \in Seq(Pings) /\ walk \in Nat /\ ping \in [Pings -> PingRecord]
      /\ Each(pending)
  BY DEF PingInv, PingTyped, PendingExact, Each
<1>2. /\ \A t \in Pings : ping[t].is = "waits" /\ ping'[t].is = "waits" =>
           ping'[t].age >= ping[t].age
      /\ \A t \in Pings : ping'[t].is = "failed" => ping[t].is = "failed" \/ ping[t].age > Timeout
  <2>1. \A t \in Pings : ping[t].age \in Int
    BY <1>1 DEF PingRecord
  <2>2. ASSUME NEW u \in Pings, Ping(u) \/ Destroy(u)
        PROVE  \A t \in Pings : ping'[t] = ping[t]
                 \/ (ping'[t].is # "failed" /\ ~(ping[t].is = "waits" /\ ping'[t].is = "waits"))
    <3>1. \A t \in Pings : t # u => ping'[t] = ping[t]
      BY <1>1, <2>2 DEF Ping, Destroy
    <3>2. CASE Ping(u)
      BY <1>1, <3>1, <3>2 DEF Ping
    <3>3. CASE Destroy(u)
      <4>1. ping'[u].is = "no"
        BY <1>1, <3>3 DEF Destroy, PingRecord
      <4> QED  BY <3>1, <4>1
    <3> QED  BY <2>2, <3>2, <3>3
  <2>3. ASSUME Pong
        PROVE  \A t \in Pings : ping'[t] = ping[t] \/ ping'[t].is = "succeeded"
    BY <1>1, <2>3 DEF Pong, PingRecord
  <2>4. ASSUME Idle
        PROVE  \A t \in Pings : ping'[t].is = ping[t].is /\ ping'[t].age >= ping[t].age
    <3> SUFFICES ASSUME NEW t \in Pings
                 PROVE  ping'[t].is = ping[t].is /\ ping'[t].age >= ping[t].age
      OBVIOUS
    <3>1. ping[t] \in PingRecord /\ ping[t].age \in Int
      BY <1>1, <2>1
    <3>2. CASE ping[t].is # "waits"
      <4>1. ping'[t] = ping[t]
        BY <2>4, <3>2 DEF Idle
      <4> QED  BY <3>1, <4>1
    <3>3. CASE ping[t].is = "waits"
      <4>1. PICK a \in {ping[t].age, ping[t].age + 1} :
              \E b : ping'[t] = [ping[t] EXCEPT !.age = a, !.since = b]
        BY <2>4, <3>3 DEF Idle
      <4>2. ping'[t].is = ping[t].is /\ ping'[t].age = a
        BY <3>1, <4>1 DEF PingRecord
      <4> QED  BY <3>1, <4>2
    <3> QED  BY <3>2, <3>3
  <2>5. ASSUME Turn
        PROVE  \A t \in Pings : \/ ping'[t].is = ping[t].is /\ ping'[t].age = ping[t].age
                                \/ ping'[t].is = "failed" /\ ping[t].age > Timeout
    BY <1>1, <2>5, TurnCases DEF PingRecord
  <2>6. ASSUME LosePong \/ UNCHANGED pings PROVE ping' = ping
    BY <2>6 DEF LosePong, pings
  <2> QED  BY <2>1, <2>2, <2>3, <2>4, <2>5, <2>6 DEF PingNext
<1>3. ASSUME Idle, NEW t \in Pings, ping[t].is = "waits"
      PROVE  ping'[t].age > ping[t].age \/ ping[t].age > Timeout
  <2>1. ping[t] \in PingRecord /\ ping[t].age \in Int
    BY <1>1 DEF PingRecord
  <2>2. CASE ~(ping[t].age > Timeout)
    <3>1. PICK b : ping'[t] = [ping[t] EXCEPT !.age = ping[t].age + 1, !.since = b]
      BY <1>3, <2>2 DEF Idle
    <3>2. ping'[t].age = ping[t].age + 1
      BY <2>1, <3>1 DEF PingRecord
    <3> QED  BY <2>1, <3>2
  <2> QED  BY <2>2
<1>4. ASSUME Turn
      PROVE  walk' = Rest \/ Len(pending') - walk' < Len(pending) - walk
  <2>1. Len(pending) \in Nat
    BY <1>1
  <2>2. walk \in DOMAIN pending => Len(Unlisted(pending[walk])) = Len(pending) - 1
    BY <1>1, UnlistedShorter
  <2> QED  BY <1>1, <1>4, <2>1, <2>2, TurnCases
<1> QED  BY <1>2, <1>3, <1>4 DEF GrowsOlder

LEMMA ReachStep ==
  ASSUME PingInv, [PingNext]_pings
  PROVE  ScanReaches
<1> SUFFICES ASSUME NEW f \in DOMAIN pending, FirstExpired(f), walk \in 1 .. f
             PROVE  \/ ping'[pending[f]].is = "failed"
                    \/ FirstExpired(f)' /\ pending' = pending /\ walk' \in walk .. f
  BY DEF ScanReaches
<1>1. /\ pending \in Seq(Pings) /\ walk \in Nat /\ ping \in [Pings -> PingRecord]
      /\ f \in Nat /\ walk # 0 /\ f <= Len(pending) /\ Len(pending) \in Nat
  BY DEF PingInv, PingTyped
<1>2. Turn \/ LosePong \/ UNCHANGED pings
  BY <1>1 DEF PingNext, Ping, Destroy, Pong, Idle, Rest
<1>3. ASSUME pending' = pending, \A t \in Pings : ping'[t].age = ping[t].age
      PROVE  FirstExpired(f)'
  <2>1. \A j \in 1 .. f : pending[j] \in Pings
    BY <1>1
  <2> QED  BY <1>1, <1>3, <2>1 DEF FirstExpired
<1>4. CASE LosePong \/ UNCHANGED pings
  BY <1>1, <1>3, <1>4 DEF LosePong, pings
<1>5. CASE Turn
  <2>1. CASE ping[pending[walk]].age > Timeout
    <3>1. ping[pending[walk]].age \in Int /\ Timeout \in Int
      BY <1>1, PingAssumption DEF PingRecord
    <3>2. walk = f
      BY <1>1, <2>1, <3>1 DEF FirstExpired
    <3> QED  BY <1>1, <1>5, <2>1, <3>2, TurnCases DEF PingRecord
  <2>2. CASE ~(ping[pending[walk]].age > Timeout)
    <3>1. walk # f /\ walk + 1 \in walk .. f
      BY <1>1, <2>2 DEF FirstExpired
    <3> QED  BY <1>1, <1>3, <1>5, <2>2, <3>1, TurnCases
  <2> QED  BY <2>1, <2>2
<1> QED  BY <1>2, <1>4, <1>5

\* A ping grows older with every idle until its timeout, repeated or not; each
\* scan comes to the first one that is past it, and that one fails.
THEOREM PingsGrowOld == PingSpec => [][GrowsOlder /\ ScanReaches]_pings
<1>1. PingInit => PingInv
  BY DEF PingInit, PingInv, PingTyped, PingRecord, PendingExact, WaitsOwned, ToSet, Rest
<1>2. PingInv /\ [PingNext]_pings => GrowsOlder /\ ScanReaches
  BY OlderStep, ReachStep
<1> QED  BY <1>1, <1>2, PingStep, PTL DEF PingSpec

=============================================================================
