------------------------------- MODULE IgpSession -------------------------------
(***************************************************************************)
(* The numbers of the IGP protocol: the server's table of peers            *)
(* (iosfc/ios_igpmessagelistener.cpp), by which it routes, and what each   *)
(* client believes its number to be (iosfc/ios_igpclient.cpp).             *)
(*                                                                         *)
(* Server and clients exchange messages through the message boxes of       *)
(* UdpBox: within a session of a box in order and once, any of them may be *)
(* lost (a reliable one when it is given up).  A session ends, and with it *)
(* what the box knew of the other's serial numbers: then a copy of a       *)
(* message that was delivered before is delivered again.  The server       *)
(* forgets a peer whose session ends.  The table is an array; a peer       *)
(* removed from it is replaced by the last one.                            *)
(***************************************************************************)
EXTENDS Integers, Sequences

CONSTANTS
  Hosts,        \* clients, each with its address
  Services,     \* virtual peers of the server
  Chosen,       \* numbers a client or a service may ask for
  Targets,      \* numbers a client may send to, None for an unnumbered peer
  FirstAuto,    \* firstAutoIgpIdent (32768)
  MaxAuto,      \* bound: the last number given on demand
  MaxSent       \* bound: messages on their way between the server and a client

ASSUME IgpAssumption ==
  /\ Hosts \cap Services = {} /\ Chosen \subseteq Int /\ Targets \subseteq Int
  /\ FirstAuto \in Nat \ {0} /\ MaxAuto \in Nat /\ MaxSent \in Nat \ {0}

VARIABLES
  peers,        \* knownPeers: [who, id]
  nextAuto,     \* currentAutoIgpIdent
  up, down,     \* messages to the server and from it, for each client
  client,       \* what a client knows: [asked, enabled, ident]
  told          \* history: the numbers each client was sent as its own

igp == <<peers, nextAuto, up, down, client, told>>

-----------------------------------------------------------------------------
None   == -1            \* igpID of a peer that has no number
Nobody == 0             \* no peer: an index in the table

Nothing   == [kind |-> "no"]
AutoId    == [kind |-> "auto"]
Assign(i) == [kind |-> "assign", id |-> i]
GetId     == [kind |-> "getid"]
To(i)     == [kind |-> "to", id |-> i]
Alive     == [kind |-> "alive"]
Inform(i) == [kind |-> "inform", id |-> i]
Mail      == [kind |-> "mail"]

\* findPeer and getPeer: the first place of the table that fits.
First(at) == IF at = {} THEN Nobody ELSE CHOOSE k \in at : \A j \in at : k <= j
FindPeer(c)       == First({k \in DOMAIN peers : peers[k].who = c})
GetPeer(table, i) == First({k \in DOMAIN table : table[k].id = i})

\* Bug: the first of the numbers given on demand may be asked for.
ValidAndUniqueUpTo(i, table) ==
  /\ i > 0 /\ i <= FirstAuto
  /\ \A k \in DOMAIN table : table[k].id # i

ValidAndUnique(i, table) ==
  /\ i > 0 /\ i < FirstAuto
  /\ \A k \in DOMAIN table : table[k].id # i

\* The table once c has sent anything but a ping.
Known(c) == IF FindPeer(c) # Nobody THEN peers ELSE Append(peers, [who |-> c, id |-> None])

\* The table when peer k has number i.
Numbered(table, k, i) == [table EXCEPT ![k] = [who |-> @.who, id |-> i]]

\* Bug: the first number that nobody has is given, which someone may have had.
IssuedAgain ==
  LET Free(i) == \A k \in DOMAIN peers : peers[k].id # i
  IN [id |-> CHOOSE i \in FirstAuto .. nextAuto : Free(i) /\ \A j \in FirstAuto .. i - 1 : ~Free(j),
      next |-> nextAuto + 1]

\* getUniqueIGPId.
Issued == [id |-> nextAuto, next |-> nextAuto + 1]

\* AdvancedBuffer::remove.
Without(table, k) ==
  SubSeq([table EXCEPT ![k] = table[Len(table)]], 1, Len(table) - 1)

-----------------------------------------------------------------------------
IgpInit ==
  /\ peers = <<>> /\ nextAuto = FirstAuto
  /\ up = [c \in Hosts |-> <<>>] /\ down = [c \in Hosts |-> <<>>]
  /\ told = [c \in Hosts |-> {}]
  /\ client = [c \in Hosts |-> [asked |-> Nothing, enabled |-> FALSE, ident |-> None]]

SendUp(c, m) == /\ Len(up[c]) < MaxSent
              /\ up' = [up EXCEPT ![c] = Append(@, m)]

\* IGPClient: asks for a number, or for the one it wants.
Identify(c, m) ==
  /\ client[c].asked = Nothing
  /\ SendUp(c, m)
  /\ client' = [client EXCEPT ![c] = [asked |-> m, enabled |-> @.enabled, ident |-> @.ident]]
  /\ UNCHANGED <<peers, nextAuto, down, told>>

\* sendMessage, the keep alive of idle, and a peer that asks for its number.
Say(c, m) ==
  /\ client[c].asked # Nothing
  /\ SendUp(c, m)
  /\ UNCHANGED <<peers, nextAuto, down, client, told>>

\* A service registers a number of its own choice, or the next one; one that
\* cannot have its number does not come to be.
Register(s) ==
  /\ FindPeer(s) = Nobody
  /\ \/ /\ \E i \in Chosen : /\ ValidAndUnique(i, Append(peers, [who |-> s, id |-> None]))
                             /\ peers' = Append(peers, [who |-> s, id |-> i])
        /\ UNCHANGED nextAuto
     \/ /\ nextAuto <= MaxAuto
        /\ peers' = Append(peers, [who |-> s, id |-> Issued.id])
        /\ nextAuto' = Issued.next
  /\ UNCHANGED <<up, down, client, told>>

\* A service is destroyed.
Unregister(s) ==
  /\ FindPeer(s) # Nobody
  /\ peers' = Without(peers, FindPeer(s))
  /\ UNCHANGED <<nextAuto, up, down, client, told>>

-----------------------------------------------------------------------------
\* onMessage of the server, one action for each kind of datagram; m is the
\* first message of c, table the table with c in it and k the place of c.
Take(c, m) == up[c] # <<>> /\ Head(up[c]) = m /\ up' = [up EXCEPT ![c] = Tail(@)]

Place(c) == IF FindPeer(c) # Nobody THEN FindPeer(c) ELSE Len(peers) + 1

Reply(c, m) == Len(down[c]) < MaxSent /\ down' = [down EXCEPT ![c] = Append(@, m)]

\* sendIGPIdent.
Tell(c, i) == Reply(c, Inform(i)) /\ told' = [told EXCEPT ![c] = @ \cup {i}]

ServeAuto(c) ==
  /\ Take(c, AutoId) /\ nextAuto <= MaxAuto
  /\ peers' = Numbered(Known(c), Place(c), Issued.id) /\ nextAuto' = Issued.next
  /\ Tell(c, Issued.id)
  /\ UNCHANGED <<client>>

\* A number that cannot be had is refused without an answer.
ServeAssign(c) ==
  \E i \in Chosen :
    /\ Take(c, Assign(i))
    /\ IF ValidAndUnique(i, Known(c))
         THEN peers' = Numbered(Known(c), Place(c), i) /\ Tell(c, i)
         ELSE peers' = Known(c) /\ UNCHANGED <<down, told>>
    /\ UNCHANGED <<nextAuto, client>>

ServeGetId(c) ==
  /\ Take(c, GetId)
  /\ peers' = Known(c)
  /\ Tell(c, Known(c)[Place(c)].id)
  /\ UNCHANGED <<nextAuto, client>>

\* A message goes to the peer that has the number now, if there is one.
ServeTo(c) ==
  \E m \in {up[c][k] : k \in DOMAIN up[c]} :
    /\ m.kind = "to" /\ Take(c, m)
    /\ peers' = Known(c)
    /\ LET table == Known(c)
           k     == GetPeer(table, m.id)
       IN IF k # Nobody /\ table[k].who \in Hosts
            THEN Reply(table[k].who, Mail)
            ELSE UNCHANGED down
    /\ UNCHANGED <<nextAuto, client, told>>

\* A service sends to a client: no message box lies between it and the server.
ServiceTo(s) ==
  /\ FindPeer(s) # Nobody
  /\ \E i \in Targets :
       LET k == GetPeer(peers, i)
       IN k # Nobody /\ peers[k].who \in Hosts /\ Reply(peers[k].who, Mail)
  /\ UNCHANGED <<peers, nextAuto, up, client, told>>

ServeAlive(c) ==
  /\ Take(c, Alive)
  /\ peers' = Known(c)
  /\ UNCHANGED <<nextAuto, down, client, told>>

\* IGPClient::onMessage.
OnMessage(c) ==
  /\ down[c] # <<>>
  /\ down' = [down EXCEPT ![c] = Tail(@)]
  /\ client' = IF Head(down[c]).kind = "inform"
                 THEN [client EXCEPT ![c] = [asked |-> @.asked, enabled |-> TRUE,
                                             ident |-> Head(down[c]).id]]
                 ELSE client
  /\ UNCHANGED <<peers, nextAuto, up, told>>

-----------------------------------------------------------------------------
\* The faults of the message boxes.
LoseUp(c) ==
  /\ up[c] # <<>> /\ up' = [up EXCEPT ![c] = Tail(@)]
  /\ UNCHANGED <<peers, nextAuto, down, client, told>>

LoseDown(c) ==
  /\ down[c] # <<>> /\ down' = [down EXCEPT ![c] = Tail(@)]
  /\ UNCHANGED <<peers, nextAuto, up, client, told>>

\* onPeerDisconnect, when the session of c ends; what waits for c goes with it,
\* but for the message that is under way.
Disconnect(c) ==
  /\ peers' = IF FindPeer(c) = Nobody THEN peers ELSE Without(peers, FindPeer(c))
  /\ \E kept \in 0 .. 1 : /\ kept <= Len(down[c])
                         /\ down' = [down EXCEPT ![c] = SubSeq(@, 1, kept)]
  /\ UNCHANGED <<nextAuto, up, client, told>>

\* The box of the server has forgotten c: a copy of the message by which c asked
\* for its number, older than all it said since, begins the next session.  What
\* else comes again is like what c says again.
Repeat(c) ==
  /\ client[c].asked # Nothing /\ FindPeer(c) = Nobody
  /\ Len(up[c]) < MaxSent /\ \A k \in DOMAIN up[c] : up[c][k] # client[c].asked
  /\ up' = [up EXCEPT ![c] = <<client[c].asked>> \o @]
  /\ UNCHANGED <<peers, nextAuto, down, client, told>>

\* The box of c has forgotten the server: a number that c was told comes again.
Recall(c) ==
  /\ \E i \in told[c] : client' = [client EXCEPT ![c] = [asked |-> @.asked, enabled |-> TRUE,
                                                        ident |-> i]]
  /\ UNCHANGED <<peers, nextAuto, up, down, told>>

Serve(c) == ServeAuto(c) \/ ServeAssign(c) \/ ServeGetId(c) \/ ServeTo(c) \/ ServeAlive(c)

Client(c) ==
  \/ \E m \in {AutoId} \cup {Assign(i) : i \in Chosen} : Identify(c, m)
  \/ \E m \in {Alive, GetId} \cup {To(i) : i \in Targets} : Say(c, m)
  \/ Serve(c) \/ OnMessage(c)
  \/ LoseUp(c) \/ LoseDown(c) \/ Disconnect(c) \/ Repeat(c) \/ Recall(c)

Service(s) == Register(s) \/ Unregister(s) \/ ServiceTo(s)

IgpNext == (\E c \in Hosts : Client(c)) \/ (\E s \in Services : Service(s))

IgpSpec == IgpInit /\ [][IgpNext]_igp

-----------------------------------------------------------------------------
(* Properties.                                                             *)

\* A number belongs to one peer, whether it was asked for or given, however
\* clients and services come and go: the server routes by the first that fits.
NumbersUnique ==
  \A j, k \in DOMAIN peers : peers[j].id = peers[k].id /\ peers[j].id # None => j = k

\* A number that was given on demand stays its client's: whatever was lost, came
\* late or came again, no other peer is reached by a number that a client takes
\* for its own, and no other client takes it for its own, although the server
\* may have forgotten the client and know it by a later number.
NumberOwned ==
  \A c \in Hosts :
    client[c].enabled /\ client[c].ident >= FirstAuto =>
      /\ \A k \in DOMAIN peers : peers[k].id = client[c].ident => peers[k].who = c
      /\ \A d \in Hosts : client[d].enabled /\ client[d].ident = client[c].ident => d = c
=============================================================================
