--------------------------------- MODULE IgpPing ---------------------------------
(***************************************************************************)
(* The ping transactions of a client (iosfc/ios_igpclient.cpp): a          *)
(* transaction sends a ping, sends it again at an interval, and is         *)
(* complete with the next pong, or without one at its timeout.  The client *)
(* keeps the pending ones in an array, from which one is removed by moving *)
(* the last over it; the program that asked for a transaction owns it.     *)
(*                                                                         *)
(* The server answers every ping; pings and pongs may be lost, and nothing *)
(* tells the pong of one ping from that of another.  The client outlives   *)
(* its transactions: the end of a client is left out.                      *)
(***************************************************************************)
EXTENDS Integers, Sequences, SequencesExt

CONSTANTS
  Pings,        \* transactions
  Timeout,      \* timeoutMs, in ticks
  Interval,     \* interval, in ticks, or 0
  MaxPongs      \* bound: pings and pongs on their way

ASSUME PingAssumption ==
  /\ Timeout \in Nat \ {0} /\ Interval \in Nat /\ MaxPongs \in Nat \ {0}

VARIABLES
  pending,      \* pendingPingTransactions
  ping,         \* transactions: [is, age, since, owned]; is "no", "waits",
                \* "succeeded" or "failed"
  pongs,        \* pings and pongs on their way
  walk          \* place of the loop of idle, or Rest

pings == <<pending, ping, pongs, walk>>

-----------------------------------------------------------------------------
Rest == 0

WithMore == IF pongs < MaxPongs THEN pongs + 1 ELSE pongs

\* removeAt; remove looks for the last place of a transaction first.
Swapped(k) == SubSeq([pending EXCEPT ![k] = pending[Len(pending)]], 1, Len(pending) - 1)

\* Bug: a pending transaction that is destroyed stays in the list.
UnlistedNot(t) == pending

Unlisted(t) ==
  LET at == {k \in DOMAIN pending : pending[k] = t}
  IN IF at = {} THEN pending ELSE Swapped(CHOOSE k \in at : \A j \in at : j <= k)

\* Bug: a ping that is repeated waits from then on.
RepeatedAnew(p) == [p EXCEPT !.since = 0, !.age = 0]

\* A ping that is repeated keeps its timeout.
Repeated(p) == [p EXCEPT !.since = 0]

\* The loop of onMessage over the pending transactions: each turn removes the
\* one at its place, over which the last moves, and goes on to the next place.
Answered == SubSeq(pending, 1, (Len(pending) + 1) \div 2)
Unheard  == Reverse(SubSeq(pending, (Len(pending) + 1) \div 2 + 1, Len(pending)))

-----------------------------------------------------------------------------
PingInit ==
  /\ pending = <<>>
  /\ ping = [t \in Pings |-> [is |-> "no", age |-> 0, since |-> 0, owned |-> FALSE]]
  /\ pongs = 0 /\ walk = Rest

\* ping(): owned says that the transaction still points to its client.
Ping(t) ==
  /\ walk = Rest /\ ping[t].is = "no"
  /\ ping' = [ping EXCEPT ![t] = [is |-> "waits", age |-> 0, since |-> 0, owned |-> TRUE]]
  /\ pending' = Append(pending, t)
  /\ pongs' = WithMore
  /\ UNCHANGED walk

Pong ==
  /\ walk = Rest /\ pongs > 0 /\ pongs' = pongs - 1
  /\ ping' = [t \in Pings |-> IF t \in ToSet(Answered)
                                THEN [ping[t] EXCEPT !.is = "succeeded"] ELSE ping[t]]
  /\ pending' = Unheard
  /\ UNCHANGED walk

LosePong == pongs > 0 /\ pongs' = pongs - 1 /\ UNCHANGED <<pending, ping, walk>>

\* Time passes between two calls of idle, which looks at it once.
Idle ==
  /\ walk = Rest /\ walk' = 1
  /\ ping' = [t \in Pings |->
                IF ping[t].is = "waits"
                  THEN [ping[t] EXCEPT !.age   = IF @ > Timeout THEN @ ELSE @ + 1,
                                       !.since = IF @ > Interval THEN @ ELSE @ + 1]
                  ELSE ping[t]]
  /\ UNCHANGED <<pending, pongs>>

\* One turn of the loop of idle.  A transaction that times out is removed and
\* the one that moves to its place is passed over.
Turn ==
  /\ walk # Rest
  /\ IF walk > Len(pending) THEN walk' = Rest /\ UNCHANGED <<pending, ping, pongs>>
     ELSE LET t == pending[walk] IN
       /\ walk' = walk + 1
       /\ IF ping[t].age > Timeout
            THEN /\ ping' = [ping EXCEPT ![t].is = "failed", ![t].owned = FALSE]
                 /\ pending' = Unlisted(t) /\ UNCHANGED pongs
          ELSE IF Interval # 0 /\ ping[t].since > Interval
            THEN /\ ping' = [ping EXCEPT ![t] = Repeated(@)]
                 /\ pongs' = WithMore /\ UNCHANGED pending
          ELSE UNCHANGED <<pending, ping, pongs>>

\* The program destroys a transaction, pending or not.
Destroy(t) ==
  /\ walk = Rest /\ ping[t].is \in {"waits", "succeeded", "failed"}
  /\ ping' = [ping EXCEPT ![t].is = "no", ![t].owned = FALSE]
  /\ pending' = IF ping[t].owned THEN Unlisted(t) ELSE pending
  /\ UNCHANGED <<pongs, walk>>

PingNext == \/ \E t \in Pings : Ping(t) \/ Destroy(t)
            \/ Pong \/ LosePong \/ Idle \/ Turn

PingSpec == PingInit /\ [][PingNext]_pings
PingFair == PingSpec /\ WF_pings(Idle \/ Turn)

-----------------------------------------------------------------------------
(* Properties.                                                             *)

\* The list holds the transactions that wait, each of them once, and none
\* that was destroyed: every one of it is dereferenced by the next idle.
PendingExact ==
  /\ ToSet(pending) = {t \in Pings : ping[t].is = "waits"}
  /\ \A j, k \in DOMAIN pending : pending[j] = pending[k] => j = k

\* A ping comes to an end, though pongs are lost and pings are repeated.
PingSettles == \A t \in Pings : ping[t].is = "waits" ~> ping[t].is # "waits"
=============================================================================
