------------------------------- MODULE ControlProofs -------------------------------
(***************************************************************************)
(* Proofs about the control server, for every set of clients, script,      *)
(* table of connections, time out and set of parameters: no request is     *)
(* left without its answer on an open connection, no connection outlives   *)
(* the time out at the end of a tick, and the parameters stay legal.  Then *)
(* what progress rests on: a tick is short, each connection is in one      *)
(* place, those that wait move up only, and nothing handled is undone.     *)
(***************************************************************************)
EXTENDS ControlServer, FiniteSetTheorems, SequenceTheorems, TLAPS

-----------------------------------------------------------------------------
(* The inductive invariant.                                                *)

\* A connection: pieces are got once sent, from the script, and requests are
\* handled once got, each with its answer.
LinesFine ==
  /\ line \in [Clients -> Lines]
  /\ \A c \in Clients : /\ line[c].answered = line[c].handled
                        /\ line[c].got <= line[c].sent
                        /\ line[c].sent <= 2 * Len(Script[c])

\* The table, and what waits to enter it.
TableTyped ==
  /\ backlog \in Seq(Clients)
  /\ slot \in [Slots -> Clients \cup {NoClient}]
  /\ age \in [Slots -> Nat]

\* Where tick() is; while it handles requests the slot is taken.
PlaceFine ==
  /\ at \in [phase : {"frame", "accept", "serve", "handle"}, slot : 0 .. MaxConns, done : Int]
  /\ at.phase = "frame" => at = Frame
  /\ at.phase \in {"serve", "handle"} => at.slot \in Slots
  /\ at.phase = "handle" => slot[at.slot] # NoClient

\* The slots that tick() is done with, or has found young enough.
Examined ==
  {i \in Slots : \/ at.phase = "frame"
                 \/ at.phase = "serve" /\ i < at.slot
                 \/ at.phase = "handle" /\ i <= at.slot}

Young == \A i \in Examined : slot[i] # NoClient => age[i] <= IdleTimeout

CtlInv == LinesFine /\ TableTyped /\ PlaceFine /\ Young /\ ValuesLegal

-----------------------------------------------------------------------------
(* What the steps share.                                                   *)

LEMMA ServingPlace ==
  ASSUME NEW i \in Slots
  PROVE  /\ Serving(i + 1) \in [phase : {"frame", "serve"}, slot : 0 .. MaxConns, done : Int]
         /\ Serving(i + 1).phase = "frame" => Serving(i + 1) = Frame
         /\ Serving(i + 1).phase = "serve" => Serving(i + 1).slot = i + 1 /\ i + 1 \in Slots
BY TableAssumption DEF Serving, Frame, Slots

LEMMA FirstPlace ==
  Serving(1) = [phase |-> "serve", slot |-> 1, done |-> 0] /\ 1 \in Slots
BY TableAssumption DEF Serving, Slots

\* A connection is closed, at the slot tick() is at.
LEMMA CloseStep ==
  ASSUME CtlInv, at.phase \in {"serve", "handle"}, Close(at.slot), UNCHANGED backlog
  PROVE  LinesFine' /\ TableTyped' /\ PlaceFine' /\ Young'
<1> DEFINE i == at.slot
<1>1. i \in Slots /\ at' = Serving(i + 1)
  BY DEF CtlInv, PlaceFine, Close
<1>2. /\ line' = [line EXCEPT ![slot[i]] = NewLine] /\ slot' = [slot EXCEPT ![i] = NoClient]
      /\ age' = [age EXCEPT ![i] = 0]
  BY DEF Close
<1>3. LinesFine'
  <2>1. NewLine \in Lines /\ NewLine.answered = NewLine.handled /\ NewLine.got = 0
        /\ NewLine.sent = 0
    BY DEF NewLine, Lines
  <2>2. \A c \in Clients : Len(Script[c]) \in Nat
    BY ClientAssumption
  <2>3. line' \in [Clients -> Lines]
    BY <1>2, <2>1 DEF CtlInv, LinesFine
  <2>4. ASSUME NEW c \in Clients PROVE line'[c] \in {line[c], NewLine}
    BY <1>2 DEF CtlInv, LinesFine
  <2>5. ASSUME NEW c \in Clients
        PROVE  /\ line'[c].answered = line'[c].handled
               /\ line'[c].got <= line'[c].sent
               /\ line'[c].sent <= 2 * Len(Script[c])
    BY <2>1, <2>2, <2>4 DEF CtlInv, LinesFine
  <2> QED
    BY <2>3, <2>5 DEF LinesFine
<1>4. TableTyped'
  BY <1>1, <1>2 DEF CtlInv, TableTyped
<1>5. PlaceFine'
  BY <1>1, ServingPlace DEF PlaceFine
<1>6. Young'
  <2> SUFFICES ASSUME NEW j \in Slots, j \in Examined', slot'[j] # NoClient
               PROVE  age'[j] <= IdleTimeout
    BY DEF Young, Examined
  <2>1. j # i /\ slot[j] # NoClient /\ age'[j] = age[j]
    BY <1>1, <1>2 DEF CtlInv, TableTyped
  <2>2. i + 1 > MaxConns \/ j < i + 1
    BY <1>1, ServingPlace DEF Examined, Serving
  <2>3. j < i
    BY <1>1, <2>1, <2>2, TableAssumption DEF Slots
  <2>4. j \in Examined
    BY <1>1, <2>3, TableAssumption DEF CtlInv, PlaceFine, Examined, Slots
  <2> QED
    BY <2>1, <2>4 DEF CtlInv, Young
<1> QED
  BY <1>3, <1>4, <1>5, <1>6

\* tick() goes on to the next slot.
LEMMA NextSlotStep ==
  ASSUME CtlInv, at.phase \in {"serve", "handle"}, at' = Serving(at.slot + 1),
         UNCHANGED <<line, backlog, slot, age>>,
         at.phase = "serve" => slot[at.slot] = NoClient
  PROVE  LinesFine' /\ TableTyped' /\ PlaceFine' /\ Young'
<1>1. at.slot \in Slots
  BY DEF CtlInv, PlaceFine
<1>2. LinesFine' /\ TableTyped'
  BY DEF CtlInv, LinesFine, TableTyped
<1>3. PlaceFine'
  BY <1>1, ServingPlace DEF PlaceFine
<1>4. Young'
  <2> SUFFICES ASSUME NEW j \in Slots, j \in Examined', slot[j] # NoClient
               PROVE  age[j] <= IdleTimeout
    BY DEF Young, Examined
  <2>1. at.slot + 1 > MaxConns \/ j < at.slot + 1
    BY <1>1, ServingPlace DEF Examined, Serving
  <2>2. j <= at.slot
    BY <1>1, <2>1, TableAssumption DEF Slots
  <2>3. j \in Examined
    BY <1>1, <2>2, TableAssumption DEF Examined, Slots
  <2> QED
    BY <2>3 DEF CtlInv, Young
<1> QED
  BY <1>2, <1>3, <1>4

-----------------------------------------------------------------------------
(* The clients.                                                            *)

\* A line that changes leaves the place of tick() and the table alone.
LEMMA PlaceKept ==
  ASSUME CtlInv, UNCHANGED <<slot, age, at>>
  PROVE  PlaceFine' /\ Young'
BY DEF CtlInv, PlaceFine, Young, Examined

LEMMA ValuesKept ==
  ASSUME CtlInv, UNCHANGED values
  PROVE  ValuesLegal'
BY DEF CtlInv, ValuesLegal

LEMMA ConnectStep ==
  ASSUME CtlInv, NEW c \in Clients, Connect(c)
  PROVE  CtlInv'
<1>1. LinesFine' /\ TableTyped'
  BY DEF CtlInv, LinesFine, TableTyped, Connect
<1> QED
  BY <1>1, PlaceKept, ValuesKept DEF CtlInv, Connect

\* One field of one line changes.
LEMMA LineStep ==
  ASSUME LinesFine, NEW c \in Clients, NEW l \in Lines,
         line' = [line EXCEPT ![c] = l],
         l.answered = l.handled, l.got <= l.sent, l.sent <= 2 * Len(Script[c])
  PROVE  LinesFine'
<1>1. line' \in [Clients -> Lines]
  BY DEF LinesFine
<1>2. ASSUME NEW d \in Clients
      PROVE  /\ line'[d].answered = line'[d].handled
             /\ line'[d].got <= line'[d].sent
             /\ line'[d].sent <= 2 * Len(Script[d])
  <2>1. CASE d = c
    BY <2>1 DEF LinesFine
  <2>2. CASE d # c
    BY <2>2 DEF LinesFine
  <2> QED
    BY <2>1, <2>2
<1> QED
  BY <1>1, <1>2 DEF LinesFine

LEMMA SendStep ==
  ASSUME CtlInv, NEW c \in Clients, SendPiece(c)
  PROVE  CtlInv'
<1> DEFINE l == [line[c] EXCEPT !.sent = @ + 1]
<1>1. line[c] \in Lines /\ Len(Script[c]) \in Nat
  BY ClientAssumption DEF CtlInv, LinesFine
<1>2. line' = [line EXCEPT ![c] = l] /\ line[c].sent < 2 * Len(Script[c])
  BY DEF SendPiece
<1>3. l \in Lines /\ l.answered = line[c].answered /\ l.handled = line[c].handled
      /\ l.got = line[c].got /\ l.sent = line[c].sent + 1
  BY <1>1 DEF Lines
<1>4. line[c].sent \in Nat /\ line[c].got \in Nat
  BY <1>1 DEF Lines
<1>5. l.answered = l.handled /\ l.got <= l.sent /\ l.sent <= 2 * Len(Script[c])
  BY <1>1, <1>2, <1>3, <1>4 DEF CtlInv, LinesFine
<1> HIDE DEF l
<1>6. LinesFine'
  BY <1>2, <1>3, <1>5, LineStep DEF CtlInv
<1>7. TableTyped'
  BY DEF CtlInv, TableTyped, SendPiece
<1> QED
  BY <1>6, <1>7, PlaceKept, ValuesKept DEF CtlInv, SendPiece

LEMMA FinishStep ==
  ASSUME CtlInv, NEW c \in Clients, Finish(c)
  PROVE  CtlInv'
<1> DEFINE l == [line[c] EXCEPT !.eof = TRUE]
<1>1. line[c] \in Lines
  BY DEF CtlInv, LinesFine
<1>2. line' = [line EXCEPT ![c] = l]
  BY DEF Finish
<1>3. l \in Lines /\ l.answered = line[c].answered /\ l.handled = line[c].handled
      /\ l.got = line[c].got /\ l.sent = line[c].sent
  BY <1>1 DEF Lines
<1> HIDE DEF l
<1>6. LinesFine'
  BY <1>2, <1>3, LineStep DEF CtlInv, LinesFine
<1>7. TableTyped'
  BY DEF CtlInv, TableTyped, Finish
<1> QED
  BY <1>6, <1>7, PlaceKept, ValuesKept DEF CtlInv, Finish

-----------------------------------------------------------------------------
(* tick().                                                                 *)

LEMMA BeginStep ==
  ASSUME CtlInv, NEW e \in Elapses, BeginTick(e)
  PROVE  CtlInv'
<1>1. LinesFine'
  BY DEF CtlInv, LinesFine, BeginTick
<1>2. TableTyped'
  BY TableAssumption DEF CtlInv, TableTyped, BeginTick
<1>3. PlaceFine' /\ Young'
  BY TableAssumption DEF CtlInv, PlaceFine, Young, Examined, BeginTick, Accepting
<1> QED
  BY <1>1, <1>2, <1>3, ValuesKept DEF CtlInv, BeginTick

LEMMA AcceptStep ==
  ASSUME CtlInv, Accept
  PROVE  CtlInv'
<1>1. at = Accepting /\ backlog # <<>> /\ UNCHANGED <<line, at, values>>
  BY DEF Accept
<1>2. Head(backlog) \in Clients /\ Tail(backlog) \in Seq(Clients)
  BY <1>1 DEF CtlInv, TableTyped
<1>3. TableTyped'
  BY <1>2 DEF CtlInv, TableTyped, Accept, FreeSlots
<1>4. PlaceFine' /\ Young'
  BY <1>1 DEF CtlInv, PlaceFine, Young, Examined, Accepting
<1>5. LinesFine'
  BY <1>1 DEF CtlInv, LinesFine
<1> QED
  BY <1>1, <1>3, <1>4, <1>5, ValuesKept DEF CtlInv

\* Nothing is examined before the first slot.
LEMMA FirstSlotStep ==
  ASSUME at' = Serving(1)
  PROVE  PlaceFine' /\ Young'
BY FirstPlace, TableAssumption DEF PlaceFine, Young, Examined, Slots

LEMMA RefuseStep ==
  ASSUME CtlInv, Refuse
  PROVE  CtlInv'
<1>1. Head(backlog) \in Clients /\ Tail(backlog) \in Seq(Clients)
  BY DEF CtlInv, TableTyped, Refuse
<1>2. TableTyped'
  BY <1>1 DEF CtlInv, TableTyped, Refuse
<1>3. NewLine \in Lines /\ NewLine.answered = NewLine.handled
      /\ NewLine.got = 0 /\ NewLine.sent = 0
  BY DEF NewLine, Lines
<1>4. Len(Script[Head(backlog)]) \in Nat
  BY <1>1, ClientAssumption
<1>5. line' = [line EXCEPT ![Head(backlog)] = NewLine] /\ LinesFine
  BY DEF CtlInv, Refuse
<1>6. NewLine.got <= NewLine.sent /\ NewLine.sent <= 2 * Len(Script[Head(backlog)])
  BY <1>3, <1>4
<1>7. LinesFine'
  BY ONLY <1>1, <1>3, <1>5, <1>6, LineStep
<1> QED
  BY <1>2, <1>7, FirstSlotStep, ValuesKept DEF CtlInv, Refuse

LEMMA AcceptNoneStep ==
  ASSUME CtlInv, AcceptNone
  PROVE  CtlInv'
<1>1. LinesFine' /\ TableTyped'
  BY DEF CtlInv, LinesFine, TableTyped, AcceptNone
<1> QED
  BY <1>1, FirstSlotStep, ValuesKept DEF CtlInv, AcceptNone

LEMMA ReadStep ==
  ASSUME CtlInv, Read
  PROVE  CtlInv'
<1> DEFINE i == at.slot
           c == slot[i]
           l == [line[c] EXCEPT !.got = line[c].sent]
<1>1. /\ at.phase = "serve" /\ i \in Slots /\ c \in Clients /\ ~TooOld(i)
      /\ UNCHANGED <<backlog, values>>
  BY DEF CtlInv, PlaceFine, TableTyped, Read
<1>2. CASE Buffered(c) > MaxIn \/ line[c].eof
  BY <1>1, <1>2, CloseStep, ValuesKept DEF CtlInv, Read
<1>3. CASE ~(Buffered(c) > MaxIn \/ line[c].eof)
  <2>1. /\ line' = [line EXCEPT ![c] = l]
        /\ age' = [age EXCEPT ![i] = IF line[c].sent > line[c].got THEN 0 ELSE @]
        /\ at' = [at EXCEPT !.phase = "handle"] /\ UNCHANGED slot
    BY <1>1, <1>3 DEF Read
  <2>2. line[c] \in Lines
    BY <1>1 DEF CtlInv, LinesFine
  <2>3. l \in Lines /\ l.answered = line[c].answered /\ l.handled = line[c].handled
        /\ l.got = line[c].sent /\ l.sent = line[c].sent /\ line[c].sent \in Nat
    BY <2>2 DEF Lines
  <2> HIDE DEF l
  <2>4. LinesFine'
    BY <1>1, <2>1, <2>3, LineStep DEF CtlInv, LinesFine
  <2>5. TableTyped'
    BY <1>1, <2>1 DEF CtlInv, TableTyped
  <2>6. PlaceFine'
    BY <1>1, <2>1, ClientAssumption DEF CtlInv, PlaceFine
  <2>7. Young'
    <3> SUFFICES ASSUME NEW j \in Slots, j \in Examined', slot[j] # NoClient
                 PROVE  age'[j] <= IdleTimeout
      BY <2>1 DEF Young, Examined
    <3>1. j <= i
      BY <2>1, <1>1 DEF Examined, CtlInv, PlaceFine
    <3>2. age[j] <= IdleTimeout
      BY <1>1, <3>1, TableAssumption
         DEF CtlInv, Young, Examined, TooOld, TableTyped, Slots
    <3> QED
      BY <1>1, <2>1, <3>2, TableAssumption DEF CtlInv, TableTyped
  <2> QED
    BY <1>1, <2>4, <2>5, <2>6, <2>7, ValuesKept DEF CtlInv
<1> QED
  BY <1>2, <1>3

\* What a write leaves is legal: in the range of the parameter, and its lowest
\* value when it is an action parameter.
LEMMA WrittenLegal ==
  ASSUME NEW p \in ParamKinds, NEW v \in Int, p.min <= p.max,
         p.type = "bool" => p.min = 0 /\ p.max = 1,
         p.trigger => p.type = "bool"
  PROVE  Written(p, v) \in p.min .. p.max /\ (p.trigger => Written(p, v) = p.min)
<1>1. p.min \in Int /\ p.max \in Int
  BY DEF ParamKinds
<1> QED
  BY <1>1 DEF Written, Clamp

LEMMA AppliedLegal ==
  ASSUME ValuesLegal, NEW r \in Requests, values' = Applied(r)
  PROVE  ValuesLegal'
<1>1. CASE ~(Status(r) = 200 /\ r.method = "PUT")
  BY <1>1 DEF Applied, ValuesLegal
<1>2. CASE Status(r) = 200 /\ r.method = "PUT"
  <2>1. r.param \in DOMAIN Param /\ Param[r.param].rw
    BY <1>2 DEF Status, WriteStatus
  <2>2. r.value \in Int
    BY DEF Requests
  <2> DEFINE w == Written(Param[r.param], r.value)
  <2>3. /\ w \in Param[r.param].min .. Param[r.param].max
        /\ Param[r.param].trigger => w = Param[r.param].min
    BY <2>1, <2>2, WrittenLegal, ParamAssumption
  <2>4. values' = [values EXCEPT ![r.param] = w]
    BY <1>2 DEF Applied
  <2> HIDE DEF w
  <2>5. ASSUME NEW p \in DOMAIN Param
        PROVE  values'[p] = values[p] \/ (p = r.param /\ values'[p] = w)
    BY <2>4
  <2> QED
    BY <2>1, <2>3, <2>5 DEF ValuesLegal
<1> QED
  BY <1>1, <1>2

\* A request that has been got is one of the script.
LEMMA WithinScript ==
  ASSUME NEW h \in Nat, NEW g \in Nat, NEW s \in Nat, NEW n \in Nat,
         g >= 2 * (h + 1), g <= s, s <= 2 * n
  PROVE  h + 1 \in 1 .. n
OBVIOUS

LEMMA HandleStep ==
  ASSUME CtlInv, NEW ok \in BOOLEAN, Handle(ok)
  PROVE  CtlInv'
<1> DEFINE i == at.slot
           c == slot[i]
           r == Script[c][line[c].handled + 1]
           l == [line[c] EXCEPT !.handled = @ + 1, !.answered = @ + 1]
<1>1. at.phase = "handle" /\ i \in Slots /\ c \in Clients /\ More(c) /\ UNCHANGED backlog
  BY DEF CtlInv, PlaceFine, TableTyped, Handle
<1>2. line[c] \in Lines /\ line[c].handled \in Nat /\ line[c].got \in Nat /\ line[c].sent \in Nat
  BY <1>1 DEF CtlInv, LinesFine, Lines
<1>3. r \in Requests
  <2>1. Script[c] \in Seq(Requests) /\ Len(Script[c]) \in Nat
    BY <1>1, ClientAssumption
  <2>2. line[c].got >= 2 * (line[c].handled + 1)
    BY <1>1 DEF More
  <2>3. line[c].handled + 1 \in 1 .. Len(Script[c])
    <3>1. line[c].got <= line[c].sent /\ line[c].sent <= 2 * Len(Script[c])
      BY <1>1 DEF CtlInv, LinesFine
    <3> QED
      BY <1>2, <2>1, <2>2, <3>1, WithinScript
  <2> QED
    BY <2>1, <2>3
<1>4. ValuesLegal'
  <2>1. UNCHANGED values \/ values' = Applied(r)
    BY DEF Handle
  <2> HIDE DEF r
  <2> QED
    BY <1>3, <2>1, AppliedLegal, ValuesKept DEF CtlInv
<1>5. CASE r.body = "huge" \/ ~Kept(r, ok)
  <2>1. Close(i)
    BY <1>5 DEF Handle
  <2> QED
    BY <1>1, <1>4, <2>1, CloseStep DEF CtlInv
<1>6. CASE r.body # "huge" /\ Kept(r, ok)
  <2>1. ok = TRUE
    BY <1>6 DEF Kept
  <2>2. /\ line' = [line EXCEPT ![c] = l]
        /\ at' = [at EXCEPT !.done = @ + 1] /\ UNCHANGED <<slot, age>>
    <3>1. line' = [line EXCEPT ![c].handled = @ + 1, ![c].answered = IF ok THEN @ + 1 ELSE @]
          /\ at' = [at EXCEPT !.done = @ + 1] /\ UNCHANGED <<slot, age>>
      BY <1>6 DEF Handle
    <3> QED
      BY <2>1, <3>1, <1>1 DEF CtlInv, LinesFine, Lines
  <2>3. l \in Lines /\ l.answered = line[c].answered + 1 /\ l.handled = line[c].handled + 1
        /\ l.got = line[c].got /\ l.sent = line[c].sent
    <3> DEFINE k == [line[c] EXCEPT !.handled = @ + 1]
    <3>1. k \in Lines /\ k.handled = line[c].handled + 1 /\ k.answered = line[c].answered
          /\ k.got = line[c].got /\ k.sent = line[c].sent
      BY <1>2 DEF Lines
    <3>2. l = [k EXCEPT !.answered = @ + 1]
      BY <1>2 DEF Lines
    <3> HIDE DEF k, l
    <3> QED
      BY <3>1, <3>2 DEF Lines
  <2> HIDE DEF l
  <2>4. LinesFine'
    BY <1>1, <2>2, <2>3, LineStep DEF CtlInv, LinesFine
  <2>5. TableTyped'
    BY <1>1, <2>2 DEF CtlInv, TableTyped
  <2>6. PlaceFine' /\ Young'
    BY <1>1, <2>2 DEF CtlInv, PlaceFine, Young, Examined
  <2> QED
    BY <1>4, <2>4, <2>5, <2>6 DEF CtlInv
<1> QED
  BY <1>5, <1>6

LEMMA ServerStep ==
  ASSUME CtlInv, Server
  PROVE  CtlInv'
<1>1. CASE Skip
  BY <1>1, NextSlotStep, ValuesKept DEF Skip, CtlInv
<1>2. CASE Reap
  BY <1>2, CloseStep, ValuesKept DEF Reap, CtlInv
<1>3. CASE HandleDone
  BY <1>3, NextSlotStep, ValuesKept DEF HandleDone, CtlInv
<1> QED
  BY <1>1, <1>2, <1>3, BeginStep, AcceptStep, RefuseStep, AcceptNoneStep, ReadStep, HandleStep
     DEF Server

LEMMA CtlStep == CtlInv /\ [CtlNext]_cvars => CtlInv'
<1> SUFFICES ASSUME CtlInv, [CtlNext]_cvars PROVE CtlInv'
  OBVIOUS
<1>1. CASE Client
  BY <1>1, ConnectStep, SendStep, FinishStep DEF Client
<1>2. CASE Server
  BY <1>2, ServerStep
<1>3. CASE UNCHANGED cvars
  BY <1>3 DEF cvars, CtlInv, LinesFine, TableTyped, PlaceFine, Young, Examined, ValuesLegal
<1> QED
  BY <1>1, <1>2, <1>3 DEF CtlNext

LEMMA CtlStart == CtlInit => CtlInv
<1> SUFFICES ASSUME CtlInit PROVE CtlInv
  OBVIOUS
<1>1. LinesFine
  <2>1. NewLine \in Lines /\ NewLine.answered = NewLine.handled
        /\ NewLine.got = 0 /\ NewLine.sent = 0
    BY DEF NewLine, Lines
  <2>2. \A c \in Clients : Len(Script[c]) \in Nat
    BY ClientAssumption
  <2> QED
    BY <2>1, <2>2 DEF CtlInit, LinesFine
<1>2. TableTyped
  BY DEF CtlInit, TableTyped
<1>3. PlaceFine /\ Young
  BY TableAssumption DEF CtlInit, PlaceFine, Young, Examined, Frame
<1>4. ValuesLegal
  BY ParamAssumption DEF CtlInit, ValuesLegal, ParamKinds
<1> QED
  BY <1>1, <1>2, <1>3, <1>4 DEF CtlInv

-----------------------------------------------------------------------------
(* The theorems.                                                           *)

\* Every request applied on a connection that is open has been answered,
\* whichever answers the sockets refuse.
THEOREM EveryRequestAnswered == CtlSpec => []NothingUnanswered
<1>1. CtlInv => NothingUnanswered
  BY DEF CtlInv, LinesFine, NothingUnanswered
<1> QED
  BY <1>1, CtlStart, CtlStep, PTL DEF CtlSpec

\* No connection outlives the time out at the end of a tick, however late the
\* tick comes.
THEOREM IdleAreEvicted == CtlSpec => []IdleEvicted
<1>1. CtlInv => IdleEvicted
  BY DEF CtlInv, Young, Examined, IdleEvicted, Frame
<1> QED
  BY <1>1, CtlStart, CtlStep, PTL DEF CtlSpec

\* Parameters stay in their range, feedback parameters as they were, action
\* parameters released, whatever is written.
THEOREM ValuesStayLegal == CtlSpec => []ValuesLegal
<1>1. CtlInv => ValuesLegal
  BY DEF CtlInv
<1> QED
  BY <1>1, CtlStart, CtlStep, PTL DEF CtlSpec

-----------------------------------------------------------------------------
(* A tick is short.                                                        *)

\* The steps tick() may still take once it is done with slot i: for each of the
\* others a look, a read, and the requests.
Rest(i) == (MaxConns - i) * (PerTick + 2)

\* The steps a tick may still take, from where it is.
Work ==
  IF at.phase = "frame" THEN 0
  ELSE IF at.phase = "accept" THEN Cardinality(FreeSlots) + 1 + Rest(0)
  ELSE IF at.phase = "serve" THEN Rest(at.slot) + PerTick + 2
  ELSE Rest(at.slot) + (PerTick - at.done) + 1

\* Each step of the server shortens the tick, none of a client prolongs it.
TickShortens ==
  /\ Client => Work' = Work
  /\ Server /\ at # Frame => Work' < Work

\* Requests are counted from the first one of each slot.
DoneFine ==
  /\ at.phase = "accept" => at = Accepting
  /\ at.phase = "serve" => at.done = 0
  /\ at.phase = "handle" => at.done \in 0 .. PerTick

LEMMA RestSteps ==
  /\ \A i \in 0 .. MaxConns : Rest(i) \in Nat /\ Rest(i) <= Rest(0)
  /\ \A i \in Slots : i < MaxConns => Rest(i) = Rest(i + 1) + PerTick + 2
  /\ Rest(MaxConns) = 0
  /\ Rest(0) = MaxConns * (PerTick + 2)
  /\ Rest(0) = Rest(1) + PerTick + 2
<1> DEFINE w == PerTick + 2
<1>1. w \in Nat /\ MaxConns \in Nat \ {0} /\ PerTick \in Nat
  BY TableAssumption
<1>2. \A i : Rest(i) = (MaxConns - i) * w
  BY DEF Rest
<1> HIDE DEF w
<1>3. ASSUME NEW i \in 0 .. MaxConns PROVE Rest(i) \in Nat /\ Rest(i) <= Rest(0)
  <2>1. MaxConns - i \in Nat /\ Rest(i) = (MaxConns - i) * w
    BY <1>1, <1>2
  <2>2. (MaxConns - i) * w \in Nat /\ i * w \in Nat
    BY <1>1, <2>1
  <2>3. Rest(0) = (MaxConns - i) * w + i * w
    BY <1>1, <1>2
  <2> QED
    BY <2>1, <2>2, <2>3
<1>4. ASSUME NEW i \in 0 .. MaxConns - 1 PROVE Rest(i) = Rest(i + 1) + w
  BY <1>1, <1>2
<1>5. \A i \in Slots : i < MaxConns => Rest(i) = Rest(i + 1) + PerTick + 2
  <2>1. \A i \in Slots : i < MaxConns => i \in 0 .. MaxConns - 1
    BY <1>1 DEF Slots
  <2>2. \A i \in 0 .. MaxConns - 1 : Rest(i) = Rest(i + 1) + w /\ Rest(i + 1) \in Nat
    BY <1>1, <1>3, <1>4
  <2> QED
    BY <1>1, <2>1, <2>2 DEF w
<1>6. Rest(MaxConns) = 0
  BY <1>1, <1>2
<1>7. Rest(0) = MaxConns * (PerTick + 2)
  BY <1>1, <1>2 DEF w
<1>8. Rest(0) = Rest(1) + PerTick + 2
  <2>1. Rest(0) = Rest(1) + w /\ Rest(1) \in Nat
    BY <1>1, <1>3, <1>4
  <2> QED
    BY <1>1, <2>1 DEF w
<1> QED
  BY <1>3, <1>5, <1>6, <1>7, <1>8

\* Once tick() leaves slot i, or begins with the first one.
LEMMA NextWork ==
  /\ \A i \in Slots : at' = Serving(i + 1) => Work' = Rest(i) /\ DoneFine'
  /\ at' = Serving(1) => Work' = Rest(0) /\ DoneFine'
<1>1. MaxConns \in Nat \ {0} /\ PerTick \in Nat
  BY TableAssumption
<1>2. ASSUME NEW i \in Slots, at' = Serving(i + 1) PROVE Work' = Rest(i) /\ DoneFine'
  <2>1. CASE i = MaxConns
    <3>1. at' = Frame
      BY <1>1, <1>2, <2>1 DEF Serving
    <3> QED
      BY <2>1, <3>1, RestSteps DEF Work, DoneFine, Frame
  <2>2. CASE i # MaxConns
    <3>1. i < MaxConns /\ at' = [phase |-> "serve", slot |-> i + 1, done |-> 0]
      BY <1>1, <1>2, <2>2 DEF Serving, Slots
    <3>2. Work' = Rest(i + 1) + PerTick + 2 /\ DoneFine'
      BY <3>1 DEF Work, DoneFine
    <3> QED
      BY <3>1, <3>2, RestSteps
  <2> QED
    BY <2>1, <2>2
<1>3. ASSUME at' = Serving(1) PROVE Work' = Rest(0) /\ DoneFine'
  <2>1. at' = [phase |-> "serve", slot |-> 1, done |-> 0]
    BY <1>3, FirstPlace
  <2>2. Work' = Rest(1) + PerTick + 2 /\ DoneFine'
    BY <2>1 DEF Work, DoneFine
  <2> QED
    BY <2>2, RestSteps
<1> QED
  BY <1>2, <1>3

LEMMA FreeSlotsFinite ==
  /\ IsFiniteSet(FreeSlots)
  /\ Cardinality(FreeSlots) \in 0 .. MaxConns
<1>1. IsFiniteSet(Slots) /\ Cardinality(Slots) = MaxConns
  BY FS_Interval, TableAssumption DEF Slots
<1>2. FreeSlots \in SUBSET Slots
  BY DEF FreeSlots
<1>3. IsFiniteSet(FreeSlots) /\ Cardinality(FreeSlots) <= MaxConns
  BY <1>1, <1>2, FS_Subset
<1> QED
  BY <1>3, FS_CardinalityType, TableAssumption

\* A tick that has begun has work left, and never more than this.
LEMMA WorkBounded ==
  ASSUME CtlInv, DoneFine
  PROVE  /\ Work \in 0 .. MaxConns * (PerTick + 3) + 1
         /\ Work = 0 <=> at = Frame
<1>1. /\ MaxConns \in Nat \ {0} /\ PerTick \in Nat \ {0}
      /\ Cardinality(FreeSlots) \in 0 .. MaxConns
      /\ at.phase \in {"frame", "accept", "serve", "handle"} /\ at.slot \in 0 .. MaxConns
      /\ at.phase = "frame" <=> at = Frame
  BY TableAssumption, FreeSlotsFinite DEF CtlInv, PlaceFine, Frame
<1>2. MaxConns * (PerTick + 3) + 1 = Rest(0) + MaxConns + 1 /\ Rest(0) \in Nat
  <2> DEFINE m == MaxConns * (PerTick + 2)
  <2>1. MaxConns * (PerTick + 3) = m + MaxConns /\ m \in Nat /\ m = Rest(0)
    BY <1>1, RestSteps
  <2> HIDE DEF m
  <2> QED
    BY <1>1, <2>1
<1>3. at.phase \in {"serve", "handle"}
      => Rest(at.slot) \in Nat /\ Rest(at.slot) + PerTick + 2 <= Rest(0)
  <2> SUFFICES ASSUME at.phase \in {"serve", "handle"}
               PROVE  Rest(at.slot) \in Nat /\ Rest(at.slot) + PerTick + 2 <= Rest(0)
    OBVIOUS
  <2> DEFINE i == at.slot
  <2>1. i \in 1 .. MaxConns
    BY DEF CtlInv, PlaceFine, Slots
  <2> HIDE DEF i
  <2>2. Rest(i) \in Nat /\ Rest(i - 1) \in Nat /\ Rest(i - 1) <= Rest(0)
    BY <1>1, <2>1, RestSteps
  <2>3. Rest(i - 1) = Rest(i) + PerTick + 2
    <3>1. CASE i = 1
      BY <3>1, RestSteps
    <3>2. CASE i # 1
      <4> DEFINE j == i - 1
      <4>1. j \in Slots /\ j < MaxConns /\ j + 1 = i
        BY <1>1, <2>1, <3>2 DEF Slots
      <4> HIDE DEF j
      <4>2. Rest(j) = Rest(j + 1) + PerTick + 2
        BY <4>1, RestSteps
      <4> QED
        BY <4>1, <4>2 DEF j
    <3> QED
      BY <3>1, <3>2
  <2> QED
    BY <1>1, <2>2, <2>3 DEF i
<1>4. CASE at.phase = "frame"
  BY <1>1, <1>2, <1>4 DEF Work
<1>5. CASE at.phase = "accept"
  <2>1. Work = Cardinality(FreeSlots) + 1 + Rest(0)
    BY <1>5 DEF Work
  <2> QED
    BY <1>1, <1>2, <1>5, <2>1
<1>6. CASE at.phase = "serve"
  <2>1. Work = Rest(at.slot) + PerTick + 2
    BY <1>6 DEF Work
  <2> QED
    BY <1>1, <1>2, <1>3, <1>6, <2>1
<1>7. CASE at.phase = "handle"
  <2>1. Work = Rest(at.slot) + (PerTick - at.done) + 1 /\ at.done \in 0 .. PerTick
    BY <1>7 DEF Work, DoneFine
  <2> QED
    BY <1>1, <1>2, <1>3, <1>7, <2>1
<1> QED
  BY <1>1, <1>4, <1>5, <1>6, <1>7

\* The step of each part of the tick.
LEMMA WorkStep ==
  ASSUME CtlInv, DoneFine, [CtlNext]_cvars
  PROVE  DoneFine' /\ [TickShortens]_cvars
<1>0. /\ MaxConns \in Nat \ {0} /\ PerTick \in Nat \ {0}
      /\ IsFiniteSet(FreeSlots) /\ Cardinality(FreeSlots) \in 0 .. MaxConns
      /\ Rest(0) \in Nat
      /\ at.phase \in {"serve", "handle"} => at.slot \in Slots /\ Rest(at.slot) \in Nat
      /\ at.phase = "frame" <=> at = Frame
  <2>1. at.phase \in {"serve", "handle"} => at.slot \in Slots
    BY DEF CtlInv, PlaceFine
  <2>2. \A i \in Slots : Rest(i) \in Nat
    BY RestSteps, TableAssumption DEF Slots
  <2> QED
    BY <2>1, <2>2, TableAssumption, FreeSlotsFinite, RestSteps DEF CtlInv, PlaceFine, Frame
<1>1. CASE UNCHANGED cvars
  BY <1>1 DEF cvars, DoneFine
<1>2. ASSUME Client PROVE Work' = Work /\ DoneFine'
  <2>1. UNCHANGED <<at, slot>>
    BY <1>2 DEF Client, Connect, SendPiece, Finish
  <2> QED
    BY <2>1 DEF Work, DoneFine, FreeSlots
<1>3. ASSUME NEW e \in Elapses, BeginTick(e) PROVE DoneFine' /\ at = Frame
  BY <1>3 DEF BeginTick, DoneFine, Accepting
<1>4. ASSUME Accept PROVE DoneFine' /\ Work' < Work
  <2>1. /\ at = Accepting /\ at' = at
        /\ \E i \in FreeSlots : slot' = [slot EXCEPT ![i] = Head(backlog)]
        /\ backlog # <<>>
    BY <1>4 DEF Accept
  <2>2. PICK i \in FreeSlots : slot' = [slot EXCEPT ![i] = Head(backlog)]
    BY <2>1
  <2>3. Head(backlog) # NoClient
    BY <2>1, ClientAssumption DEF CtlInv, TableTyped
  <2>4. FreeSlots' = FreeSlots \ {i}
    BY <2>2, <2>3 DEF FreeSlots, CtlInv, TableTyped
  <2>5. Cardinality(FreeSlots') = Cardinality(FreeSlots) - 1
    BY <1>0, <2>2, <2>4, FS_RemoveElement
  <2>6. Work = Cardinality(FreeSlots) + 1 + Rest(0) /\ Work' = Cardinality(FreeSlots') + 1 + Rest(0)
    BY <2>1 DEF Work, Accepting
  <2>7. DoneFine'
    BY <2>1 DEF DoneFine, Accepting
  <2> QED
    BY <1>0, <2>5, <2>6, <2>7
<1>5. ASSUME Refuse \/ AcceptNone PROVE DoneFine' /\ Work' < Work
  <2>1. at = Accepting /\ at' = Serving(1)
    BY <1>5 DEF Refuse, AcceptNone
  <2>2. Work = Cardinality(FreeSlots) + 1 + Rest(0)
    BY <2>1 DEF Work, Accepting
  <2> QED
    BY <1>0, <2>1, <2>2, NextWork
<1>6. ASSUME at.phase \in {"serve", "handle"}, at' = Serving(at.slot + 1)
      PROVE  DoneFine' /\ Work' < Work
  <2>1. DoneFine' /\ Work' = Rest(at.slot)
    BY <1>0, <1>6, NextWork
  <2>2. CASE at.phase = "serve"
    <3>1. Work = Rest(at.slot) + PerTick + 2
      BY <2>2 DEF Work
    <3> QED
      BY <1>0, <1>6, <2>1, <3>1
  <2>3. CASE at.phase = "handle"
    <3>1. Work = Rest(at.slot) + (PerTick - at.done) + 1 /\ at.done \in 0 .. PerTick
      BY <2>3 DEF Work, DoneFine
    <3> QED
      BY <1>0, <1>6, <2>1, <3>1
  <2> QED
    BY <1>6, <2>2, <2>3
<1>7. ASSUME at.phase = "serve", at' = [at EXCEPT !.phase = "handle"]
      PROVE  DoneFine' /\ Work' < Work
  <2>1. at'.phase = "handle" /\ at'.slot = at.slot /\ at'.done = 0
    BY <1>7 DEF CtlInv, PlaceFine, DoneFine
  <2>2. Work = Rest(at.slot) + PerTick + 2 /\ Work' = Rest(at.slot) + (PerTick - 0) + 1
    BY <1>7, <2>1 DEF Work
  <2>3. DoneFine'
    BY <1>0, <2>1 DEF DoneFine
  <2> QED
    BY <1>0, <1>7, <2>2, <2>3
<1>8. ASSUME at.phase = "handle", at.done < PerTick, at' = [at EXCEPT !.done = @ + 1]
      PROVE  DoneFine' /\ Work' < Work
  <2>1. at'.phase = "handle" /\ at'.slot = at.slot /\ at'.done = at.done + 1
    BY <1>8 DEF CtlInv, PlaceFine
  <2>2. at.done \in 0 .. PerTick
    BY <1>8 DEF DoneFine
  <2>3. /\ Work = Rest(at.slot) + (PerTick - at.done) + 1
        /\ Work' = Rest(at.slot) + (PerTick - (at.done + 1)) + 1
    BY <1>8, <2>1 DEF Work
  <2>4. DoneFine'
    BY <1>0, <1>8, <2>1, <2>2 DEF DoneFine
  <2> QED
    BY <1>0, <1>8, <2>2, <2>3, <2>4
<1>9. ASSUME Skip \/ Reap \/ HandleDone PROVE DoneFine' /\ Work' < Work
  BY <1>6, <1>9 DEF Skip, Reap, HandleDone, Close
<1>10. ASSUME Read PROVE DoneFine' /\ Work' < Work
  <2>1. /\ at.phase = "serve"
        /\ Close(at.slot) \/ at' = [at EXCEPT !.phase = "handle"]
    BY <1>10 DEF Read
  <2> QED
    BY <1>6, <1>7, <2>1 DEF Close
<1>11. ASSUME NEW ok \in BOOLEAN, Handle(ok) PROVE DoneFine' /\ Work' < Work
  <2>1. /\ at.phase = "handle" /\ at.done < PerTick
        /\ Close(at.slot) \/ at' = [at EXCEPT !.done = @ + 1]
    BY <1>11 DEF Handle, More
  <2> QED
    BY <1>6, <1>8, <2>1 DEF Close
<1>12. ASSUME Server PROVE DoneFine' /\ (at # Frame => Work' < Work)
  BY <1>3, <1>4, <1>5, <1>9, <1>10, <1>11, <1>12 DEF Server
<1> QED
  BY <1>1, <1>2, <1>12 DEF CtlNext, TickShortens

\* A tick ends after so many steps at most, whatever the clients do meanwhile:
\* those it accepts fill the table, those it serves have a quota of requests.
THEOREM TickIsShort ==
  CtlSpec => /\ [](Work \in 0 .. MaxConns * (PerTick + 3) + 1)
             /\ [](Work = 0 <=> at = Frame)
             /\ [][TickShortens]_cvars
<1>1. CtlInit => DoneFine
  BY DEF CtlInit, DoneFine, Frame
<1>2. CtlInv /\ DoneFine => /\ Work \in 0 .. MaxConns * (PerTick + 3) + 1
                            /\ Work = 0 <=> at = Frame
  BY WorkBounded
<1>3. CtlInv /\ DoneFine /\ [CtlNext]_cvars => DoneFine' /\ [TickShortens]_cvars
  BY WorkStep
<1> QED
  BY <1>1, <1>2, <1>3, CtlStart, CtlStep, PTL DEF CtlSpec

-----------------------------------------------------------------------------
(* Every connection is in one place, and only goes forward.                *)

\* A connection that is open has a slot to itself, one that waits has a place
\* of the backlog to itself, and the others have neither.
OnePlaceEach ==
  /\ sock \in [Clients -> {"out", "backlog", "open"}]
  /\ \A c \in Clients : sock[c] = "open" <=> \E i \in Slots : slot[i] = c
  /\ \A i, j \in Slots : slot[i] = slot[j] /\ slot[i] # NoClient => i = j
  /\ \A c \in Clients : sock[c] = "backlog" <=> \E k \in 1 .. Len(backlog) : backlog[k] = c
  /\ \A j, k \in 1 .. Len(backlog) : backlog[j] = backlog[k] => j = k
  /\ Len(backlog) <= Backlog

\* Only requests that are complete have been handled.
CompleteOnly == \A c \in Clients : 2 * line[c].handled <= line[c].got

\* What was got and handled on a connection is neither lost nor undone.
LinesForward ==
  \A c \in Clients : sock[c] = "open" /\ sock'[c] = "open" =>
    line'[c].got >= line[c].got /\ line'[c].handled >= line[c].handled

\* A connection that waits keeps its place or moves up.
BacklogForward ==
  \A k \in 1 .. Len(backlog) :
    \/ sock'[backlog[k]] # "backlog"
    \/ k \in 1 .. Len(backlog') /\ backlog'[k] = backlog[k]
    \/ k - 1 \in 1 .. Len(backlog') /\ backlog'[k - 1] = backlog[k]

\* A step that leaves the connections where they are.
LEMMA PlacesKept ==
  ASSUME CtlInv, OnePlaceEach, UNCHANGED <<sock, backlog, slot>>
  PROVE  OnePlaceEach' /\ BacklogForward
BY DEF OnePlaceEach, BacklogForward

\* A connection joins the end of the backlog.
LEMMA ConnectPlaces ==
  ASSUME CtlInv, OnePlaceEach, NEW c \in Clients, Connect(c)
  PROVE  OnePlaceEach' /\ BacklogForward
<1> DEFINE n == Len(backlog)
<1>1. /\ sock[c] = "out" /\ n < Backlog /\ sock' = [sock EXCEPT ![c] = "backlog"]
      /\ backlog' = Append(backlog, c) /\ UNCHANGED slot
  BY DEF Connect
<1>2. /\ n \in Nat /\ Len(backlog') = n + 1 /\ backlog'[n + 1] = c
      /\ \A k \in 1 .. n : backlog'[k] = backlog[k]
  BY <1>1, AppendProperties DEF CtlInv, TableTyped
<1>3. \A k \in 1 .. n : backlog[k] # c
  BY <1>1 DEF OnePlaceEach
<1>4. \A i \in Slots : slot[i] # c
  BY <1>1 DEF OnePlaceEach
<1>5. \A k \in 1 .. n + 1 : k \in 1 .. n \/ k = n + 1
  BY <1>2
<1>6. \A k \in 1 .. n : k \in 1 .. n + 1
  BY <1>2
<1>7. n + 1 \in 1 .. n + 1 /\ n + 1 <= Backlog /\ Backlog \in Nat
  BY <1>1, <1>2, TableAssumption
<1>8. sock' \in [Clients -> {"out", "backlog", "open"}]
      /\ \A d \in Clients : sock'[d] = IF d = c THEN "backlog" ELSE sock[d]
  BY <1>1 DEF OnePlaceEach
<1> HIDE DEF n
<1>9. ASSUME NEW d \in Clients
      PROVE  sock'[d] = "backlog" <=> \E k \in 1 .. Len(backlog') : backlog'[k] = d
  <2>1. CASE d = c
    BY <1>2, <1>7, <1>8, <2>1
  <2>2. CASE d # c
    <3>1. sock[d] = "backlog" <=> \E k \in 1 .. n : backlog[k] = d
      BY DEF OnePlaceEach, n
    <3> QED
      BY <1>2, <1>5, <1>6, <1>8, <2>2, <3>1
  <2> QED
    BY <2>1, <2>2
<1>10. \A j, k \in 1 .. Len(backlog') : backlog'[j] = backlog'[k] => j = k
  <2>1. \A j, k \in 1 .. n : backlog[j] = backlog[k] => j = k
    BY DEF OnePlaceEach, n
  <2> QED
    BY <1>2, <1>3, <1>5, <2>1
<1>11. BacklogForward
  BY <1>2, <1>6 DEF BacklogForward, n
<1>12. /\ \A d \in Clients : sock'[d] = "open" <=> \E i \in Slots : slot'[i] = d
       /\ \A i, j \in Slots : slot'[i] = slot'[j] /\ slot'[i] # NoClient => i = j
  BY <1>1, <1>4, <1>8 DEF OnePlaceEach
<1> QED
  BY <1>2, <1>7, <1>8, <1>9, <1>10, <1>11, <1>12 DEF OnePlaceEach

\* The first of the backlog leaves it, the others move up.
LEMMA HeadLeaves ==
  ASSUME CtlInv, OnePlaceEach, backlog # <<>>, backlog' = Tail(backlog),
         NEW s \in {"out", "open"}, sock' = [sock EXCEPT ![Head(backlog)] = s]
  PROVE  /\ sock' \in [Clients -> {"out", "backlog", "open"}]
         /\ \A c \in Clients : sock'[c] = "backlog"
                                 <=> \E k \in 1 .. Len(backlog') : backlog'[k] = c
         /\ \A j, k \in 1 .. Len(backlog') : backlog'[j] = backlog'[k] => j = k
         /\ Len(backlog') <= Backlog
         /\ BacklogForward
         /\ Head(backlog) \in Clients /\ \A i \in Slots : slot[i] # Head(backlog)
         /\ \A c \in Clients : sock'[c] = IF c = Head(backlog) THEN s ELSE sock[c]
<1> DEFINE n == Len(backlog)
           h == Head(backlog)
<1>1. /\ n \in Nat \ {0} /\ h = backlog[1] /\ h \in Clients /\ Len(backlog') = n - 1
      /\ \A k \in 1 .. n - 1 : backlog'[k] = backlog[k + 1]
  BY HeadTailProperties DEF CtlInv, TableTyped
<1>2. sock[h] = "backlog"
  <2>1. 1 \in 1 .. n
    BY <1>1
  <2> QED
    BY <1>1, <2>1 DEF OnePlaceEach
<1> HIDE DEF h
<1>3. /\ sock' \in [Clients -> {"out", "backlog", "open"}]
      /\ \A c \in Clients : sock'[c] = IF c = h THEN s ELSE sock[c]
  BY <1>1 DEF OnePlaceEach, h
<1>4. \A i \in Slots : slot[i] # h
  BY <1>1, <1>2 DEF OnePlaceEach
<1>5. /\ \A k \in 1 .. n - 1 : k + 1 \in 1 .. n
      /\ \A k \in 1 .. n : k = 1 \/ (k - 1 \in 1 .. n - 1 /\ (k - 1) + 1 = k)
      /\ 1 \in 1 .. n
  BY <1>1
<1>6. \A j, k \in 1 .. n : backlog[j] = backlog[k] => j = k
  BY DEF OnePlaceEach
<1>7. \A c \in Clients : sock[c] = "backlog" <=> \E k \in 1 .. n : backlog[k] = c
  BY DEF OnePlaceEach
<1>8. n <= Backlog /\ Backlog \in Nat
  BY TableAssumption DEF OnePlaceEach
<1> HIDE DEF n
<1>9. ASSUME NEW c \in Clients
      PROVE  sock'[c] = "backlog" <=> \E k \in 1 .. Len(backlog') : backlog'[k] = c
  <2>1. CASE c = h
    <3>1. ASSUME NEW k \in 1 .. n - 1, backlog'[k] = h PROVE FALSE
      <4>1. k + 1 \in 1 .. n /\ backlog[k + 1] = backlog[1]
        BY <1>1, <1>5, <3>1
      <4>2. k + 1 = 1
        BY <1>5, <1>6, <4>1
      <4> QED
        BY <1>1, <4>2
    <3> QED
      BY <1>1, <1>3, <2>1, <3>1
  <2>2. CASE c # h
    <3>1. ASSUME NEW k \in 1 .. n, backlog[k] = c
          PROVE  \E j \in 1 .. n - 1 : backlog'[j] = c
      <4>1. k # 1
        BY <1>1, <2>2, <3>1
      <4>2. k - 1 \in 1 .. n - 1 /\ backlog'[k - 1] = c
        BY <1>1, <1>5, <3>1, <4>1
      <4> QED
        BY <4>2
    <3>2. ASSUME NEW k \in 1 .. n - 1, backlog'[k] = c
          PROVE  \E j \in 1 .. n : backlog[j] = c
      BY <1>1, <1>5, <3>2
    <3> QED
      BY <1>1, <1>3, <1>7, <2>2, <3>1, <3>2
  <2> QED
    BY <2>1, <2>2
<1>10. \A j, k \in 1 .. Len(backlog') : backlog'[j] = backlog'[k] => j = k
  <2> SUFFICES ASSUME NEW j \in 1 .. n - 1, NEW k \in 1 .. n - 1, backlog'[j] = backlog'[k]
               PROVE  j = k
    BY <1>1
  <2>1. j + 1 = k + 1
    BY <1>1, <1>5, <1>6
  <2> QED
    BY <1>1, <2>1
<1>11. BacklogForward
  <2> SUFFICES ASSUME NEW k \in 1 .. n
               PROVE  sock'[backlog[k]] # "backlog"
                      \/ (k - 1 \in 1 .. Len(backlog') /\ backlog'[k - 1] = backlog[k])
    BY DEF BacklogForward, n
  <2>1. CASE k = 1
    BY <1>1, <1>3, <2>1
  <2>2. CASE k # 1
    BY <1>1, <1>5, <2>2
  <2> QED
    BY <2>1, <2>2
<1>12. Len(backlog') <= Backlog
  BY <1>1, <1>8
<1> QED
  BY <1>1, <1>3, <1>4, <1>9, <1>10, <1>11, <1>12 DEF h

LEMMA AcceptPlaces ==
  ASSUME CtlInv, OnePlaceEach, Accept
  PROVE  OnePlaceEach' /\ BacklogForward
<1> DEFINE h == Head(backlog)
<1>1. PICK i \in FreeSlots : slot' = [slot EXCEPT ![i] = h]
  BY DEF Accept
<1>2. backlog # <<>> /\ backlog' = Tail(backlog) /\ sock' = [sock EXCEPT ![h] = "open"]
  BY DEF Accept
<1>3. i \in Slots /\ slot[i] = NoClient /\ slot \in [Slots -> Clients \cup {NoClient}]
  BY <1>1 DEF FreeSlots, CtlInv, TableTyped
<1>4. /\ sock' \in [Clients -> {"out", "backlog", "open"}]
      /\ \A c \in Clients : sock'[c] = "backlog"
                              <=> \E k \in 1 .. Len(backlog') : backlog'[k] = c
      /\ \A j, k \in 1 .. Len(backlog') : backlog'[j] = backlog'[k] => j = k
      /\ Len(backlog') <= Backlog
      /\ BacklogForward
      /\ h \in Clients /\ \A j \in Slots : slot[j] # h
      /\ \A c \in Clients : sock'[c] = IF c = h THEN "open" ELSE sock[c]
  BY <1>2, HeadLeaves
<1> HIDE DEF h
<1>5. \A j \in Slots : slot'[j] = IF j = i THEN h ELSE slot[j]
  BY <1>1, <1>3
<1>6. \A c \in Clients : sock'[c] = "open" <=> \E j \in Slots : slot'[j] = c
  <2> SUFFICES ASSUME NEW c \in Clients
               PROVE  sock'[c] = "open" <=> \E j \in Slots : slot'[j] = c
    OBVIOUS
  <2>1. CASE c = h
    BY <1>3, <1>4, <1>5, <2>1
  <2>2. CASE c # h
    <3>1. sock[c] = "open" <=> \E j \in Slots : slot[j] = c
      BY DEF OnePlaceEach
    <3>2. c # NoClient
      BY ClientAssumption
    <3>3. (\E j \in Slots : slot[j] = c) <=> \E j \in Slots : slot'[j] = c
      BY <1>3, <1>5, <2>2, <3>2
    <3> QED
      BY <1>4, <2>2, <3>1, <3>3
  <2> QED
    BY <2>1, <2>2
<1>7. \A j, k \in Slots : slot'[j] = slot'[k] /\ slot'[j] # NoClient => j = k
  BY <1>4, <1>5 DEF OnePlaceEach
<1> QED
  BY <1>4, <1>6, <1>7 DEF OnePlaceEach

LEMMA RefusePlaces ==
  ASSUME CtlInv, OnePlaceEach, Refuse
  PROVE  OnePlaceEach' /\ BacklogForward
<1> DEFINE h == Head(backlog)
<1>1. /\ backlog # <<>> /\ backlog' = Tail(backlog) /\ sock' = [sock EXCEPT ![h] = "out"]
      /\ UNCHANGED slot
  BY DEF Refuse
<1>2. /\ sock' \in [Clients -> {"out", "backlog", "open"}]
      /\ \A c \in Clients : sock'[c] = "backlog"
                              <=> \E k \in 1 .. Len(backlog') : backlog'[k] = c
      /\ \A j, k \in 1 .. Len(backlog') : backlog'[j] = backlog'[k] => j = k
      /\ Len(backlog') <= Backlog
      /\ BacklogForward
      /\ h \in Clients /\ \A j \in Slots : slot[j] # h
      /\ \A c \in Clients : sock'[c] = IF c = h THEN "out" ELSE sock[c]
  BY <1>1, HeadLeaves
<1> HIDE DEF h
<1>3. \A c \in Clients : sock'[c] = "open" <=> \E j \in Slots : slot'[j] = c
  BY <1>1, <1>2 DEF OnePlaceEach
<1>4. \A j, k \in Slots : slot'[j] = slot'[k] /\ slot'[j] # NoClient => j = k
  BY <1>1 DEF OnePlaceEach
<1> QED
  BY <1>2, <1>3, <1>4 DEF OnePlaceEach

\* A connection that is closed leaves its slot.
LEMMA ClosePlaces ==
  ASSUME CtlInv, OnePlaceEach, NEW i \in Slots, slot[i] # NoClient, Close(i),
         UNCHANGED backlog
  PROVE  OnePlaceEach' /\ BacklogForward
<1> DEFINE c == slot[i]
<1>1. /\ c \in Clients /\ slot' = [slot EXCEPT ![i] = NoClient]
      /\ sock' = [sock EXCEPT ![c] = "out"] /\ slot \in [Slots -> Clients \cup {NoClient}]
  BY DEF CtlInv, TableTyped, Close
<1>2. sock[c] = "open" /\ \A j \in Slots : slot[j] = c => j = i
  BY <1>1 DEF OnePlaceEach
<1> HIDE DEF c
<1>3. /\ sock' \in [Clients -> {"out", "backlog", "open"}]
      /\ \A d \in Clients : sock'[d] = IF d = c THEN "out" ELSE sock[d]
      /\ \A j \in Slots : slot'[j] = IF j = i THEN NoClient ELSE slot[j]
  BY <1>1 DEF OnePlaceEach
<1>4. \A d \in Clients : d # NoClient
  BY ClientAssumption
<1>5. ASSUME NEW d \in Clients PROVE sock'[d] = "open" <=> \E j \in Slots : slot'[j] = d
  <2>1. sock[d] = "open" <=> \E j \in Slots : slot[j] = d
    BY DEF OnePlaceEach
  <2>2. CASE d = c
    BY <1>2, <1>3, <1>4, <2>2
  <2>3. CASE d # c
    <3>1. \A j \in Slots : slot[j] = d <=> slot'[j] = d
      BY <1>3, <1>4, <2>3 DEF c
    <3> QED
      BY <1>3, <2>1, <2>3, <3>1
  <2> QED
    BY <2>2, <2>3
<1>6. \A j, k \in Slots : slot'[j] = slot'[k] /\ slot'[j] # NoClient => j = k
  BY <1>3 DEF OnePlaceEach
<1>7. \A d \in Clients : sock'[d] = "backlog" <=> sock[d] = "backlog"
  BY <1>2, <1>3
<1>8. BacklogForward
  BY DEF BacklogForward
<1> QED
  BY <1>3, <1>5, <1>6, <1>7, <1>8 DEF OnePlaceEach

\* No step puts a connection where it should not be.
LEMMA PlacesStep ==
  CtlInv /\ OnePlaceEach /\ [CtlNext]_cvars => OnePlaceEach' /\ [BacklogForward]_cvars
<1> SUFFICES ASSUME CtlInv, OnePlaceEach, [CtlNext]_cvars
             PROVE  OnePlaceEach' /\ BacklogForward
  OBVIOUS
<1>1. CASE UNCHANGED cvars
  BY <1>1, PlacesKept DEF cvars
<1>2. CASE Client
  <2>1. PICK c \in Clients : Connect(c) \/ SendPiece(c) \/ Finish(c)
    BY <1>2 DEF Client
  <2> QED
    BY <2>1, ConnectPlaces, PlacesKept DEF SendPiece, Finish
<1>3. CASE (\E e \in Elapses : BeginTick(e)) \/ AcceptNone \/ Skip \/ HandleDone
  BY <1>3, PlacesKept DEF BeginTick, AcceptNone, Skip, HandleDone
<1>4. at.phase \in {"serve", "handle"} => at.slot \in Slots
  BY DEF CtlInv, PlaceFine
<1>5. CASE Reap
  BY <1>4, <1>5, ClosePlaces DEF Reap
<1>6. CASE Read
  <2>1. at.slot \in Slots /\ slot[at.slot] # NoClient /\ UNCHANGED backlog
    BY <1>4, <1>6 DEF Read
  <2>2. Close(at.slot) \/ UNCHANGED <<sock, slot>>
    BY <1>6 DEF Read
  <2> QED
    BY <2>1, <2>2, ClosePlaces, PlacesKept
<1>7. CASE \E ok \in BOOLEAN : Handle(ok)
  <2>1. at.slot \in Slots /\ slot[at.slot] # NoClient /\ UNCHANGED backlog
    BY <1>4, <1>7 DEF Handle, CtlInv, PlaceFine
  <2>2. Close(at.slot) \/ UNCHANGED <<sock, slot>>
    BY <1>7 DEF Handle
  <2> QED
    BY <2>1, <2>2, ClosePlaces, PlacesKept
<1> QED
  BY <1>1, <1>2, <1>3, <1>5, <1>6, <1>7, AcceptPlaces, RefusePlaces DEF CtlNext, Server

LEMMA PlacesStart == CtlInit => OnePlaceEach
BY ClientAssumption, TableAssumption DEF CtlInit, OnePlaceEach

\* A client is in one place at a time: at one slot, which it leaves only closed,
\* or at one place of the backlog, which never holds more than it may.
THEOREM ConnectionsHavePlaces == CtlSpec => []OnePlaceEach
BY PlacesStart, PlacesStep, CtlStart, CtlStep, PTL DEF CtlSpec

\* Whatever waits in the backlog waits there in its order: none is overtaken.
THEOREM BacklogMovesUp == CtlSpec => [][BacklogForward]_cvars
BY PlacesStart, PlacesStep, CtlStart, CtlStep, PTL DEF CtlSpec

-----------------------------------------------------------------------------
(* Of a connection nothing is undone.                                      *)

\* A step that gives one client a line, no worse than the one it had, or a new
\* one as it closes.
LEMMA LineGoesOn ==
  ASSUME CtlInv, CompleteOnly, NEW d \in Clients, NEW l \in Lines,
         line' = [line EXCEPT ![d] = l], 2 * l.handled <= l.got,
         sock'[d] = "out"
           \/ (l.got >= line[d].got /\ l.handled >= line[d].handled)
  PROVE  CompleteOnly' /\ LinesForward
<1>1. \A c \in Clients : line'[c] = IF c = d THEN l ELSE line[c]
  BY DEF CtlInv, LinesFine
<1>2. CompleteOnly'
  BY <1>1 DEF CompleteOnly
<1>3. \A c \in Clients : line[c].got \in Nat /\ line[c].handled \in Nat
  BY DEF CtlInv, LinesFine, Lines
<1>4. ASSUME NEW c \in Clients, sock'[c] = "open"
      PROVE  line'[c].got >= line[c].got /\ line'[c].handled >= line[c].handled
  BY <1>1, <1>3, <1>4
<1> QED
  BY <1>2, <1>4 DEF LinesForward

LEMMA LinesKept ==
  ASSUME CtlInv, CompleteOnly, UNCHANGED line
  PROVE  CompleteOnly' /\ LinesForward
BY DEF CtlInv, LinesFine, Lines, CompleteOnly, LinesForward

LEMMA NewLineGoesOn ==
  ASSUME CtlInv, OnePlaceEach, CompleteOnly, NEW d \in Clients,
         line' = [line EXCEPT ![d] = NewLine], sock' = [sock EXCEPT ![d] = "out"]
  PROVE  CompleteOnly' /\ LinesForward
<1>1. sock'[d] = "out"
  BY DEF OnePlaceEach
<1>2. NewLine \in Lines /\ 2 * NewLine.handled <= NewLine.got
  BY DEF NewLine, Lines
<1> QED
  BY <1>1, <1>2, LineGoesOn

LEMMA ClientForward ==
  ASSUME CtlInv, OnePlaceEach, CompleteOnly, Client
  PROVE  CompleteOnly' /\ LinesForward
<1>1. PICK c \in Clients : Connect(c) \/ SendPiece(c) \/ Finish(c)
  BY DEF Client
<1>2. line[c] \in Lines /\ 2 * line[c].handled <= line[c].got
  BY DEF CtlInv, LinesFine, CompleteOnly
<1>3. CASE Connect(c)
  BY <1>3, LinesKept DEF Connect
<1>4. CASE SendPiece(c)
  <2> DEFINE l == [line[c] EXCEPT !.sent = @ + 1]
  <2>1. l \in Lines /\ l.got = line[c].got /\ l.handled = line[c].handled
        /\ line[c].got \in Nat /\ line[c].handled \in Nat
    BY <1>2 DEF Lines
  <2>2. line' = [line EXCEPT ![c] = l]
    BY <1>4 DEF SendPiece
  <2> HIDE DEF l
  <2>3. 2 * l.handled <= l.got /\ l.got >= line[c].got /\ l.handled >= line[c].handled
    BY <1>2, <2>1
  <2> QED
    BY <2>1, <2>2, <2>3, LineGoesOn
<1>5. CASE Finish(c)
  <2> DEFINE l == [line[c] EXCEPT !.eof = TRUE]
  <2>1. l \in Lines /\ l.got = line[c].got /\ l.handled = line[c].handled
        /\ line[c].got \in Nat /\ line[c].handled \in Nat
    BY <1>2 DEF Lines
  <2>2. line' = [line EXCEPT ![c] = l]
    BY <1>5 DEF Finish
  <2> HIDE DEF l
  <2>3. 2 * l.handled <= l.got /\ l.got >= line[c].got /\ l.handled >= line[c].handled
    BY <1>2, <2>1
  <2> QED
    BY <2>1, <2>2, <2>3, LineGoesOn
<1> QED
  BY <1>1, <1>3, <1>4, <1>5

LEMMA ServerForward ==
  ASSUME CtlInv, OnePlaceEach, CompleteOnly, Server
  PROVE  CompleteOnly' /\ LinesForward
<1> DEFINE i == at.slot
           c == slot[i]
<1>1. CASE (\E e \in Elapses : BeginTick(e)) \/ Accept \/ AcceptNone \/ Skip \/ HandleDone
  BY <1>1, LinesKept DEF BeginTick, Accept, AcceptNone, Skip, HandleDone
<1>2. CASE Refuse
  <2>1. Head(backlog) \in Clients
    BY <1>2 DEF CtlInv, TableTyped, Refuse
  <2> QED
    BY <1>2, <2>1, NewLineGoesOn DEF Refuse
<1>3. at.phase \in {"serve", "handle"} /\ c # NoClient => c \in Clients
  BY DEF CtlInv, PlaceFine, TableTyped
<1>4. Close(i) /\ c \in Clients => CompleteOnly' /\ LinesForward
  BY NewLineGoesOn DEF Close
<1>5. CASE Reap
  BY <1>3, <1>4, <1>5 DEF Reap
<1>6. CASE Read
  <2>1. c \in Clients
    BY <1>3, <1>6 DEF Read
  <2>2. line[c] \in Lines /\ line[c].got <= line[c].sent /\ 2 * line[c].handled <= line[c].got
    BY <2>1 DEF CtlInv, LinesFine, CompleteOnly
  <2> DEFINE l == [line[c] EXCEPT !.got = line[c].sent]
  <2>3. l \in Lines /\ l.got = line[c].sent /\ l.handled = line[c].handled
        /\ line[c].got \in Nat /\ line[c].handled \in Nat /\ line[c].sent \in Nat
    BY <2>2 DEF Lines
  <2>4. Close(i) \/ line' = [line EXCEPT ![c] = l]
    BY <1>6 DEF Read
  <2> HIDE DEF l
  <2>5. 2 * l.handled <= l.got /\ l.got >= line[c].got /\ l.handled >= line[c].handled
    BY <2>2, <2>3
  <2> QED
    BY <1>4, <2>1, <2>3, <2>4, <2>5, LineGoesOn
<1>7. ASSUME NEW ok \in BOOLEAN, Handle(ok)
      PROVE  CompleteOnly' /\ LinesForward
  <2>1. at.phase = "handle" /\ c # NoClient /\ More(c)
    BY <1>7 DEF Handle, CtlInv, PlaceFine
  <2>2. c \in Clients
    BY <1>3, <2>1
  <2>3. line[c] \in Lines
    BY <2>2 DEF CtlInv, LinesFine
  <2> DEFINE l == [line[c] EXCEPT !.handled = @ + 1,
                                  !.answered = IF ok THEN @ + 1 ELSE @]
  <2>4. line[c].got \in Nat /\ line[c].handled \in Nat /\ line[c].answered \in Nat
        /\ line[c].got >= 2 * (line[c].handled + 1)
    BY <2>1, <2>3 DEF Lines, More
  <2>5. l \in Lines /\ l.got = line[c].got /\ l.handled = line[c].handled + 1
    <3> DEFINE k == [line[c] EXCEPT !.handled = @ + 1]
    <3>1. k \in Lines /\ k.handled = line[c].handled + 1 /\ k.answered = line[c].answered
          /\ k.got = line[c].got
      BY <2>3 DEF Lines
    <3>2. l = [k EXCEPT !.answered = IF ok THEN @ + 1 ELSE @]
      BY <2>3 DEF Lines
    <3> HIDE DEF k, l
    <3>3. (IF ok THEN k.answered + 1 ELSE k.answered) \in Nat
      BY <2>4, <3>1
    <3> QED
      BY <3>1, <3>2, <3>3 DEF Lines
  <2>6. Close(i) \/ line' = [line EXCEPT ![c] = l]
    <3>1. Close(i) \/ line' = [line EXCEPT ![c].handled = @ + 1,
                                           ![c].answered = IF ok THEN @ + 1 ELSE @]
      BY <1>7 DEF Handle
    <3> QED
      BY <2>2, <2>3, <3>1 DEF CtlInv, LinesFine, Lines
  <2> HIDE DEF l
  <2>7. 2 * l.handled <= l.got /\ l.got >= line[c].got /\ l.handled >= line[c].handled
    BY <2>4, <2>5
  <2> QED
    BY <1>4, <2>2, <2>5, <2>6, <2>7, LineGoesOn
<1> QED
  BY <1>1, <1>2, <1>5, <1>6, <1>7 DEF Server

LEMMA ForwardStep ==
  CtlInv /\ OnePlaceEach /\ CompleteOnly /\ [CtlNext]_cvars
    => CompleteOnly' /\ [LinesForward]_cvars
<1> SUFFICES ASSUME CtlInv, OnePlaceEach, CompleteOnly, [CtlNext]_cvars
             PROVE  CompleteOnly' /\ LinesForward
  OBVIOUS
<1>1. CASE UNCHANGED cvars
  BY <1>1, LinesKept DEF cvars
<1> QED
  BY <1>1, ClientForward, ServerForward DEF CtlNext

\* Only what has been got complete is handled, and on a connection that goes on
\* what was got and handled stays so: no request is handled twice.
THEOREM NothingUndone == CtlSpec => []CompleteOnly /\ [][LinesForward]_cvars
<1>1. CtlInit => CompleteOnly
  <2>1. NewLine.handled = 0 /\ NewLine.got = 0
    BY DEF NewLine
  <2>2. CtlInit => \A c \in Clients : line[c] = NewLine
    BY DEF CtlInit
  <2>3. 2 * NewLine.handled <= NewLine.got
    BY <2>1
  <2> QED
    BY <2>2, <2>3 DEF CompleteOnly
<1> QED
  BY <1>1, ForwardStep, PlacesStart, PlacesStep, CtlStart, CtlStep, PTL DEF CtlSpec

=============================================================================
