----------------------------- MODULE ControlServer -----------------------------
(***************************************************************************)
(* The control server of the desktop front end                             *)
(* (sdl/GoomControlServer.cpp).  tick() runs between two frames, on the    *)
(* display thread: it accepts connections into a fixed table, then serves  *)
(* each slot in turn without ever waiting.  Meanwhile the clients connect, *)
(* send, and close as they please.                                         *)
(*                                                                         *)
(* A client sends a script of requests, each in two pieces, so that a      *)
(* request can be incomplete, and as far ahead of the answers as it likes. *)
(***************************************************************************)
EXTENDS Integers, Sequences

CONSTANTS
  Clients,
  NoClient,     \* fd = -1
  Script,       \* the requests each client sends on a connection
  MaxConns,     \* MAX_CONNS (8)
  Backlog,      \* connections the kernel keeps waiting, listen(fd, 4)
  PerTick,      \* requests handled per connection and tick (4)
  IdleTimeout,  \* IDLE_TIMEOUT_S (10)
  Elapses,      \* what can elapse between two ticks
  MaxIn,        \* bytes of the input buffer (16384), counted in pieces
  Param         \* the parameters, by identifier: what they accept

ParamKinds == [type : {"int", "bool", "text"}, rw : BOOLEAN, min : Int, max : Int,
               trigger : BOOLEAN]

\* What handleRequest looks at in a request.
Requests == [line : {"ok", "malformed", "long"}, close : BOOLEAN,
             method : {"GET", "PUT", "other"}, host : BOOLEAN,
             path : {"page", "catalog", "values", "param", "none"}, param : STRING,
             body : {"number", "bad", "missing", "huge"}, value : Int]

ASSUME ClientAssumption == /\ NoClient \notin Clients
                           /\ Script \in [Clients -> Seq(Requests)]
ASSUME TableAssumption  == /\ MaxConns \in Nat \ {0} /\ Backlog \in Nat \ {0}
                           /\ PerTick \in Nat \ {0} /\ MaxIn \in Nat \ {0}
                           /\ IdleTimeout \in Nat /\ Elapses \subseteq Nat
ASSUME ParamAssumption  ==
  /\ DOMAIN Param \subseteq STRING
  /\ \A p \in DOMAIN Param :
       /\ Param[p] \in ParamKinds /\ Param[p].min <= Param[p].max
       /\ Param[p].type = "bool" => Param[p].min = 0 /\ Param[p].max = 1
       /\ Param[p].trigger => Param[p].type = "bool"

Slots == 1 .. MaxConns

VARIABLES
  sock,      \* where each client is: "out", "backlog" or "open"
  line,      \* of each client: pieces sent, got and not, requests handled, answered
  backlog,   \* connections not yet accepted, in their order
  slot,      \* m_conns: the client of each slot
  age,       \* time since lastActive of each slot
  at,        \* where tick() is
  values     \* the values of the parameters

cvars == <<sock, line, backlog, slot, age, at, values>>

-----------------------------------------------------------------------------
(* One request.                                                            *)

\* Bug: feedback parameters are written too.
WriteStatusUnguarded(r) ==
  IF r.param \notin DOMAIN Param THEN 404
  ELSE IF r.body = "missing" THEN 400
  ELSE IF Param[r.param].type = "text" THEN 501
  ELSE IF r.body = "bad" THEN 400
  ELSE 200

\* applyWrite: its status, in the order of its tests.
WriteStatus(r) ==
  IF r.param \notin DOMAIN Param THEN 404
  ELSE IF ~Param[r.param].rw THEN 403
  ELSE IF r.body = "missing" THEN 400
  ELSE IF Param[r.param].type = "text" THEN 501
  ELSE IF r.body = "bad" THEN 400
  ELSE 200

\* handleRequest: the status, in the order of its tests.
Status(r) ==
  IF r.line = "malformed" THEN 400
  ELSE IF r.line = "long" THEN 414
  ELSE IF r.method = "other" THEN 405
  ELSE IF ~r.host THEN 403
  ELSE IF r.method = "GET" /\ r.path \in {"page", "catalog", "values"} THEN 200
  ELSE IF r.method = "PUT" /\ r.path = "param" THEN WriteStatus(r)
  ELSE 404

\* The header Connection is read only once the first line is understood.
KeepAlive(r) == r.line # "ok" \/ ~r.close

Clamp(p, v) == IF v > p.max THEN p.max ELSE IF v < p.min THEN p.min ELSE v

\* The value a write leaves, after the hook of the parameter (an action
\* parameter resets itself).
Written(p, v) == IF p.trigger THEN 0
                 ELSE IF p.type = "bool" THEN (IF v = 0 THEN 0 ELSE 1)
                 ELSE Clamp(p, v)

Applied(r) == IF Status(r) = 200 /\ r.method = "PUT"
                THEN [values EXCEPT ![r.param] = Written(Param[r.param], r.value)]
                ELSE values

-----------------------------------------------------------------------------
(* The clients.                                                            *)

NewLine == [sent |-> 0, eof |-> FALSE, got |-> 0, handled |-> 0, answered |-> 0]

Connect(c) ==
  /\ sock[c] = "out" /\ Len(backlog) < Backlog
  /\ sock' = [sock EXCEPT ![c] = "backlog"]
  /\ backlog' = Append(backlog, c)
  /\ UNCHANGED <<line, slot, age, at, values>>

SendPiece(c) ==
  /\ sock[c] # "out" /\ ~line[c].eof /\ line[c].sent < 2 * Len(Script[c])
  /\ line' = [line EXCEPT ![c].sent = @ + 1]
  /\ UNCHANGED <<sock, backlog, slot, age, at, values>>

Finish(c) ==
  /\ sock[c] # "out" /\ ~line[c].eof
  /\ line' = [line EXCEPT ![c].eof = TRUE]
  /\ UNCHANGED <<sock, backlog, slot, age, at, values>>

Client == \E c \in Clients : Connect(c) \/ SendPiece(c) \/ Finish(c)

-----------------------------------------------------------------------------
(* tick().                                                                 *)

Frame      == [phase |-> "frame", slot |-> 0, done |-> 0]
Accepting  == [phase |-> "accept", slot |-> 0, done |-> 0]
Serving(i) == IF i > MaxConns THEN Frame
              ELSE [phase |-> "serve", slot |-> i, done |-> 0]

\* A tick begins after some time: every connection has been silent for longer.
\* An age is only compared, it is counted up to the first one that is too old.
BeginTick(e) ==
  /\ at = Frame
  /\ at' = Accepting
  /\ age' = [i \in Slots |-> IF slot[i] = NoClient THEN 0
                             ELSE IF age[i] + e > IdleTimeout THEN IdleTimeout + 1
                             ELSE age[i] + e]
  /\ UNCHANGED <<sock, line, backlog, slot, values>>

FreeSlots == {i \in Slots : slot[i] = NoClient}

\* acceptPending: connections go to the first free slot ...
Accept ==
  /\ at = Accepting /\ backlog # <<>>
  /\ \E i \in FreeSlots :
       /\ \A j \in FreeSlots : i <= j
       /\ slot' = [slot EXCEPT ![i] = Head(backlog)]
       /\ age' = [age EXCEPT ![i] = 0]
  /\ sock' = [sock EXCEPT ![Head(backlog)] = "open"]
  /\ backlog' = Tail(backlog)
  /\ UNCHANGED <<line, at, values>>

\* Bug: the connections that follow a refused one are refused at once.
RefuseAll ==
  /\ at = Accepting /\ backlog # <<>> /\ FreeSlots = {}
  /\ sock' = [sock EXCEPT ![Head(backlog)] = "out"]
  /\ line' = [line EXCEPT ![Head(backlog)] = NewLine]
  /\ backlog' = Tail(backlog)
  /\ UNCHANGED <<slot, age, at, values>>

\* Bug: a connection there is no room for is left to wait.
RefuseNone ==
  /\ at = Accepting /\ backlog # <<>> /\ FreeSlots = {}
  /\ at' = Serving(1)
  /\ UNCHANGED <<sock, line, backlog, slot, age, values>>

\* ... one there is no room for is closed, and those behind it wait ...
Refuse ==
  /\ at = Accepting /\ backlog # <<>> /\ FreeSlots = {}
  /\ at' = Serving(1)
  /\ sock' = [sock EXCEPT ![Head(backlog)] = "out"]
  /\ line' = [line EXCEPT ![Head(backlog)] = NewLine]
  /\ backlog' = Tail(backlog)
  /\ UNCHANGED <<slot, age, values>>

\* ... until there is none.
AcceptNone ==
  /\ at = Accepting /\ backlog = <<>>
  /\ at' = Serving(1)
  /\ UNCHANGED <<sock, line, backlog, slot, age, values>>

Skip ==
  /\ at.phase = "serve" /\ slot[at.slot] = NoClient
  /\ at' = Serving(at.slot + 1)
  /\ UNCHANGED <<sock, line, backlog, slot, age, values>>

\* serviceConn has returned false: the connection is closed, its slot freed.
Close(i) ==
  /\ sock' = [sock EXCEPT ![slot[i]] = "out"]
  /\ line' = [line EXCEPT ![slot[i]] = NewLine]
  /\ slot' = [slot EXCEPT ![i] = NoClient]
  /\ age' = [age EXCEPT ![i] = 0]
  /\ at' = Serving(i + 1)

\* Bug: the time out is compared one second late.
TooOldLate(i) == age[i] > IdleTimeout + 1

TooOld(i) == age[i] > IdleTimeout

Reap ==
  /\ at.phase = "serve" /\ slot[at.slot] # NoClient /\ TooOld(at.slot)
  /\ Close(at.slot)
  /\ UNCHANGED <<backlog, values>>

\* What the input buffer holds once everything sent has been read.
Buffered(c) == line[c].sent - 2 * line[c].handled

\* Bug: requests are looked for only when something was received.
ReadOnlyNew ==
  /\ at.phase = "serve" /\ slot[at.slot] # NoClient /\ ~TooOld(at.slot)
  /\ LET i == at.slot
         c == slot[i]
     IN  IF Buffered(c) > MaxIn \/ line[c].eof THEN Close(i)
         ELSE /\ line' = [line EXCEPT ![c].got = line[c].sent]
              /\ age' = [age EXCEPT ![i] = IF line[c].sent > line[c].got THEN 0 ELSE @]
              /\ at' = IF line[c].sent > line[c].got THEN [at EXCEPT !.phase = "handle"]
                       ELSE Serving(i + 1)
              /\ UNCHANGED <<sock, slot>>
  /\ UNCHANGED <<backlog, values>>

\* serviceConn reads all there is, and gives the connection up when it is too
\* much or when the peer has closed, whatever was read before.
Read ==
  /\ at.phase = "serve" /\ slot[at.slot] # NoClient /\ ~TooOld(at.slot)
  /\ LET i == at.slot
         c == slot[i]
     IN  IF Buffered(c) > MaxIn \/ line[c].eof THEN Close(i)
         ELSE /\ line' = [line EXCEPT ![c].got = line[c].sent]
              /\ age' = [age EXCEPT ![i] = IF line[c].sent > line[c].got THEN 0 ELSE @]
              /\ at' = [at EXCEPT !.phase = "handle"]
              /\ UNCHANGED <<sock, slot>>
  /\ UNCHANGED <<backlog, values>>

\* A complete request is in the buffer, and this tick may still handle it.
More(c) == at.done < PerTick /\ line[c].got >= 2 * (line[c].handled + 1)

\* Bug: an answer the socket does not take is dropped and the connection kept.
KeptDespite(r, ok) == KeepAlive(r)

\* A connection goes on after request r, whose answer was sent entirely or not.
Kept(r, ok) == ok /\ KeepAlive(r)

\* The next request: one with too long a body is not handled, the others are,
\* before it is known whether the answer can be sent.
Handle(ok) ==
  /\ at.phase = "handle" /\ More(slot[at.slot])
  /\ LET i == at.slot
         c == slot[i]
         r == Script[c][line[c].handled + 1]
     IN  IF r.body = "huge" THEN Close(i) /\ UNCHANGED values
         ELSE /\ values' = Applied(r)
              /\ IF Kept(r, ok)
                   THEN /\ line' = [line EXCEPT ![c].handled = @ + 1,
                                                ![c].answered = IF ok THEN @ + 1 ELSE @]
                        /\ at' = [at EXCEPT !.done = @ + 1]
                        /\ UNCHANGED <<sock, slot, age>>
                   ELSE Close(i)
  /\ UNCHANGED backlog

\* The rest of the buffer waits for the next tick.
HandleDone ==
  /\ at.phase = "handle" /\ ~More(slot[at.slot])
  /\ at' = Serving(at.slot + 1)
  /\ UNCHANGED <<sock, line, backlog, slot, age, values>>

Server == \/ \E e \in Elapses : BeginTick(e)
          \/ Accept
          \/ Refuse
          \/ AcceptNone
          \/ Skip
          \/ Reap
          \/ Read
          \/ \E ok \in BOOLEAN : Handle(ok)
          \/ HandleDone

-----------------------------------------------------------------------------
CtlInit == /\ sock = [c \in Clients |-> "out"]
           /\ line = [c \in Clients |-> NewLine]
           /\ backlog = <<>>
           /\ slot = [i \in Slots |-> NoClient] /\ age = [i \in Slots |-> 0]
           /\ at = Frame
           /\ values = [p \in DOMAIN Param |-> Param[p].min]

CtlNext == Client \/ Server

CtlSpec == CtlInit /\ [][CtlNext]_cvars

\* The display loop calls tick() for ever; nothing is asked of the clients.
CtlFair == CtlSpec /\ WF_cvars(Server)

-----------------------------------------------------------------------------
(* Properties.                                                             *)

Lines == [sent : Nat, eof : BOOLEAN, got : Nat, handled : Nat, answered : Nat]

\* On a connection that is open every request applied has been answered: an
\* answer that cannot be sent is not skipped, or those that follow would be
\* taken for it.
NothingUnanswered ==
  \A c \in Clients : sock[c] = "open" => line[c].answered = line[c].handled

\* Once a tick is over no connection has been silent for longer than the time
\* out, however long the display loop was held up and whatever is buffered.
IdleEvicted ==
  at = Frame => \A i \in Slots : slot[i] # NoClient => age[i] <= IdleTimeout

\* Whatever is written, and in whatever state of the connections, parameters
\* stay in their range, feedback parameters as the engine left them, and
\* action parameters released.
ValuesLegal ==
  \A p \in DOMAIN Param :
    /\ values[p] \in Param[p].min .. Param[p].max
    /\ ~Param[p].rw \/ Param[p].trigger => values[p] = Param[p].min

\* A tick ends, whatever the clients do meanwhile: no client can hold the
\* display loop.
TickEnds == at # Frame ~> at = Frame

\* A connection does not wait in the backlog for ever: it is accepted or closed.
BacklogMoves == \A c \in Clients : sock[c] = "backlog" ~> sock[c] # "backlog"

\* A complete request is handled, also when nothing follows it and there were
\* too many before it for one tick; or its connection is closed.
CompleteHandled ==
  \A c \in Clients : \A k \in 1 .. Len(Script[c]) :
    (sock[c] = "open" /\ line[c].handled < k /\ line[c].got >= 2 * k)
      ~> (sock[c] # "open" \/ line[c].handled >= k)
=============================================================================
