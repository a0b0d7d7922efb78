# Goom: a verification development

TLA+ models of the parts of Goom whose correctness depends on the order of
things: tables built a stripe per frame while the configuration they are built
for wants to change, messages resent until they are acknowledged, connections
served from the display loop, lists that their own callbacks change, a ring that
two threads share. The models are checked with TLC on small instances, and the
invariants that matter most are proved with TLAPS for all of them.

All line numbers are those of the sources at the commit this directory
accompanies.

## 1. The system

| Part | State it keeps | Operations | Interacts with |
|---|---|---|---|
| Displacement filter (`Goom/filters.c`) | three displacement tables (`brutS` source, `brutD` destination, `brutT` under construction), the configuration in force, the *gauge* the tables are committed to, the interpolation ratio, the wipe | `zoomFilterFastRGB`, once per frame | called by the engine with a configuration or none; parameters written by the user |
| Zoom control (`Goom/goom_core.c`, `goom_update`) | the configuration being composed (`zoomFilterData`), `lockvar`, `cyclesSinceLastChange`, what the manual mode last delivered | draws, forced and manual modes, deliveries, freeze; `goom_set_resolution` | sound, parameters, filter |
| Scene control (`goom_update`, `lines.c`) | the state of the show, the fades of the IFS, scope lines, title | once per frame | visual effects, widget |
| Sound analysis (`Goom/sound_tester.c`) | speed, acceleration, goom limit, a 64-frame cycle | `evaluate_sound` | read by zoom and scene control |
| Visual effects (`tentacle3d.c`, `flying_stars_fx.c`, `ifs.c`, ...) | a pool of particles, shapes and sweeps, meshes | one `apply` per frame | draw into the engine's buffers |
| Goom widget (`Goom/GoomWidget.cpp`) | the date of the next frame, the title and whether the engine has it | `idle`, `draw`, `setTitleText` | owned by a screen, owns the engine |
| Control server (`sdl/GoomControlServer.cpp`) | a table of connections with their buffers | `tick` from the display loop | writes parameters |
| SDL front end (`sdl/`) | window mode, pause, queue of events, list of sounds, microphone ring and gain | main loop, event handler, two audio callbacks | feeds the engine and the toolkit |
| Game loop (`gametools/gameloop.cpp`) | lists of idles and drawables | `idle`, `draw`, add and remove from within them | screens and widgets |
| Toolkit (`gametools/gameui.cpp`) | stack of screens, tree of widgets, requests to draw, focus, slides, edited texts | events, `idle`, changes of the tree | the game loop |
| Reliable datagrams (`iosfc/ios_udpmessagebox.cpp`) | per peer: the message waiting for an acknowledgement, a queue, the last serial received, three timers | `sendUDP`, `idle` | the network, listeners |
| IGP (`iosfc/ios_igpclient.cpp`, `ios_igpmessagelistener.cpp`) | the table of numbers, what each client believes, pending pings | messages, `idle` | reliable datagrams |

The display loop is one thread. What makes its parts hard is that work is spread
over frames: a table takes 16 or 64 frames to build, a wipe 20 or more, a lock 50
or more, a slide half a second, and between any two of those frames the user may
write a parameter, resize the window, press a key, or a goom may change everything.
The networking code adds loss, duplication, reordering and timers; the callbacks of
the game loop change the list it is running over; the microphone and the sounds add
threads of their own.

### What makes each part correct

* *Filter*: two tables are interpolated only if they are expressed in the same
  frame of reference, the plane or one fold of it; a table in service is whole and
  of one configuration; a wipe selects between two complete maps; every build and
  every wipe ends.
* *Zoom control*: a fold turns around the middle of the screen and keeps a number
  of sectors the kernels support; a manual change is shown in the end.
* *Scene, widget*: the appearance and the disappearance of the fractal never
  overlap; the colour of lines without a scope only fades, and their power pulses
  without lighting them beyond it; a title leaves the screen.
* *Effects, sound*: pruning the pool keeps exactly the living particles; a lowered
  limit is reached; a surface asked for is drawn from the next frame on, tentacles when a
  show begins; gooms come back at any loudness.
* *Microphone*: a window is never read where it is being written.
* *Reliable datagrams*: what is acknowledged was delivered, one reliable message
  waits at a time, and each is either acknowledged or reported lost. That a message
  is delivered once is the intent of the code and not what it does (section 5).
* *IGP*: a number belongs to one peer; one that was given on demand stays its
  client's, although the server may have forgotten the client; the list of pending
  pings is exact and every ping ends.
* *Control server*: no client holds a frame, a request applied is answered or its
  connection closed, idle connections go, values stay in their ranges.
* *Game loop and toolkit*: during a pass that changes its own list, nothing dead is
  called and nobody is missed; the stack of screens and the lists agree; a request to
  draw is seen by the next drawing; a slider holds what it shows; the lit widget is
  where the keys go, unless the pointer was in several at once; a field shows what is
  saved; what the user asks for is done.

## 2. Modules

| Module | What it is |
|---|---|
| `ZoomFilter`, `MCZoomFilter` | the filter: one call of `zoomFilterFastRGB` per step |
| `GoomZoom`, `MCGoomZoom` | the zoom control of `goom_update`, composed with `ZoomFilter` |
| `ZoomFilterProofs` | the inductive invariant of `ZoomFilter`, and what a call does for a build and a wipe |
| `ZoomGaugeProofs` | the gauge theorems; the engine: that it drives the filter as specified, the legality of its folds, those set by hand |
| `GoomShow`, `GoomWidget` | the scene of `goom_update`; the widget, composed with it |
| `GoomShowProofs` | the fades, the lines, the titles, and that the widget drives the scene as specified |
| `FlyingStars` | the pool of particles, pruned in place |
| `Tentacles` | when the tentacles do what, and with which shape (`MCTentacles`: alone) |
| `SoundTester` | the goom detector |
| `MicSource`, `MCMicSource` | the microphone: ring, two threads, gain |
| `EffectsProofs` | the pool pruned exactly and only ageing, the window and the gain of the microphone, the shapes of the tentacles, the limit of the goom detector |
| `MCGoomEffects` | instances of the six modules above |
| `ReliableLink` | abstract: what a reliable link promises its two ends |
| `UdpBox`, `MCUdpBox` | message boxes over a network that loses, repeats, delays and reorders; implements `ReliableLink` |
| `UdpLinkProofs` | the inductive invariants of `UdpBox`: the refinement, one reliable message at a time, none lost from sight, none twice by a box that remembers |
| `IgpSession`, `IgpPing` | numbers of clients and services; pings |
| `MCNetwork` | instances of `UdpBox` and `IgpSession` |
| `IgpProofs` | the inductive invariants of `IgpSession` and `IgpPing`; what a scan of the pings does |
| `ControlServer` | the connection table, its clients and the parameters they write |
| `MCControlPing` | instances of `ControlServer` and `IgpPing` |
| `ControlProofs` | its inductive invariants: answers, idle connections and values; what is left to a tick, and the order of connections and requests |
| `GameLoop` | a pass of the game loop and the stack of screens |
| `Redraw` | requests to draw in a tree of widgets that changes |
| `Slider` | the sliding container (`MCSlider`: alone) |
| `Focus` | keys, pointer and focus in nested boxes |
| `EditField` | the edited text field |
| `SdlLoop`, `Sounds` | the loop of the program; the sounds, composed with it |
| `ToolkitProofs` | theorems on `Redraw`, `Slider`, `EditField` and `GameLoop` |
| `MCToolkit` | instances of the seven modules of the toolkit and the loop |

`MCGoomEffects`, `MCToolkit`, `MCNetwork` and `MCControlPing` join modules that share
no state: a variable says which of them moves in a behaviour and the others rest in
one initial state, so that the states explored are the sum of the modules' and not
their product. The compositions that matter are modules: `GoomZoom` with `ZoomFilter`,
`GoomWidget` with `GoomShow`, `Sounds` with `SdlLoop` (pausing silences the callback),
`GameLoop` with the stack of screens.

### ZoomFilter

`data` is the C structure, `drawn` what the last kernel call was given. A step is
the chain of phases of `zoomFilterFastRGB`, each an operator from record to record
named for what it does: `Resize`, `Accept`, `InitBuffers`, `Swap` (with `Bake`),
`Build`, `Ramp`, `Kernel`, `Settle`. `Frame` chains them in the order of the code.

The abstraction is the content of a table row. A row's displacements are replaced
by the *frame* they are expressed in: the plain plane, a fold (sectors, angle,
apex), or `Torn` for a mixture. This is what the gauge logic of the code is about:
interpolating a row of one frame with a row of another gives a `Torn` row, unless
the ratio is at an end. The resampling of the bake is modelled by what it does to
a row: reading at the folded point gives a row of the new fold, and undoing a
projection is right only on rows of the committed gauge.

Not in the model: displacement values, colours, the perceived flow
(`zoomFilterGetVelocity` and the two fields only it reads), wobble and ring.

### GoomZoom

One `Update` step is the part of `goom_update` from the test of the window (line
259) to the call of the filter (line 739). What depends on the speed of the sound
or on `vitesse` is an input of the step (`goom`, `accel`, `trim`, `slow`, `early`),
since no property reads it. `SetParams` and `SetResolution` happen between frames.
The apex of the code is a pair; it is abstracted to one number, which keeps the
three places a goom can put it: an edge, the other edge, the centre. `Composed` is the
set of the configurations this part of `goom_update` can compose; the constant
`Configs` of the filter has to contain it (`ComposedAssumption`).

### UdpBox and ReliableLink

A box keeps, per peer, the reliable message waiting for its acknowledgement, the
queue behind it, the last serial number received and two ages. `Send` is
`sendUDP` with the `sendQueue` it calls, `Receive` and `ReceiveAck` are `idle`
reading one datagram, `Idle` the part of `idle` that ages, resends and gives up,
`Restart` a process that stops and starts again with nothing. The network is the set
of datagrams ever sent, each of which may be received never, late, out of order and
any number of times. Contents of messages, session listeners and sockets are left
out.

`ReliableLink` keeps three sets of messages: submitted and not settled, delivered,
acknowledged or given up. `UdpBox` is shown to implement it under the mapping that
keeps its history variables and forgets the queues, the network and the clocks.

### ControlServer

`tick()` is cut where its loops are: one connection accepted or refused, one slot
reaped, read, or one of its requests handled per step. Clients act between any two
of those steps, as the kernel lets them. A request is a record of what
`handleRequest` looks at; it is sent in two pieces, so that the buffer can end in
the middle of one. A step of `Handle` chooses whether the socket takes the answer.

### GameLoop

`idle()` is cut where it calls a component, so that a callback can do anything
between its call and its `Return`: add, remove and delete components, push and pop
screens, itself included. `called` and `stayed` are history variables of the pass.
The lists keep their holes until `Clean`, as in the code. A screen that waits to be
deleted is not pushed again: the loop does not check this obligation of its callers.

### GoomShow and GoomWidget

`Update` is the rest of `goom_update`: a goom outside a lock may draw a state; the
counters of the IFS run from frame to frame; the lines are started, recoloured, drawn
and stopped in the order of the code, their power goes back and forth between its ends
and lightens the colour they are drawn with (`Lit`); a title runs out. The widget
calls it from `draw` when the next frame is due, by a clock that may go back or jump,
and hands over a title once. `WidgetImplementsShow` states that nothing else of the
widget reaches the scene.

### FlyingStars, Tentacles, SoundTester

`Apply` adds and ages particles; `PruneTurn` is one turn of the loop that moves the
last particle over a dead one. Names, which the code does not have, let properties
follow a particle through the array. The tentacles are their two nested counters
(`happens`, `lock`), the shape resolved when a show begins or its parameter changes,
the shape the grids carry, which is the one `surf3d.c` draws and which only two of the
three ways to draw bring up to date, and the steps of the envelope, up to the rounding
of the float that counts them. The detector works on hundredths of `accelvar`, with
the arithmetic of the code on its limit.

### MicSource

The callback writes and `getSample` copies sample by sample; both hold the lock of
the device, which is a variable here, so that its absence is a mutant. `MicIdle` is
the gain of `idle`, on the main thread. A sample scaled beyond sixteen bits wraps, as
the cast does.

### IgpSession and IgpPing

The table is an array searched from its start and emptied by moving the last peer over
the one that leaves. Within a session of the message boxes messages arrive in order
and once, or are lost. When a session ends the server forgets the peer, and what the
box knew of its numbers: what had been delivered may be delivered again, as the run
`udp_once` shows of `UdpBox`. `Repeat` is the first request of a client that comes to
the server once more, `Recall` a number a client was told (`told`) that comes to it
once more. The server numbers a client as often as it is asked to. A ping keeps its
two ages; the array of pending pings is scanned by `Turn`, one place per step, while
the program creates, destroys and answers.

### Redraw, Slider, Focus, EditField

The requests of `Redraw` are least fixed points (`Above`, `Below`, `Reached`): the
recursion of `requestDraw` up the parents and down the children, and of `doDraw`. A
slider holds a bag, since a container does not check that it holds a widget once. The
handlers of `Focus` are recursive operators from state to state, one per method of the
code, since a key goes down the tree and its refusal comes up again. The pointer is in
every widget of a `Spot`: the test of the code is wider than the widget by a pixel and
boxes may overlap. A lit sibling it passes over, because a later one is willing, stays
lit; `passed` is the history of those. A field's text is a sequence of letters that
ends with the cursor while it is edited.

### SdlLoop and Sounds

A turn handles the events that have come, then sleeps if the program is paused, or
reconciles the window with the preference, lets the game poll the queue, draws and
takes the shot. The list of sounds is rewritten by the callback and by the main thread,
each under the mutex.

## 3. Runs

Every property is stated in its module with the code behaviour it is about.

| Run | Checks | Shows |
|---|---|---|
| `zoom_resized` | `WipeTargetWhole`, `TableWhole`, `GaugeCommitted`, `BuildEnds`, `WipeEnds` | resizes at any frame, in builds and wipes: tables stay whole, every build and wipe ends |
| `zoom_resize_torn` | `NoTornFrame` violated | a resize while a fold is switched off tears the picture |
| `engine_auto` | `FoldLegal`, `GaugeCoherent`, `NoTornFrame`, `WipeSourceWhole` | the automatic mode, with freezes, keeps what the gauge needs |
| `engine_manual` | `ManualFoldShown` | the manual fold of the parameters is shown in the end |
| `effects` | `IfsSettled`, `PruneExact`, `WindowWhole`, `PoolDrains`, `RequestedShape`, `GoomsComeBack`, `TitleLeaves` | the scene, the effects, the detector and the microphone |
| `mic_loud` | `Normalised` violated | a loud sample after a quiet start turns over |
| `tentacle_shape` | `GridsFollow` violated | tentacles asked for while a surface is drawn: the shape changes, the grids keep the surface |
| `network` | `StopAndWait`, `ImplementsLink`, `ReliableSettles`, `NumbersUnique`, `NumberOwned` | two boxes, traffic both ways, a bad network, a box restarted before it has sent anything: a reliable link, every message settles; numbers of clients and services over sessions that end, with what was said before coming again |
| `udp_once` | `AtMostOnce` violated | a late repetition is taken for a reset and a message is delivered twice |
| `control_and_ping` | `NothingUnanswered`, `IdleEvicted`, `ValuesLegal`, `PendingExact`, `TickEnds`, `BacklogMoves`, `CompleteHandled`, `PingSettles` | three clients, two slots, a backlog of one; pings that repeat, time out and are destroyed |
| `toolkit` | `AllAlive`, `TopShown`, `EveryoneCalled`, `AskedUpwards`, `HoldsExactly`, `StrayExplained`, `FieldSettled`, `AskedDrawn`, `UserServed`, `SoundsEnd` | the loop and the toolkit, each part under all its interleavings |
| `slider_left` | `RemovedForGood` violated | a content added twice stays behind the next one |

### Bounds

*Filter and zoom.* A canvas of 4 rows with `PlainDiv = 2` and `FoldDiv = 4` gives
builds of two and four stripes, one of 2 rows a step of no row (raised to one by the
code); the algorithm only compares row numbers, so more rows repeat the middle stripe.
`Mask = 2` gives a ratio at both ends and between. Two folds and two unfolded
configurations give fold on, off and re-sectorisation. Wipes of 1 (raised to 2) and 3
frames end by themselves and by a delivery. In `GoomZoom` the delay `TIME_BTW_CHG` and
the locks are a few frames: they are only compared.

*Scene and effects.* Fades of 2 and 4 frames with the step and the densities of the
code, a lock that outlasts an appearance and is outlasted by a disappearance, as 50
frames are between 5 and 100. A pool of 4 with limits below and at its size, bursts
larger than what is left, two speeds of ageing. The power of the
lines jumps past each of its two ends. An envelope of two steps has a middle, where a
show that fades out can be asked for another shape. A period of 4 frames for the detector
with the three thresholds 1, 2, 3 in the order of 4, 7, 16. A ring of 4 samples with
windows of 2 and callbacks of 1 and 3, so that a window straddles the end of the ring
and a callback covers a whole window.

*Networks.* The UDP runs bound the messages a box creates (two against one, or three one
way) and not what the network does with them; timers of two ticks with a resend after
one give a resend, an expiry and a silent peer in each order. For the
numbers, two clients compete, or a client and a service, for two numbers given on
demand; those asked for include the first of them, which may not be had. One message
is on its way in each direction; that this is enough is the proof's answer, since
`IgpProofs` has no bound and lets any clients and services compete. Three pings are the
least for a removal in the middle.

*Control server.* More clients than slots, one request per connection and tick, room
for two requests in a buffer, so that each limit is met; ages stop at the first one
that is too old.

*Loop and toolkit.* A callback of the game loop makes two changes, which gives
"removed and added again" and "popped and pushed another". A tree of four widgets has a
container in a container and an absolute one; two contents slide over each other; the
focus has two rows beside a button, one beginning with a label, and a pointer in one
widget or between two; texts have up to two
letters, cursors typed by the user among them; two events come in a turn.

### Fairness

`FairSpec` and `EngineFair` ask that the display loop keeps calling `goom_update`,
with or without a new configuration; nothing is asked of the user, of the sound or of
the draws. `MCNetwork` asks that each box calls `idle` and nothing of the network: a
message settles by its life if nothing else. `MCControlPing` asks that the display
loop goes on with `tick`, nothing of the clients; and that an IGP client calls `idle`
and its scan goes on, no pong being promised. In `MCGoomEffects` frames follow each
other, and for `TitleLeaves` the clock runs and a draw comes, again and again, while a
frame is due: below a frame a second no frame is ever due (section 5). In `MCToolkit`
the screen is drawn once its root has asked, the loop of the program goes on (paused
or not), and SDL calls back while the device is open; nothing is asked of the user.
Liveness under fairness is model-checked only.

## 4. Proofs

`ZoomFilterProofs` proves `Spec => []IInv` and, from it, `TypeOK`, `TableWhole`,
`StripesOfOneConfig`, `WipeTargetWhole`, `WipeArmed` and `GaugeCommitted`, from the
assumptions on the constants declared in `ZoomFilter` (any set of configurations,
heights, durations, divisors). `IInv` says that nothing was drawn yet or that the
record is `Good`: of its type, its tables as high as the canvas, and two groups of
facts the properties alone do not carry. `Flags` relates the wipe to the gauge and
to the builder (a wipe, armed or active, leaves no gauge committed), without which
the forced end of a wipe could not be shown to restore the gauge; `Core` says what
the tables hold, brutT only as far as the builder has come. There is one lemma per
phase of the call; `FrameGood` chains them.

Progress follows from the same invariant, without any fairness: a call that keeps the
size of the canvas builds rows that are missing and takes none back (`BuildMovesOn`),
a wipe counts every frame and keeps its length (`WipeMovesOn`), and has frames left
while it is active (`WipeEndsInTime`). This is the safety half of `BuildEnds` and
`WipeEnds`: builds and wipes are as short as their rows and frames, if calls come.

`ZoomGaugeProofs` first looks at the filter alone. With one canvas size and folds
sharing one apex it proves `GaugeCoherent`, `NoTornFrame` and `WipeSourceWhole`. Both
assumptions are needed: the run `zoom_resize_torn` is a counterexample without the
first; without the second the manual mode is one, around an apex that a goom has left
off the centre (section 5). It then looks at the engine, and replaces the assumption
on what is delivered by what the engine delivers. `EngineImplementsFilter`: in every
mode, with any draws and through changes of size, a step of the engine is a call that
the specification of the filter allows, or leaves the filter alone;
`SectorsAlwaysLegal`: no fold ever has fewer than 2 or more than 25 sectors, however
often it is halved or doubled. Both rest on `EngineTyped` (what is composed stays in
`Composed`) and on no assumption but those on the constants. With one canvas size and
without the manual and the forced modes (`Automatic`), `FoldsAreLegal` proves
`FoldLegal` and `EngineKeepsTheGauge` the three gauge properties, by `EngineInv`:
every fold that is composed, in force or committed is around the centre of the canvas.
In every mode again, `FoldFollowsParams` is about a fold set by hand: a frame keeps
the fold in force or takes the one of the parameters, and takes it on a change, or
when the delay between two changes has run out (`NeverLate`), unless a table is being
built.

`UdpLinkProofs` proves that `UdpBox` implements `ReliableLink` (`LinkImplemented`) and
`StopAndWait` (`OneReliableAtATime`), for any boxes, messages and time outs and
whatever the network does, when a process is restarted only while it has sent nothing
(`QuietRestart`), as one that only listens. The hard step is an acknowledgement: the
code acknowledges a message it drops as already seen, so that an acknowledgement by
itself proves no delivery. The invariant `LinkInv` says of each session that
everything that has left for the peer is not younger than the message that waits
(`Waits`), that the queue is above it and in order (`Queued`), and that the last
serial number heard is that of a delivered message (`Heard`): the waiting message
cannot then be below what its peer has heard without having been delivered. One lemma
per action; `StaysInOrder` carries the sessions an action does not touch. The
assumption is needed: a sender that restarts has a message acknowledged and not
delivered (section 5). Two theorems need no assumption: `NothingLostFromSight` (a
reliable message is waiting or queued at the peer it is for until it is acknowledged
or given up, because a burst stops at the first reliable message of the queue) and
`NobodyWaitsTooLong` (what waits is younger than its life, and no known peer has been
silent too long), the safety half of `ReliableSettles`. Two say what a message box
does promise of its listeners: `DeliveredOnce` and `DeliveredInOrder` hold in the
behaviours in which no box forgets a peer it was given messages of (`Remembers`),
because what was delivered is then never above the last number heard (`HeardUpTo`).
The run `udp_once` is a counterexample without that hypothesis: to take a late number
for a reset is to forget.

`GoomShowProofs`: `ShowInv` adds to `IfsSettled` that the lock outlasts an appearance
(`lock >= ifs.recay`), the only thing that keeps a goom from starting a disappearance
in the middle of it. It gives `IfsIsSettled`, `ShowTypeCorrect` and the action property
`LinesFade` (without a scope the colour of the lines never rises, though a frame may
send them to another after it drew them, and their power, which rises and falls, never
draws them brighter than it). `WidgetImplementsShow` is a refinement:
every step of the widget is a frame of the scene or leaves it alone. `TitlesRunOut`: the
title the engine has is the last one announced (`LastShown`), and announcing it again
gives it no time.

`EffectsProofs`: `StarsInv` is the loop invariant of the pruning (what it has passed
lives, and those alive before it are those still in the array), with names distinct;
`PoolPrunedExactly` and `StarsTyped` follow for any size, limits, bursts and rates.
`MicInv` says where in the ring the samples of the last window are (`WindowInRing`)
and that what has been copied is a beginning of it (`CopyBegun`); nothing is
overwritten under the reader because both threads hold the lock of the device
(`LockWith`). `MicWindowWhole` follows for any ring, window and callbacks. Two
theorems delimit the flaw of the gain (section 5): `QuietIsNormalised` (a sample not
above the maximum the gain goes by is scaled without wrapping, so only a louder one
turns over) and `LoudestNeverFits` (that maximum is at most half of the loudest peak
ever, whatever is captured). `PoolOnlyShrinks`: above its limit the pool does not
grow, and a frame makes every particle older while the pruning makes none younger; all
are `Mortal`. `AskedShapeDrawn`: a frame that draws does so with the surface asked
for, from the first frame after the request on, and with tentacles when a show begins,
because a surface in force is the one the grids carry (`ShapeHeld`); that nothing of
the kind holds of tentacles in a show is the run `tentacle_shape`. `SilenceIsNoted`: a
period without a goom leaves the limit below its highest level, so that the next one
is silent only if it is softer.

`IgpProofs`: uniqueness (`NumbersNeverShared`) rests on numbers asked for lying below
those given on demand (`Ranged`). `NumbersStayOwned` rests on `Owned`: a number that was
given has one holder, who has it in the table or was told it, and the next one has none;
and on `Heard`: what a client believes, and what is on its way to it, it was told. A
repetition adds to what a client was told and takes nothing from anybody. Any clients,
services, numbers, queues. `PingInv` adds to `PendingExact` that a ping waits only
while the program holds it (`WaitsOwned`), and `PendingAlwaysExact` holds for any
pings and time outs. A removal in the middle of a scan moves the last ping, which the
scan then passes over; `PingsGrowOld` shows that it comes to the first one past its
time out all the same, and that repeating a ping does not make it younger.

`ControlProofs`: `CtlInv` relates the counters of a connection (`LinesFine`), says
where `tick` can be (`PlaceFine`) and that the slots it has been through are young
(`Young`), which is what `IdleEvicted` says once the tick is over. With `ValuesLegal`
it gives `EveryRequestAnswered`, `IdleAreEvicted` and `ValuesStayLegal` for any
clients, scripts and parameters. `TickIsShort` gives a tick a measure, `Work`, bounded
by the slots and their quotas of requests and lowered by each of its steps, whatever
the clients do between them. `ConnectionsHavePlaces` (`OnePlaceEach`: a client is at
one slot or at one place of the backlog) gives `BacklogMovesUp`; `NothingUndone` is
about the requests of a connection, handled once complete and never twice.

`ToolkitProofs`: a field shows what is saved because what a cancelled entry goes back
to is what was saved when it began (`BeforeKept`); a request reaches the root because
a widget points to the one container that holds it (`PointsUp`), shown on the least
fixed points from their closure; a slider holds exactly what it shows by `SlideInv`,
which follows the four phases of a slide, so that what left is gone while no ONE_SHOT
side is used (`OnlyItsContent`), and with a side that never changes, ONE_SHOT or not,
it holds what it is to show (`ContentNeverLost`): the run `slider_left` leaves a
content too many, never one too few. `AskedAreDrawn` goes with the requests: the root
asks while a widget of the screen does, and one drawing, which follows the requests
down, leaves none of the screen. `LoopInv` is about a pass of the game loop in which
callbacks change the list: what is removed leaves a hole, additions go to the end, and
the compaction, in which the last element moves into the hole as `Vector::removeAt`
does (`ios_memory.h:432-435`), loses no component and doubles none (`CompactedList`),
though it keeps no order. It gives
`OnlyAliveCalled`, `TopAlwaysShown` and `NobodyPassedOver` for any components and
screens, and any number of changes in a callback.

What the prover can reach of a liveness property is its safety half: a measure that
every step of some kind lowers, or that nothing is undone meanwhile, so that fairness
has only to bring those steps. There is one for `BuildEnds`
(`BuildMovesOn`), `WipeEnds` (`WipeMovesOn`, `WipeEndsInTime`), `ManualFoldShown`
(`FoldFollowsParams`), `PoolDrains` (`PoolOnlyShrinks`), `RequestedShape`
(`AskedShapeDrawn`), `GoomsComeBack` (`SilenceIsNoted`), `TitleLeaves`
(`TitlesRunOut`), `ReliableSettles` (`NobodyWaitsTooLong`), `PingSettles`
(`PingsGrowOld`), `TickEnds` (`TickIsShort`), `BacklogMoves` (`BacklogMovesUp`),
`CompleteHandled` (`NothingUndone`) and `AskedDrawn` (`AskedAreDrawn`).

Only model-checked:

* the liveness properties themselves, since the provers have no rule for fairness and
  `ENABLED`;
* `UserServed` and `SoundsEnd`, without a safety half: a turn of the loop does all
  that waits at once, so that nothing is left to state of its steps; the sounds that
  end leave their list by `SelectSeq`, of which the library has no theorem and whose
  recursion over a sequence would need an induction;
* `StrayExplained`, whose handlers (`Event`, `Give`, `SetActive`) are recursive over the
  tree of widgets and call each other: a statement about them is an induction over the
  tree.

Every other safety property a passing run checks is the consequence of a theorem.
`SdlLoop`, `Sounds` and `Focus` have no theorem.

## 5. Findings

Five runs end with a violation, each of a comment of the code; `PROJECT.json` quotes
them. `zoom_resize_torn`: a resize while a fold is being switched off. `udp_once`: a
late repetition taken for a reset of the peer. `mic_loud`: the gain of the microphone
bounded from the wrong side. `slider_left`: a ONE_SHOT or CUSTOM side adds its first
content twice. `tentacle_shape`: the branch that draws classic tentacles does not give
the grids their shape (`tentacle3d.c:537`), so that tentacles asked for after a surface
are not drawn in a show that goes on, with Always Show never.

Met while modelling, and left without a run:

* *Filter and zoom.* In the manual mode a fold around an off-centre apex tears the
  picture (`filters.c:1103`); a delivery passes the freeze (`goom_core.c:711`) and,
  dropped because a table is being built, is not repeated before the freeze ends. The
  last frame of a wipe is drawn at `(wipeFrames - 1) / wipeFrames`, where
  `filters.c:895` and `:1358` say full progress. `(brutD - brutS) * buffratio`
  overflows on canvases wider than 2048 pixels (`:1191`). `switchMult` may stop short
  of `BUFFPOINTMASK` by truncation (`:1330`). The mode "on" (`goom_core.c:382`) and a
  change of resolution (`:136`) leave a fold around a middle that is not the centre
  until the next goom.
* *Scene and effects.* The welcome is lost when a title is announced before the first
  frame (`GoomWidget.cpp:120`), and below a frame per second every frame is
  resynchronised to now and none is drawn (`:101`). `decay_ifs` runs down for ever
  (`goom_core.c:189`). `fx_mode` may leave its declared range
  (`flying_stars_fx.c:421`). The lock of the tentacles is read uninitialised
  (`tentacle3d.c:99`): a negative one rests for ever. Lines may be sent to a colour
  after they were drawn (`lines.c:134`).
* *Message box.* When the *sender* restarts, the message whose number its peer heard
  last in the former life is acknowledged and never delivered
  (`ios_udpmessagebox.cpp:213`); a message given up leaves those behind it in the
  queue until the next send (`:174`); an acknowledgement is matched by its number with
  every peer (`:297`).
* *IGP.* A client keeps a number that the server has forgotten
  (`ios_igpclient.cpp:106`); a repetition of its first request, delivered after its
  session was reset, gives it another number in the server, and both that one and the
  first can come to it last (`ios_igpmessagelistener.cpp:67`); a number that is
  refused gets no answer (`ios_igpmessagelistener.cpp:83`); one pong answers every
  pending ping (`ios_igpclient.cpp:123`).
* *Control server.* A client that sends a request and shuts its side down gets no
  answer when both are seen by one `tick` (`:404`); the limit of 16384 bytes is tested
  on the whole buffer (`:401`); after a stall longer than the time out every
  connection is reaped, pending requests or not (`:367`).
* *Game loop.* After a screen was pushed by an event, the other events of the same
  pass reach no screen (`gameloop.cpp:286`). A screen deleted once popped must not be
  pushed or popped again before (`:231`), which the loop does not check. `doDraw`
  writes its flag after `draw`, so that a request made while drawing is lost (`:46`).
* *Toolkit.* `AbsoluteContainer::add` asks for no drawing, and a child exchanged by
  `changeChild` keeps its pointer to the container. A side set to ONE_SHOT in the
  middle of a slide out loses the content, and with no content it is dereferenced
  (`gameui.cpp:971`). A row that may not roll over and is entered at a label of the
  same number loops for ever in `handleKeyboardFocus` (`:626`). `Box::giveFocus` tests
  its bound after it has used it (`:708`). `kRight` on an empty entry reads before the
  text (`:1923`); a repeated key outlives the focus (`:1699`).
* *Front end.* `AudioManager::init` does not tell the mixer that sounds are off
  (`audio.cpp:50`), and `soundOnOff` then returns early; mixing wraps at sixteen bits
  (`SdlAudioManager.cpp:135`). F11 and Alt+Enter lack the repeat guard of 'f'
  (`SdlMain.cpp:251`); the press of a shortcut is kept from the game and its release
  is not; a controller unplugged while tilted leaves its last axis.

Assumptions on callers, which the code does not check: a screen that waits to be deleted
is not pushed again; a content is given with a ONE_SHOT side, and the side is not
changed to it in a slide; a field is set by its owner only while it is not edited;
`HoldsExactly` is claimed of slides that never met a ONE_SHOT side (`plain`).

## 6. Not modelled

Numerical code with no state shared between actors: displacement fields, pixel kernels,
the fractal, the convolution, meshes, fonts, images. Containers, strings and
serialisation (`iosfc`), OpenGL, paks, dictionaries: data structures and calls of other
libraries. Vendored libraries. These are most of the lines of the repository: the
tables of `motif_goom*.h` and `gfontrle.c`, `SOIL`, `sparsehash` and the OpenGL context
alone are more than what is modelled.

Of modelled parts: layout and the lists with a scroll bar; `CycledComponent` and
`Scheduler`, which nothing in the repository uses; the virtual boxes and the TCP loop of
the IGP server (`ios_server.cpp`); music, which can no longer be loaded. Not compiled:
`ThreadedResourceManager.h`, only under `THREADED_RESOURCE_MANAGER`, which no build
defines. `PROJECT.json` gives every part its status.

## 7. Plan

What is left, in order of importance:

1. The safety half of `SoundsEnd`, once the list of sounds is rewritten in a form the
   library has theorems about.
2. `IgpSession` over `UdpBox` itself, in place of the sessions it assumes, in order and
   once in each of them and with repetitions between them.
3. The layout of boxes (`arrangeWidgets`, `suspendLayout`) as an algorithm.
4. The parameters and their listeners; the choice of the resolution by the widget.
