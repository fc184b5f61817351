# Typing Race: a TLA+ verification project

TLA+ modules that model Typing Race from the keys in the browser to the drain of
its servers, TLC configurations that check them on small instances, and TLAPS
proofs of their safety properties for all values of the parameters. File paths are
relative to the repository.

Run the checks here:

    tlc -workers 2 -config MCRaceRoom.cfg MCRaceRoom      # one run of PROJECT.json
    tlapm RaceRoom_proofs.tla                             # one module of proofs

`PROJECT.json` lists components, runs, the mutation of the code that breaks each
checked property, the source lines each definition stands for, the
disagreements found between code and documents, the hazards and the theorems.

## 1. The system

A browser (`apps/web`) holds a WebSocket to a gateway (`apps/gateway`), which
forwards what the players send to the engine (`apps/engine`) and the engine's
frames back to the sockets. Gateway and engine talk through an `EventBridge`
(`packages/shared/src/bridge.ts`): a synchronous call in one process (unified),
a loopback WebSocket (split) or Redis Pub/Sub.

| Component | State | Operations | What makes it correct |
| --- | --- | --- | --- |
| `RoomManager` (`engine/src/rooms/manager.ts`) | `Room` records: players, host, first finisher | create, join, leave/evict with host promotion, disconnect, rejoin (takeover) | one host, always a player; nobody present is evicted; a takeover moves everything |
| `RaceController` (`race/controller.ts`) | `room.state`, start time, end of grace | `transition`, `tick` every second and at a finishing key | once somebody has finished the race ends, for everybody or by the whole grace (nothing ends one that nobody finishes); clean start |
| `validateKeystroke`, `correction` (`race/validate-keystroke.ts`, `engine.ts`) | charStates, progress, counters, finish of a player | accept or refuse a key, take characters back | the record is what was typed; a finish is final |
| `EngineWorker` (`engine.ts`, `index.ts`) | `draining`, timers | dispatch of client messages, drain on SIGTERM | a drain cuts no race |
| Gateway sockets (`ws/handlers.ts`, `ws/client-manager.ts`) | sockets, `ws.data.roomCode`, `roomMembers`, drain latches | open, close, heartbeat, assign and clear rooms, broadcast | the members the gateway knows are the engine's players, where no event was lost |
| Gateway entry (`index.ts`), dispatch | drain promise, rate limit | drain, stop, shutdown; filter and forward frames | waits for the engine, but not for nothing |
| `LoopbackIpcClient/Server` | pending queue, reconnect delay | send, queue, flush, reconnect | events arrive at most once and in order; those queued below the cap are not lost |
| `IpRateLimiter` | creation times per IP | `checkAndConsume` | at most 10 in any hour |
| Clock sync (`clock/sync.ts`, `web/src/net/clock.ts`) | none | NTP estimate | error at most half the round trip |
| `TypingEngine` (`web/src/core/typing-engine.ts`) | cursor, charStates, error streak | key, backspace | same rules as the engine |
| `RaceClient` (`web/src/net/race-client.ts`) | socket, rejoin flags, stores | connect, reconnect, rejoin, dispatch | returns to the room or says so |
| Views, stores (`App.tsx`, `store/*`) | what is shown | react to frames | agrees with the engine after any rejoin |
| Solo mode (`SoloView.tsx`) | phase, timer, text, input flag | keys by two kinds of events, restart, finish | ended by its own clock; a press counts once |
| Toast queue, cursor manager | queue and timers; positions | add, pause, expire; receive, draw | no toast stays; no caret where nobody was |
| Results (`ResultsBoard.tsx`, `scoring.ts`) | speed, accuracy | note, sort | finishers come first |

They interact by calls (bridge), messages (sockets), shared state (the `Room`
object is one reference that all handlers and the tick mutate) and timers (the
1 Hz tick, the drain poll, the heartbeat, client reconnects).

**What is hard here.** The order of joins, takeovers, drops and evictions
against each other and against the tick; finishing keys against the tick; a
drain against a race that is starting; ids that are renamed while their old
socket is closing; a player in two rooms; two copies of the typing rules that
only talk one way; the loss of frames at a drop, a reload or a refusal, and of
events with the link between the processes; tabs
that take one player's seat from each other while their sockets close, fail and
come back; two processes that tell each other who is in a room; a restart that
loses all rooms. `PROJECT.json` lists each hazard at its line with
the properties that cover it, or says why none does.

The modules, and what they take from each other:

| Module | Models | Composed with |
| --- | --- | --- |
| `RaceRoom` | one room in the engine, its tick, its drain, its sockets | implements `RaceLifecycle` |
| `RaceLifecycle` | what a room promises: members, states, finishes | abstract |
| `TypingSession` | browser, channel and record of one typist | keystroke and end of race are those of `RaceRoom` |
| `Drain` | engine and gateway shutting down, in split mode | |
| `Membership` | engine and gateway keeping the members of rooms, in split mode | its streams are what `EventLink` gives |
| `Tabs` | the tabs of one browser against gateway and room | the room's moves are those of `RaceLifecycle` |
| `EventLink`, `Toasts`, `RateLimiter`, `CursorBuffer`, `Solo`, `ClockSync`, `Standings` | parts with a state and timers of their own | `MCParts` runs each by itself |
| `MC*`, `*_proofs`, `RaceRoom_refinement` | instances for TLC; theorems | |

## 2. What is modelled

### RaceRoom

The life of one room: the handlers of `EngineWorker`, `RoomManager` and
`RaceController` that touch it, the sockets that act on it, the tick, the drain
and the loss of the process.

| TLA+ | code |
| --- | --- |
| `phase`, `members`, `host`, `firstFinisher` | `room.state` (or no room), `room.players`, `room.hostId`, `room.firstFinisherId` |
| `flagged`, `ready` | `player.isHost`, `player.isReady` |
| `before` | the order of `player.joinedAt`; players who joined in the same millisecond are not in it |
| `typing[p]` | nothing typed yet, typing, or `finishedAtServerMs` set |
| `disc[p]`, `clock`, `graceLeft` | time since `disconnectedAt`, time since the start command (3 s before `startsAtServerMs`), time to `graceEndsAtServerMs`; `Never` for null |
| `sock[p]` | no socket, a socket whose `ws.data.roomCode` is not this room, or is |
| `drain` | `EngineWorker.draining`; `"drained"` once a poll has found no race. A drain that runs into its limit exits at once (`Restart`) |
| `tickDue` | the interval timer has expired |

*Atomicity.* In unified mode the bridge is a synchronous `emit`, in split mode
`publishToGateway` returns at once, and the store is a `Map`: every `await` of a
handler is on a value that is there, so the handler and everything it calls
runs before the next event or timer. One handler is one action. Redis mode is
different; see the plan.

*One room.* Rooms share nothing but the socket's `roomCode`. What another room
does to this one is `GoElsewhere`: a socket is assigned to another room without
leaving this one.

*Time.* Timestamps are stored relative to now and stop counting where no guard
can tell larger values apart, so no horizon is needed. `Elapse` lets one unit
pass. With `Punctual = FALSE` ticks happen at any time, early, late or never;
with `TRUE` a tick follows every unit before the next.

*Left out.* `set_corpus_config` and which passage is dealt; `cursor_position`
(touches only its own throttle); the collision retries of `genRoomCode`; the
content of the frames. Two joins may fall into the same millisecond; `sort` then
keeps the order of the `Map`, which a takeover changes, so either may be
promoted.

*Assumed of the runtime.* `ServerWebSocket.close` runs the `close` handler
before it returns, so that a heartbeat timeout (`handlers.ts`, `close` followed
by `removeSocket`) still reports the socket's room. A player id is a fresh UUID
for each socket: `Connect(p)` reuses an id only when nothing refers to it.

*Abstractly.* `RaceLifecycle` keeps the state of the race, the players, who has
finished and who was first, and knows no hosts, sockets, timers or drains. Its
actions are what the players are promised: which state follows which; that the
first finish and the move to grace (or the end) are one step; that a finish stays
with its player through a takeover, and is lost only to a player who leaves, is
evicted or joins again, or to a new race. `RaceRoom` implements it under
`players <- members`, `done <- Done(typing)`, `leader <- firstFinisher`.

### TypingSession

One typist: the `TypingEngine` in the browser (`index`, `shown`, `run`,
`finished`), the frames under way (`channel`, FIFO as a WebSocket is), and the
engine's record of the player (`progress`, `states`, `total`, `errors`,
`stamped`). `recent` and `settling` stand for the refusals that time causes:
20 ms since the last accepted frame; 50 ms after the start or 500 ms after a
rejoin. A key is right or wrong; at a space only the space can be typed, and
nowhere else, on both sides. `Reload` is a reloaded page with App's automatic
rejoin: the record stays, the browser starts at the front, what the old socket
had not delivered is lost. `RaceClient.send` drops a frame whose socket is not open
without a word (`race-client.ts:122`); here such a frame counts as under way until
the reload, and the behaviours in which the engine handles none of them are those
of the code. `EndRace` is the end of the race for any reason; in
`RaceRoom` its reasons are modelled, and there the keystroke is one action
whose effect is "typing" or "done".

*Left out.* Speeds (`currentWpm`), the display (the frames back to the typist
only feed the stores), `append` (in `Solo`), and a second tab that takes over in
the middle without a reload (the seat is in `Tabs`; the keys are not).

### Drain

Shutting down in split mode. Engine and gateway are separate processes that a
supervisor terminates (`EngineTerm`, `GatewayTerm`), kills (`...Crash`) and
starts again in any order, and the loopback link between them opens and breaks.

| TLA+ | code |
| --- | --- |
| `engine`, `gw` | the processes; `"draining"` is `EngineWorker.draining`, `"waiting"` is a gateway inside `drain()` |
| `races` | how many rooms are in countdown, racing or grace |
| `link`, `pipe`, `asked` | the gateway's socket to this engine; the events `draining` and `drained` on the way; `start_race` frames on the way or in `pendingQueue` |
| `draining`, `drained`, `announced`, `own` | the latches of `ClientManager` |
| `notices`, `missed`, `left` | history: `SERVER_SHUTTING_DOWN` broadcasts since the latch was last lifted, whether the `drained` that would lift it was lost, how the gateway last ended |

An engine publishes `draining` and `drained` once in its life, and the client
reconnects only after its old socket has closed, so a set of events is as good
as a queue: `draining` is handled first. An event published without a connected
gateway goes nowhere, as in `publishToGateway`. The 90 s limits are actions that
may happen at any time of a drain (`EngineCap`, `GatewayTimeout`): the two
clocks start at different SIGTERMs, and nothing rests on which is first.

`RaceRoom` has the rooms' side of a drain (which states it waits for, the
refusals, the poll against the tick); here a room is one of a number. Unified
mode has no latches to go wrong: `drain()` awaits `EngineWorker.drain` itself.
Under Redis the events travel alike, but the channel outlives the engine; that
is not modelled.

### Tabs

Two or more tabs of one browser, which share the session cookie of one player,
against the gateway and the engine.

| TLA+ | code |
| --- | --- |
| `conn`, `retry`, `rejoining`, `relax`, `taken` | `RaceClient`: socket, `reconnectTimer`, `rejoining`, `resetRejoiningTimeout`, `sessionTakenOver` |
| `pend` | the listener that sends `rejoin_room` once the socket is open: App's on load, or `rejoin()`'s |
| `banner`, `shown`, `hash`, `cookie` | App's `sessionTakenOver`; what decides the view (`roomCode`, `passageText`, `countdownStartsAtServerMs`, `raceEndResults`); the URL; `document.cookie` |
| `down` | the frames under way to the socket of a tab, FIFO; `"close"` is its close event |
| `seat`, `phase` | the tab whose socket the player has, nobody's (`"empty"`), or no such player (`"absent"`); `room.state` |
| `joined`, `loose` | history, for the properties |

`Split` says whether engine and gateway are two processes. If they are, each is
replaced by itself: a new engine has no rooms while the gateway keeps its sockets
(`EngineRestart`), a new gateway has no sockets while the engine keeps its rooms
(`GatewayRestart`), and the link loses the end of what the engine sent
(`FramesLost`). In one process both go together (`Restart`).

A request is handled when it is sent, or it is lost, with its socket or with the
link. What the order of requests and frames can do is in the frames, which wait.
One request is not so simple: a `rejoin_room` that was forwarded before its socket
closed is handled later (`late`, `TakeSeatLate`) and takes the seat for a socket
that is gone. Other players are the moves of the room
(`RoomMoves`, `LobbyChanges`). `grace` is shown as `racing` is. A socket may fail
to open, drop, or be closed by the server; `Load` is a reload or a new tab.

### Membership

The members of rooms, told twice, in split mode: `players` and `absent`
(`disconnectedAt`) in the engine; `sockets`, `roomOf` (`ws.data.roomCode`) and
`audience` (`roomMembers`) in the gateway; `up` and `down` are the two streams,
with only the events that change members. Any socket may rejoin any seat of a
room, since any two may be tabs of one browser. `LinkBreaks` is a link that breaks
while both processes live on: it loses the last events to the gateway (those under
way and all that the engine sends until there is a link again,
`loopback-server.ts:73`) and some in a row to the engine (those under way when it
breaks, or those the full queue drops, `loopback-client.ts:109`). `EngineRestart`
replaces the engine. Nothing is sent again in either case; `stale` remembers of
which socket and room the last word was lost. What the race does with players is
not repeated here.

### The parts

Each has its own small state, shares nothing with the others and is checked in
one run, `parts`, in which one of them is at work in each behaviour.

- `EventLink`: `LoopbackIpcClient` with numbered events: queue and cap, flush,
  reconnect timer, connections that break with events under way, sends that
  throw, shutdown.
- `Toasts`: `addToast` with cap and duplicates, timers, and the pauses of
  `ToastQueue`'s pointer and focus handlers, which may overlap.
- `RateLimiter`: `checkAndConsume` for one address; times are ages, and the record
  is a set of creations, since its order is never used.
- `CursorBuffer`: the positions of one opponent and the one that is drawn, as an
  exact fraction. `Repeated` is `RaceView` feeding what it knows again whenever
  the cursor store changes.
- `Solo`: phases, the clock of a timed test, top-ups of its text, and the events
  of a key press: `keydown`, a change of the hidden input, or both. Whether a key
  is right is left open.
- `ClockSync`: both attempts of `syncClock`, with any split of the round trip,
  and the frames that store another offset. Offsets are doubled, so that halves
  are integers.
- `Standings`: keystrokes of a player who does not finish, no faster than the
  engine takes them, with the speed it notes; speeds are fractions.

### Properties and runs

| Run | Instance | Distinct states | Shows |
| --- | --- | --- | --- |
| `room_safety` | 3 ids, 3 seats, all durations 1, ticks at any time | 976 k | invariants and action properties of `RaceRoom`; that it implements `RaceLifecycle` |
| `room_liveness` | 2 ids, punctual ticks | 80 k | `RaceMovesOn`, `SeatReleased` |
| `typing_session` | word of 3, space, word of 1; 2 wrong in a row; 6 keys; 2 frames under way | 2.05 M | invariants of `TypingSession`, `FinishFreezes` |
| `drain` | 2 races, 2 frames | 2.8 k | invariants, action properties and liveness of `Drain` |
| `tabs` | 2 tabs; one process and 1 frame of the room under way, or two processes and a room in the lobby | 1.45 M | invariants of `Tabs` |
| `membership` | 2 sockets, 2 rooms of 2, 1 event to the engine and 2 to the gateway | 1.08 M | invariants of `Membership` |
| `parts` | see below | 19 k | one or two properties of each part |
| `never_wedged`, `blocked_finish`, `reconnect_returns`, `dropped_unnoticed`, `starts_apart` | as above or smaller | | each is a sentence of the repository the code does not keep (section 5) |

`RaceRoom`:

- `HostSound`: a room exists while it has players, its host is one of them, and
  nobody else carries the flag. (A host who joins the room a second time loses
  the flag, not the office; the property says no more than that.)
- `HostHandover`: the host passes on to the earliest connected player only, or with
  its seat.
- `SeatMatchesSocket`: who has a socket in the room is not on the way out.
- `RaceRecordSound`: start, end of grace and first finisher are set when they
  should be, and a race starts with nothing of the last one.
- `FinishNoticed`, `NobodyCutShort`: finishes are seen at once, and the race ends
  for all or by the whole grace.
- `ImplementsLifecycle`: the refinement; among other things no finish is lost.
- `DrainedIsIdle`: an exit after a completed poll cuts no race.
- `RaceMovesOn`, `SeatReleased`: countdown, grace and absence end.

`TypingSession`: `Mirrored` (both copies of the rules agree while nothing is
refused, reloaded or over), `RecordSound` (nothing counts past the cursor, nor
more than was typed, nor fewer errors than there are), `RunBounded` (the limit on
errors in a row), `FinishFreezes`.

`Drain`:

- `LatchJustified`: no latch is left over from a drain whose end was heard;
  `Resumes`: a latch is lifted, unless the event that lifts it is lost.
- `CleanExit`: a gateway ends its wait early only when no race is left, whatever
  `drained` it has heard before.
- `AtMostOneNotice`: one broadcast for the engine's drain and the gateway's own.
- `ShutdownEnds`: both waits end, though races need not.

`Tabs`:

- `OneHolder`: a tab that was given the seat over a socket nothing is about to close
  has it, and alone, unless the room or the player is gone (a new engine tells
  nobody): no two tabs type for one player, also when a rejoin is handled late.
- `HolderSeesRoom`: with its frames handled, that tab has no banner and the view
  of the room's state. `loose` excuses a rejoin in the middle of a race and a click
  on the results until the room's next move; both do show the wrong thing then
  (section 5).
- `NoDeadSocket`: a page without a socket reconnects by itself or shows a banner
  whose click is followed, as long as the browser has the cookie and the page its
  room. Without the cookie its clicks are ignored (section 5).

`Membership`: `AudienceInStep` (once the engine's events are handled, broadcasts
reach the players and nobody else), `RoomCodeTrue` (the room stamped on a client's
messages is one it is in). Both excuse a socket for the room whose last word was
lost with the link, until the next word, and sockets left in an empty room by an
engine before this one; a lost event excuses no other socket and no other room.
That the code has such a gap at all is in section 5.

Parts: `LinkInOrder`, `LinkFlushes` (while no send throws), `ToastGoes`,
`WindowKept`, `CursorOnTheWay`, `SoloIsFair`, `SyncIsClose`, `FinishersFirst`.

*Bounds.* Three ids are the least with which a takeover, an eviction and a
promotion among two candidates meet in one room, and with which a join is
refused (`MaxPlayers = 3`, the second join of a member). Durations of 1 give
every timer a before and an after; in the liveness run they differ so that an
eviction can fall due in the countdown, the grace or later. `Symmetry` permutes
the ids in the safety run; no property distinguishes them. In `TypingSession`
the first word is longer than the error limit, so the limit bites inside it,
and six keys allow a full text with corrections or a restart after a reload.
`MaxKeys` and `MaxQueue` guard the typist only, never the engine.

In `Tabs` two tabs meet in every takeover; a third would wait for the seat as the
second does. `MaxFrames = 1` holds back the room's own moves only: frames of
takeovers and rejoins come on top, so a move can be under way before or after
either. The run has both modes, one in each behaviour. In two processes the frames
that a link may cut off and the late rejoins multiply with the room's moves, so there
`MaxFrames = 0` and the room stays in the lobby; `OneHolder` and `NoDeadSocket` do
not depend on what it does, and `HolderSeesRoom` is proved for both.

In `Membership` one event to the engine and two to the gateway let a leave, a close
or a takeover cross with an assignment; the events that the gateway itself causes
come on top of the bound. Two rooms let a socket move. With two events each way the
run passes as well, but takes eleven minutes and 16 M states.

In `parts` the queue (2) is shorter than the events (4), the toasts (3) are more than fit (2), there is one
creation (3) more than is allowed (2), the buffer of positions (3) overflows, both
durations of a timed test run out during a text that is topped up twice, the round
trip can be too long, and keys come as early as the engine takes them (the real 50
ms, 20 ms and bonus of 1000).

*Fairness.* `FairSpec` of `RaceRoom` has `WF(Tick)` and `WF(Elapse)`:
`setInterval` keeps firing while the process lives, and time passes. Nothing is
assumed of users, sockets, drains or restarts. Weak fairness suffices because both
actions stay enabled while the room exists and nothing but themselves switches
them off.

In `Drain`, `Fairness` covers the steps a living process owes (poll, limit,
handling of an event that has arrived, reconnecting) and the restart of the
engine (`restart: unless-stopped` in `docker-compose.yml`). Terminations,
crashes, losses, requests and the end of races are free. Two races and two frames
are enough for one to end or be handled while another is not; nothing compares
more.

In `parts`, `LinkFairness` is weak fairness of the close event and of the
reconnect timer, and strong fairness of the opening: an engine that is started
again whenever it goes will be there for one of the attempts, though each single
one may be refused. `ToastFairness` is that a timer fires which keeps running. The
others have safety only.

*Deadlock* is checked in every run but `parts`: a room can always be restarted,
a typist's clock run, an engine be replaced. The parts are bounded (a link that is
shut down, a clock at its last moment) and really stop.

## 3. What is proved

For all values of the constants that the named assumptions allow.

*`RaceRoom_proofs`*, for any set of ids and any positive limits: `TypeCorrect`,
`HostSafe`, `SeatSafe`, `RecordSafe`, `FinishSeen`, `DrainSafe`, `HandoverSafe`,
`CutSafe`; with *`RaceRoom_refinement`* (`RoomImplements`) this is
every property of `room_safety`.

No property but the type invariant is inductive alone. `IInv` is the conjunction
of type invariant, `HostSound`, `SeatMatchesSocket`, `RaceRecordSound`,
`FinishNoticed` and `DrainedIsIdle`. `FinishNoticed` needs the clean start of
`RaceRecordSound` when a race begins and its fields when a finishing key ticks the
room (without a first finisher the tick must act); `SeatMatchesSocket` needs
`HostSound` when the room is deleted or created. Removal of players and the tick
are shared by several actions, and have lemmas of their own (`RemovePlayersInv`,
`TickRoomInv`); `NextInv` has one step per action.
The action properties follow from `IInv` step by step. The refinement maps each
action to one of `RaceLifecycle` or a stutter; `FinishNoticed` is what makes the
tick find no finisher, so that the first finish and the state that follows are
one step.

*`TypingSession_proofs`*, for any text and limits: `TypeCorrect`; `ScoreSafe`
(`RecordSound`, by counting the characters that are not pending before and after
each step); `FinishSafe`; `SidesMirror` and `RunsBounded`. The last two need the
frames under way. For `Mirrored`, the engine's record, with those frames handled
one after the other, becomes what the browser shows (`Replay`): a step of the
typist extends the chain at its end, a step of the engine shortens it at its
front. For `RunBounded`, where refusals are allowed, less is true and enough: the
engine's cursor is never ahead of where the browser's was before the next frame
(`Cursors`), so that what it accepts is written beyond its cursor, where all is
pending, and looking backwards from there is enough.

*`Drain_proofs`*, for any bounds: `TypeCorrect`, `LatchSafe`, `OneNotice`,
`ExitSafe`, all the safety of `drain`. `LatchJustified` is not
inductive: a `draining` still on the way must be justified as well
(`LatchComing`), and an engine that has said `drained` must be out of reach until
it is handled (`LastWord`), or the next engine's races would be taken for the
last one's. `LastWord` is also what `ExitSafe` rests on.

*`Tabs_proofs`*, for any number of tabs and frames, in one process and in two:
`TypeCorrect`, `HolderSafe`, `SocketSafe`, `HolderView`. The first three go together
with four more facts: the tab with the seat has it over a socket nothing is about to
close (`SeatReached`), which a late rejoin, a new gateway or a lost frame must not
disturb; only an open socket counts as given the seat (`NotYet`); a tab that was told
of a takeover has the banner and is not rejoining (`TakenTold`); a page without a
socket is about to reconnect or was told of a takeover (`ClosedWaits`). The last two
are why a click is followed. That a closed channel ends in its close event is part
of the type invariant, and `OneHolder` rests on it. `HolderView`
needs to know what the tab with the seat is still going to be told
(`HolderHears`): a banner or a missing room is followed by a rejoin, so is every
takeover under way; the last frame that tells of the room's state tells what it
is; and without such a frame the view is right already.

*`Membership_proofs`*, for any sockets, rooms and limits: `TypeCorrect`,
`AudienceSafe`, `RoomCodeSafe`, all of `membership`. The properties speak of an
empty stream; the invariant speaks of any. The last event under way to the
gateway about a socket and a room is what the engine holds of them, and without
one the gateway holds the same already (`Agreement`); a `disconnect` under way
makes all that void, since the gateway will close the socket, and so does the loss of the
last word (`stale`), for this socket and room only. `TwoRecords` relates
the gateway's own two records of a socket, `roomOf` and `audience`.

*`Solo_proofs`* (`SoloSafe`): a running test has a start time and one that is
ready has none (`StartedByKey`); a change of the input that is still to come for
a press already counted is marked (`CountedIsMarked`).

*`Parts_proofs`* has the smaller parts, each under its own specification.

- `LinkOrdered`: what the engine has read, what is under way and what is queued are
  one rising sequence (`OneStream`), as long as no send has thrown: an open link
  has nothing queued, so that nothing overtakes the queue.
- `CursorTrue`: the positions kept go forward in time and in place (`Forward`); that
  the step that is drawn is the first that reaches the time shown is the least
  member of a set of numbers (`Least`). The fractions are compared by their cross
  products.
- `LimitHolds`: what was allowed within the window is in the record, whatever else
  the record still holds (`Recorded`).
- `SyncAccurate`: while a request is served and its answer is under way, the
  server's reading lies between the two of the browser (`StampedBetween`).
- `FinishersPlacedFirst`: n keystrokes take more than n minimal intervals, and no
  more than n characters are right or wrong (`Pace`). The bonus is enough because
  of `BonusAssumption`, which relates it to the interval and holds of 1000 and
  20 ms.
- `PartsTyped`: under the specification of the run `parts`, all parts keep their
  invariants, from those lemmas and `ToastKept` (no two toasts alike, none beyond
  the cap, no timer without its toast).

The assumptions on constants say which of them are numbers, which are positive
and that a null value is none of the values it stands beside. Three say more:
`PassageAssumption` (spaces lie inside the text), `StandingsAssumption` (the 50 ms
after the start exceed the 20 ms between keys) and `BonusAssumption`.

*Only model-checked.* `RaceMovesOn`, `SeatReleased`, `Resumes`, `ShutdownEnds`,
`LinkFlushes` and `ToastGoes`: liveness, since fairness and ENABLED are beyond the
prover. Every invariant and every action property of the passing runs is proved.
Nothing proved rests on recursion, nor on operators like `SelectSeq` that are
defined by it: where the code filters a list, the model removes one element or,
if the order of the list is never used, keeps a set.

*A note on the encoding.* Null times are `Never == -1`, so that every time is an
integer: a type like `1 .. N \cup {Null}` mixes integers with an unspecified
value, which this prover's arithmetic does not keep apart.

## 4. What is not modelled, and the plan

Left of the plan, in this order:

1. The handlers of `RoomManager` and `tick` with their awaits as separate steps,
   as they run under the Redis bridge (`engine.ts:426`).
2. Two tabs that type, `Tabs` with `TypingSession`: a takeover in the middle of
   the text without a reload.

Not modelled, and why:

- `set_corpus_config`, `cursor_position`, the choice of a passage: they touch
  neither the race nor a score. `corpus.ts` keeps a deck, `dealNextPassage`, that
  no code deals from.
- HTTP routes, static files, environment, logging: stateless I/O.
- The markup of the views, layout, settings, decoration, the drawing of carets:
  presentation. The forms of lobby and landing only fill in a request.
- Texts of the solo test, statistics and rounding of displayed speeds.
- Passage data and the scripts: offline.

## 5. Where code and documents disagree

- An engine killed in the middle of a drain (Docker's default is ten seconds
  after SIGTERM, the drain may take ninety) leaves the gateway refusing rooms and
  races although the next engine is up (`handlers.ts:109`): `never_wedged`.
- A typist whose text is too inaccurate and ends in a correct word is told to
  press Backspace, which is refused (`RaceView.tsx:369`): `blocked_finish`.
- A page that loses its socket in a room reconnects and does not rejoin; it shows
  the room or the race, and nothing it sends counts (`README.md:12`):
  `reconnect_returns`.
- In split mode a socket that closes before its assignment to a room is back, or
  whose close is lost with the link, leaves a player who is never counted as
  disconnected nor evicted, and a room that is never deleted (`ARCHITECTURE.md:172`): `dropped_unnoticed`.
- The offset that a browser has measured is overwritten with 0 as soon as it
  enters a room, so countdowns are as far apart as the browsers' clocks
  (`README.md:10`): `starts_apart`.

Also seen, without a run of its own.

In the engine and the gateway:

- A host alone can start a race (`messages.ts:70` asks for two players).
- After the end of a race the keystrokes of players who were cut off are still
  accepted (`validate-keystroke.ts:6` names racing and grace only).
- A keystroke's index need not be the cursor (`README.md:58`).
- After a reload the first correct key may finish the race of a player whose
  last character is wrong (`validate-keystroke.ts:141`).
- A socket that enters a second room leaves a player behind in the first, in
  every mode, with the consequences of `dropped_unnoticed`
  (`client-manager.ts:88`, `CONCERNS.md:68`).
- In split mode an event that is lost with the link is not made up for
  (`loopback-server.ts:73`): a socket whose assignment is lost hears no broadcast of
  its room, one whose clearing is lost listens on. `manager.ts:154` takes the
  gateway's members to follow the players one to one.
- In split mode a gateway terminated alone, or just after its engine has
  drained, waits out the 90 s with no room active (`README.md:148`).
- A second drain of the engine in the life of one gateway is not announced to the
  clients (`client-manager.ts:47` says "per shutdown cycle").
- An event whose send throws waits for the next connection
  (`loopback-client.ts:106`).
- `Player.progress` is called monotonic (`race/types.ts:20`) and is lowered by
  corrections; `README.md:41` speaks of a 100 ms tick that is one second;
  `README.md:56` subtracts the 50 ms that the code adds.

In the browser:

- After a rejoin over an open socket that the engine refuses or the link loses,
  `rejoining` stays set and "Click anywhere" (`App.tsx:370`) does nothing
  (`race-client.ts:152`).
- `connect(true)` takes the handlers off the old socket, but not the listeners it
  had added: its close event still starts the reconnect timer
  (`race-client.ts:60`). `Reclaim` has this; no harm follows.
- A rejoin in the middle of a race shows the results of the last one if they were
  up, over the race under way (`race-client.ts:277`).
- The results' "Rematch" and "Return to lobby" take the board away also when the
  engine refuses (`App.tsx:570`), and a player who rejoins after the end of a race
  is not shown its results.
- The key that takes the seat back from another tab moves the cursor in the
  browser and is not sent (`App.tsx:309`).
- "Leave Room" in a tab without the seat clears the cookie all tabs share
  (`App.tsx:333`). Another tab that has lost its socket and shows the takeover banner
  is then cut off until it is reloaded: "Click anywhere or press the button to resume
  here" (`App.tsx:370`), but without a token `reclaimSession` returns at once.
- Frames still under way when a tab leaves bring the room back on its screen
  (`App.tsx:149`).
- The toast for `ROOM_NOT_FOUND` always says "Room Not Found", since its handler
  sees the room code of the first render (`App.tsx:202`).
- A toast under both the pointer and the focus runs on as soon as either leaves
  (`toast.ts:72`).
- After Space the flag that marks a key as handled stays set, and the next change
  of the hidden input that comes without a keydown is swallowed
  (`RaceView.tsx:258`, `SoloView.tsx:439`).
- A Space typed just as a timed solo test ends presses the focused "Next test"
  (`SoloView.tsx:409`).
