------------------------------ MODULE RaceRoom ------------------------------
(***************************************************************************)
(* The life of one room inside the engine: the handlers of EngineWorker,   *)
(* RoomManager and RaceController that touch it, the 1 Hz tick, the sockets *)
(* that act on it, the drain on SIGTERM and the loss of the in-memory store *)
(* when the process dies.                                                   *)
(*                                                                         *)
(* In unified and loopback mode every await of a handler is on a value that *)
(* is already there, so a handler runs to completion before the next event *)
(* or timer: one handler is one action.                                     *)
(*                                                                         *)
(* Timestamps are kept relative to now and stop counting where no guard can *)
(* tell larger values apart, so time needs no horizon. Elapse advances them.*)
(***************************************************************************)
EXTENDS Integers, FiniteSets

CONSTANTS
    Ids,         \* player ids; the gateway draws a fresh one for each socket
    Null,        \* the null of a nullable id
    MaxPlayers,  \* MAX_PLAYERS_PER_ROOM
    Countdown,   \* COUNTDOWN_DURATION_MS, in units of Elapse
    PreStart,    \* PRE_START_GRACE_MS
    GraceTime,   \* room.graceSeconds, the host's choice for this race
    DiscGrace,   \* the 60 s a disconnected player keeps the seat
    Punctual     \* TRUE: a tick is never later than one unit of time

ASSUME IdsAssumption == Null \notin Ids
ASSUME LimitsAssumption ==
    /\ MaxPlayers \in Nat \ {0}
    /\ Countdown \in Nat \ {0}
    /\ PreStart \in Nat \ {0}
    /\ GraceTime \in Nat \ {0}
    /\ DiscGrace \in Nat \ {0}
ASSUME PunctualAssumption == Punctual \in BOOLEAN

VARIABLES
    phase,          \* room.state, or "none" when the store has no room
    members,        \* the keys of room.players
    host,           \* room.hostId
    flagged,        \* the players whose isHost is true
    ready,          \* the players whose isReady is true, in the lobby only:
                    \* every way back to it assigns isReady anew
    before,         \* joinedAt, as the order it puts on the members: two who
                    \* joined in the same millisecond are not ordered
    typing,         \* charStates, progress and finishedAtServerMs of a player
    disc,           \* time since disconnectedAt, or Never
    clock,          \* time since start_race set startsAtServerMs, or Never
    graceLeft,      \* graceEndsAtServerMs - now, or Never
    firstFinisher,  \* room.firstFinisherId
    sock,           \* the socket of an id and the room the gateway gives it
    drain,          \* EngineWorker.draining, and whether a poll has ended it
    tickDue         \* the interval timer has expired (only when Punctual)

roomVars == <<phase, members, host, flagged, ready, before, typing,
              disc, clock, graceLeft, firstFinisher>>
vars == <<roomVars, sock, drain, tickDue>>

Phases == {"none", "lobby", "countdown", "racing", "grace", "finished"}

\* The null of a nullable time.
Never == -1

\* The states the drain waits for.
ActivePhases == {"countdown", "racing", "grace"}

TypeOK ==
    /\ phase \in Phases
    /\ members \subseteq Ids
    /\ host \in Ids \cup {Null}
    /\ flagged \subseteq Ids
    /\ ready \subseteq Ids
    /\ before \subseteq Ids \X Ids
    /\ typing \in [Ids -> {"blank", "typing", "done"}]
    /\ disc \in [Ids -> Never .. DiscGrace]
    /\ clock \in Never .. Countdown + PreStart
    /\ graceLeft \in Never .. GraceTime
    /\ firstFinisher \in Ids \cup {Null}
    /\ sock \in [Ids -> {"closed", "away", "here"}]
    /\ drain \in {"no", "draining", "drained"}
    /\ tickDue \in BOOLEAN

Done(ty) == {p \in members : ty[p] = "done"}
StillTyping(ty) == {p \in members : disc[p] = Never /\ ty[p] # "done"}

Nobody == [p \in Ids |-> "blank"]

Init ==
    /\ phase = "none" /\ members = {} /\ host = Null
    /\ flagged = {} /\ ready = {} /\ before = {}
    /\ typing = Nobody
    /\ disc = [p \in Ids |-> Never]
    /\ clock = Never /\ graceLeft = Never /\ firstFinisher = Null
    /\ sock = [p \in Ids |-> "closed"]
    /\ drain = "no"
    /\ tickDue = FALSE

\* The store forgets the room.
DeleteRoom ==
    /\ phase' = "none" /\ members' = {} /\ host' = Null
    /\ flagged' = {} /\ ready' = {} /\ before' = {}
    /\ typing' = Nobody
    /\ disc' = [p \in Ids |-> Never]
    /\ clock' = Never /\ graceLeft' = Never /\ firstFinisher' = Null

(***************************************************************************)
(* RoomManager.removePlayer for every player of gone, in any order. The    *)
(* room is deleted with its last player. When the host goes, the earliest  *)
(* of the connected players is promoted, or of all when none is connected. *)
(* The sort leaves those with the same joinedAt in the order of the Map,    *)
(* which a takeover changes: any of them may come first.                   *)
(* ty is the value of typing the caller has reached.                       *)
(***************************************************************************)
Eldest(S) == {p \in S : \A q \in S : <<q, p>> \notin before}

Heirs_AnyMember(S) == Eldest(S)
Heirs(S) ==
    LET connected == {p \in S : disc[p] = Never}
    IN  Eldest(IF connected # {} THEN connected ELSE S)

RemovePlayers(gone, ty) ==
    LET stay == members \ gone IN
    /\ \/ /\ stay = {}
          /\ DeleteRoom
       \/ /\ stay # {}
          /\ members' = stay
          /\ \/ host \in stay /\ UNCHANGED host /\ flagged' = flagged \cap stay
             \/ /\ host \notin stay
                /\ host' \in Heirs(stay)
                /\ flagged' = (flagged \cap stay) \cup {host'}
          /\ ready' = ready \cap stay
          /\ before' = before \cap (stay \X stay)
          /\ typing' = [p \in Ids |-> IF p \in stay THEN ty[p] ELSE "blank"]
          /\ disc' = [p \in Ids |-> IF p \in stay THEN disc[p] ELSE Never]
          /\ UNCHANGED <<phase, clock, graceLeft, firstFinisher>>
    /\ sock' = [p \in Ids |-> IF p \in gone /\ sock[p] = "here"
                              THEN "away" ELSE sock[p]]

-----------------------------------------------------------------------------
(* Sockets.                                                                *)

\* A browser opens a socket. Its id is a fresh UUID: one nothing refers to.
Connect(p) ==
    /\ sock[p] = "closed"
    /\ p \notin members \cup {host, firstFinisher}
    /\ sock' = [sock EXCEPT ![p] = "away"]
    /\ UNCHANGED <<roomVars, drain, tickDue>>

\* The socket closes or fails its heartbeat: client_disconnected carries the
\* room the gateway has for the socket, and handlePlayerDisconnect of another
\* room does not concern this one.
Disconnect(p) ==
    /\ sock[p] # "closed"
    /\ sock' = [sock EXCEPT ![p] = "closed"]
    /\ disc' = IF sock[p] = "here" /\ p \in members
               THEN [disc EXCEPT ![p] = 0] ELSE disc
    /\ UNCHANGED <<phase, members, host, flagged, ready, before, typing,
                   clock, graceLeft, firstFinisher, drain, tickDue>>

\* The player creates, joins or rejoins another room without leaving this one:
\* assignRoom overwrites the room of the socket.
GoElsewhere(p) ==
    /\ sock[p] = "here"
    /\ sock' = [sock EXCEPT ![p] = "away"]
    /\ UNCHANGED <<roomVars, drain, tickDue>>

-----------------------------------------------------------------------------
(* Room handlers.                                                          *)

\* A draining engine refuses create_room, join_room and start_race.
Admits_Always == TRUE
Admits == drain = "no"

CreateRoom(p) ==
    /\ Admits /\ phase = "none" /\ sock[p] # "closed"
    /\ phase' = "lobby"
    /\ members' = {p}
    /\ host' = p
    /\ flagged' = {p}
    /\ ready' = {p}
    /\ sock' = [sock EXCEPT ![p] = "here"]
    /\ UNCHANGED <<before, typing, disc, clock, graceLeft,
                   firstFinisher, drain, tickDue>>

\* joinedAt is the time of the latest join. Those of tied joined in the same
\* millisecond.
JoinedLast(p, tied) ==
    {b \in before : p \notin {b[1], b[2]}}
        \cup ((members \ ({p} \cup tied)) \X {p})

\* The other members nobody has joined after.
Latest(p) ==
    {q \in members \ {p} : \A r \in members \ {p} : <<q, r>> \notin before}

\* addPlayer looks neither at the state of the room nor at whether the player
\* is already in it: a second join replaces the player's record.
JoinRoom(p) ==
    /\ Admits /\ phase # "none" /\ sock[p] # "closed"
    /\ Cardinality(members) < MaxPlayers
    /\ members' = members \cup {p}
    /\ flagged' = flagged \ {p}
    /\ ready' = ready \ {p}
    /\ \E tied \in {{}, Latest(p)} : before' = JoinedLast(p, tied)
    /\ typing' = [typing EXCEPT ![p] = "blank"]
    /\ disc' = [disc EXCEPT ![p] = Never]
    /\ sock' = [sock EXCEPT ![p] = "here"]
    /\ UNCHANGED <<phase, host, clock, graceLeft, firstFinisher,
                   drain, tickDue>>

\* rejoinPlayer with the session token of old, over the socket of new. The
\* record moves to new, over a record new may have had; the old socket is
\* closed. Here old = new is a socket that presents its own token again.
Renamed(x, old, new) == IF x = old THEN new ELSE x

RenamedSet_KeepsOld(S, old, new) ==
    IF old \in S THEN S \cup {new} ELSE S
RenamedSet(S, old, new) ==
    IF old = new THEN S
    ELSE (S \ {old, new}) \cup (IF old \in S THEN {new} ELSE {})

\* What rejoinPlayer leaves of the disconnect timers.
SeatTaken_Moved(new, old) == [disc EXCEPT ![old] = Never, ![new] = disc[old]]
SeatTaken(new, old) == [disc EXCEPT ![old] = Never, ![new] = Never]

RejoinRoom(new, old) ==
    /\ phase # "none" /\ sock[new] # "closed" /\ old \in members
    /\ members' = (members \ {old}) \cup {new}
    /\ host' = Renamed(host, old, new)
    /\ firstFinisher' = Renamed(firstFinisher, old, new)
    /\ flagged' = RenamedSet(flagged, old, new)
    /\ ready' = RenamedSet(ready, old, new)
    /\ before' = IF old = new THEN before
                 ELSE {<<Renamed(b[1], old, new), Renamed(b[2], old, new)>> :
                         b \in {c \in before : new \notin {c[1], c[2]}}}
    /\ typing' = [p \in Ids |-> CASE p = new -> typing[old]
                                  [] p = old /\ old # new -> "blank"
                                  [] OTHER -> typing[p]]
    /\ disc' = SeatTaken(new, old)
    /\ sock' = [sock EXCEPT ![old] = "closed", ![new] = "here"]
    /\ UNCHANGED <<phase, clock, graceLeft, drain, tickDue>>

LeaveRoom(p) ==
    /\ sock[p] = "here" /\ p \in members
    /\ RemovePlayers({p}, typing)
    /\ UNCHANGED <<drain, tickDue>>

SetReady(p, r) ==
    /\ sock[p] = "here" /\ phase = "lobby" /\ p \in members
    /\ ready' = IF r THEN ready \cup {p} ELSE ready \ {p}
    /\ UNCHANGED <<phase, members, host, flagged, before, typing, disc,
                   clock, graceLeft, firstFinisher, sock, drain, tickDue>>

-----------------------------------------------------------------------------
(* The race, as transition() and the handlers of its host and typists.     *)

Commands(p) == sock[p] = "here" /\ phase # "none" /\ p = host

\* What transition() does to every player on the way to lobby and countdown.
ResetPlayers_KeepsFinisher ==
    /\ typing' = Nobody
    /\ graceLeft' = Never
    /\ UNCHANGED firstFinisher
ResetPlayers_ConnectedOnly ==
    /\ typing' = [p \in Ids |-> IF disc[p] = Never THEN "blank" ELSE typing[p]]
    /\ graceLeft' = Never
    /\ firstFinisher' = Null
ResetPlayers ==
    /\ typing' = Nobody
    /\ graceLeft' = Never
    /\ firstFinisher' = Null

\* return_to_lobby clears the readiness of the host as well.
ReturnToLobby(p) ==
    /\ Commands(p) /\ phase \in {"finished", "countdown"}
    /\ phase' = "lobby"
    /\ clock' = Never
    /\ ResetPlayers
    /\ ready' = {}
    /\ UNCHANGED <<members, host, flagged, before, disc, sock, drain, tickDue>>

\* start_race from finished passes through transition(room, "lobby").
StartRace(p) ==
    /\ Admits /\ Commands(p) /\ phase \in {"lobby", "finished"}
    /\ phase' = "countdown"
    /\ clock' = 0
    /\ ResetPlayers
    /\ ready' = {}
    /\ UNCHANGED <<members, host, flagged, before, disc, sock, drain, tickDue>>

\* start_race with an unknown passage id: refused, but only after a finished
\* room was taken back to the lobby.
StartRaceRefused(p) ==
    /\ Admits /\ Commands(p) /\ phase = "finished"
    /\ phase' = "lobby"
    /\ clock' = Never
    /\ ResetPlayers
    /\ ready' = flagged
    /\ UNCHANGED <<members, host, flagged, before, disc, sock, drain, tickDue>>

(***************************************************************************)
(* RaceController.tick on this room. Each of the first three cases ends in  *)
(* a continue, so a tick that changes the state evicts nobody.             *)
(***************************************************************************)
MustBegin == phase = "countdown" /\ clock >= Countdown
MustClose(ty) == phase = "racing" /\ firstFinisher = Null /\ Done(ty) # {}
MustEnd_Early(ty) == phase = "grace" /\ (StillTyping(ty) = {} \/ graceLeft <= 1)
MustEnd_NeverExpires(ty) == phase = "grace" /\ StillTyping(ty) = {}
MustEnd(ty) == phase = "grace" /\ (StillTyping(ty) = {} \/ graceLeft = 0)

BeginRacing ==
    /\ MustBegin
    /\ phase' = "racing"
    /\ UNCHANGED <<graceLeft, firstFinisher>>

BeginGrace_OneMore(ty) ==
    /\ MustClose(ty) /\ StillTyping(ty) # {}
    /\ phase' = "grace"
    /\ firstFinisher' \in Done(ty)
    /\ graceLeft' = GraceTime + 1
BeginGrace(ty) ==
    /\ MustClose(ty) /\ StillTyping(ty) # {}
    /\ phase' = "grace"
    /\ firstFinisher' \in Done(ty)
    /\ graceLeft' = GraceTime

EndRace(ty) ==
    /\ \/ MustClose(ty) /\ StillTyping(ty) = {}
       \/ MustEnd(ty)
    /\ phase' = "finished"
    /\ UNCHANGED <<graceLeft, firstFinisher>>

Expired_NotTheHost == {p \in members \ {host} : disc[p] = DiscGrace}
Expired == {p \in members : disc[p] = DiscGrace}

TickRoom(ty) ==
    \/ /\ BeginRacing \/ BeginGrace(ty) \/ EndRace(ty)
       /\ typing' = ty
       /\ UNCHANGED <<members, host, flagged, ready, before, disc, clock, sock>>
    \/ /\ ~MustBegin /\ ~MustClose(ty) /\ ~MustEnd(ty)
       /\ \/ /\ Expired # {}
             /\ RemovePlayers(Expired, ty)
          \/ /\ Expired = {}
             /\ typing' = ty
             /\ UNCHANGED <<phase, members, host, flagged, ready, before, disc,
                            clock, graceLeft, firstFinisher, sock>>

Tick ==
    /\ phase # "none"
    /\ TickRoom(typing)
    /\ tickDue' = FALSE
    /\ UNCHANGED drain

\* The checks of validateKeystroke that the room decides: it refuses lobby and
\* countdown only. Its checks on the key itself are in TypingSession.
MayType(p) ==
    /\ phase \in {"racing", "grace", "finished"}
    /\ clock >= Countdown + PreStart
    /\ typing[p] # "done"

\* Whether the handler ticks the room at once, having moved the player to t.
TicksNow_Grace(t) == t = "done" /\ phase = "grace"
TicksNow(t) == t = "done" /\ phase \in {"racing", "grace"}

\* An accepted keystroke, which may be the one that completes the passage.
Keystroke(p) ==
    /\ sock[p] = "here" /\ p \in members /\ MayType(p)
    /\ \E t \in {"typing", "done"} :
         LET ty == [typing EXCEPT ![p] = t] IN
         IF TicksNow(t)
         THEN TickRoom(ty)
         ELSE /\ typing' = ty
              /\ UNCHANGED <<phase, members, host, flagged, ready, before, disc,
                             clock, graceLeft, firstFinisher, sock>>
    /\ UNCHANGED <<drain, tickDue>>

-----------------------------------------------------------------------------
(* Time, drain and restart.                                                *)

Older(age, limit) == IF age = Never \/ age = limit THEN age ELSE age + 1

\* One unit of time, longer than either key interval.
Elapse ==
    /\ phase # "none" /\ ~tickDue
    /\ clock' = Older(clock, Countdown + PreStart)
    /\ graceLeft' = IF graceLeft > 0 THEN graceLeft - 1 ELSE graceLeft
    /\ disc' = [p \in Ids |-> Older(disc[p], DiscGrace)]
    /\ tickDue' = Punctual
    /\ UNCHANGED <<phase, members, host, flagged, ready, before, typing,
                   firstFinisher, sock, drain>>

\* SIGTERM. The first poll runs with the call of drain().
BeginDrain ==
    /\ drain = "no"
    /\ drain' = IF phase \in ActivePhases THEN "draining" ELSE "drained"
    /\ UNCHANGED <<roomVars, sock, tickDue>>

PollDrain ==
    /\ drain = "draining" /\ phase \notin ActivePhases
    /\ drain' = "drained"
    /\ UNCHANGED <<roomVars, sock, tickDue>>

\* The process exits or crashes and starts again: the rooms are in memory. A drain
\* that its timeout ends is followed by the exit at once (worker.stop). With a
\* gateway of its own the sockets stay open, and the room they are in is none
\* that will be created again.
Restart ==
    /\ DeleteRoom
    /\ \/ sock' = [p \in Ids |-> "closed"]
       \/ sock' = [p \in Ids |-> IF sock[p] = "here" THEN "away" ELSE sock[p]]
    /\ drain' = "no"
    /\ tickDue' = FALSE

-----------------------------------------------------------------------------
Player(p) ==
    \/ Connect(p) \/ Disconnect(p) \/ GoElsewhere(p)
    \/ CreateRoom(p) \/ JoinRoom(p) \/ LeaveRoom(p)
    \/ \E old \in Ids : RejoinRoom(p, old)
    \/ \E r \in BOOLEAN : SetReady(p, r)
    \/ ReturnToLobby(p) \/ StartRace(p) \/ StartRaceRefused(p)
    \/ Keystroke(p)

Next ==
    \/ \E p \in Ids : Player(p)
    \/ Tick \/ Elapse
    \/ BeginDrain \/ PollDrain \/ Restart

Spec == Init /\ [][Next]_vars

\* The process runs its timers and time passes; no user has to do anything.
FairSpec == Spec /\ WF_vars(Tick) /\ WF_vars(Elapse)

-----------------------------------------------------------------------------
(* Invariants.                                                             *)

RoomHasHost ==
    /\ phase = "none" <=> members = {}
    /\ phase # "none" => host \in members
    /\ phase = "none" => host = Null

OneHostFlag == flagged \subseteq {host}

\* The engine deletes a room with its last player (removePlayer), and as long
\* as the room exists its host is one of its players, through leaves,
\* evictions and takeovers. Never are two players flagged as host, nor one that
\* is not room.hostId: the flag lives in the player record, the id in the room,
\* and removePlayer, addPlayer and rejoinPlayer each move only what they think
\* of.
HostSound == RoomHasHost /\ OneHostFlag

\* A socket the gateway gives to the room belongs to a player of the room who
\* does not count as disconnected, and only a player without a socket does:
\* no player is evicted (tick) while playing.
SeatMatchesSocket ==
    \A p \in Ids :
        /\ sock[p] = "here" => p \in members /\ disc[p] = Never
        /\ disc[p] # Never => p \in members /\ sock[p] = "closed"

RaceFields ==
    /\ clock = Never <=> phase \in {"none", "lobby"}
    /\ phase \in {"racing", "grace", "finished"} => clock >= Countdown
    /\ phase \in {"none", "lobby", "countdown", "racing"} =>
         graceLeft = Never /\ firstFinisher = Null
    /\ phase = "grace" => graceLeft # Never /\ firstFinisher # Null
    /\ graceLeft = Never <=> firstFinisher = Null

\* No finish goes unnoticed: while the race is still "racing" nobody has
\* finished, because the handler of the finishing keystroke ticks the room
\* before any other event can see it.
FinishNoticed == phase = "racing" => Done(typing) = {}

CleanStart == phase \in {"none", "lobby", "countdown"} => typing = Nobody

\* What transition() and tick() leave in the record of a race: a start time
\* exactly from countdown to finished, a finisher and an end of grace once grace
\* began, and nothing of the race before when the next one starts: not from a
\* player who was disconnected over the reset, not from one who joined or took
\* over a seat in between.
RaceRecordSound == RaceFields /\ CleanStart

\* A drain that ended by polling (EngineWorker.drain) cuts no race: none can
\* begin between the poll that found the room idle and the exit.
DrainedIsIdle == drain = "drained" => phase \notin ActivePhases

(* Action properties.                                                      *)

\* The host changes only when the host is gone, never to a player who is not
\* there while one who is remains, and then never over one who joined earlier,
\* through second joins and takeovers since (removePlayer); or the host's own
\* seat moves to a new socket (rejoinPlayer).
HostHandover ==
    [][host # host' /\ host # Null /\ host' # Null =>
        /\ host \notin members'
        /\ \/ RejoinRoom(host', host)
           \/ LET connected == {p \in members' : disc'[p] = Never}
                  pool == IF connected # {} THEN connected ELSE members'
              IN  /\ host' \in pool
                  /\ \A q \in pool : <<q, host'>> \notin before'
      ]_vars

\* A race ends for everybody or not at all: it becomes "finished" only when no
\* connected player is still typing, or when the whole grace has passed since
\* the first finish.
NobodyCutShort ==
    [][phase' = "finished" /\ phase # "finished" =>
        \/ \A p \in members' : disc'[p] = Never => typing'[p] = "done"
        \/ phase = "grace" /\ graceLeft = 0
      ]_vars

\* To its players the room is the lifecycle of RaceLifecycle: the transitions
\* and finishes of transition(), tick() and the keystroke handler, and nothing
\* in between. A finish follows its player to a new socket and is lost only when
\* the player leaves, is evicted, joins again or a new race begins.
Lifecycle == INSTANCE RaceLifecycle WITH
                 players <- members, done <- Done(typing),
                 leader <- firstFinisher
ImplementsLifecycle == Lifecycle!Spec

(* Liveness, under FairSpec.                                               *)

\* A countdown does not last: tick() begins the race, unless the host goes
\* back to the lobby or the room is lost. And once somebody has finished, the
\* race ends, though players may disconnect, rejoin, join or stop typing at any
\* moment.
RaceMovesOn ==
    /\ phase = "countdown" ~> phase # "countdown"
    /\ phase = "grace" ~> phase # "grace"

\* A disconnected player returns or loses the seat, so a room is never stuck
\* with an absent host: races that begin and end in between do not postpone
\* the eviction for ever, although the tick that advances a race skips it.
SeatReleased == \A p \in Ids : disc[p] # Never ~> disc[p] = Never
=============================================================================
