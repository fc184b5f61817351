------------------------------ MODULE Membership ------------------------------
(***************************************************************************)
(* Who is in a room, told twice: by the engine (room.players) and by the    *)
(* gateway, which sends a room's broadcasts to roomMembers and stamps every *)
(* client message with ws.data.roomCode. In split mode the two are          *)
(* processes that tell each other through two FIFO streams, so each acts on *)
(* an older state of the other, and what the link loses is not sent again.  *)
(*                                                                         *)
(* Only the events that change members are messages here. What the race     *)
(* does with the players is RaceRoom; the link itself is EventLink.        *)
(***************************************************************************)
EXTENDS Integers, FiniteSets, Sequences

CONSTANTS
    Ids,         \* player ids, one for each socket
    Rooms,       \* room codes
    None,        \* the null of ws.data.roomCode
    MaxPlayers,  \* MAX_PLAYERS_PER_ROOM
    MaxUp,       \* bound: events under way to the engine when a client acts
    MaxDown      \* bound: events under way to the gateway when the engine acts

ASSUME NoneAssumption == None \notin Rooms
ASSUME BoundsAssumption == {MaxPlayers, MaxUp, MaxDown} \subseteq Nat \ {0}

VARIABLES
    sockets,   \* manager.sockets
    roomOf,    \* ws.data.roomCode of an open socket
    audience,  \* manager.roomMembers
    players,   \* room.players of a room, empty when the store has none
    absent,    \* the players whose disconnectedAt is set
    up,        \* events from the gateway to the engine
    down,      \* events from the engine to the gateway
    stale      \* history: <<p, r>> of which the last word, or the order to
               \* close the socket of p, was lost with the link

vars == <<sockets, roomOf, audience, players, absent, up, down, stale>>
gateway == <<sockets, roomOf, audience>>
rooms == <<players, absent>>

UpEvent ==
    [type : {"create", "closed", "leave"}, id : Ids, room : Rooms \cup {None}]
        \cup [type : {"join", "rejoin"}, id : Ids, room : Rooms]
DownEvent ==
    [type : {"assigned", "cleared"}, id : Ids, room : Rooms]
        \cup [type : {"disconnect"}, id : Ids]

TypeOK ==
    /\ sockets \subseteq Ids
    /\ roomOf \in [Ids -> Rooms \cup {None}]
    /\ audience \in [Rooms -> SUBSET Ids]
    /\ players \in [Rooms -> SUBSET Ids]
    /\ absent \in [Rooms -> SUBSET Ids]
    /\ \A r \in Rooms : absent[r] \subseteq players[r]
    /\ up \in Seq(UpEvent)
    /\ down \in Seq(DownEvent)
    /\ stale \subseteq Ids \X Rooms

Init ==
    /\ sockets = {} /\ roomOf = [p \in Ids |-> None]
    /\ audience = [r \in Rooms |-> {}]
    /\ players = [r \in Rooms |-> {}] /\ absent = [r \in Rooms |-> {}]
    /\ up = <<>> /\ down = <<>> /\ stale = {}

Event(type, p, r) == [type |-> type, id |-> p, room |-> r]
Heard(s) == {s[i] : i \in DOMAIN s}

-----------------------------------------------------------------------------
(* The gateway and its clients.                                            *)

\* A socket opens under a fresh UUID: one nothing refers to.
Open(p) ==
    /\ p \notin sockets
    /\ \A r \in Rooms : p \notin players[r] \cup audience[r]
    /\ \A e \in Heard(up) \cup Heard(down) : e.id # p
    /\ sockets' = sockets \cup {p}
    /\ UNCHANGED <<roomOf, audience, rooms, up, down, stale>>

\* removeSocket takes the socket out of the room it was last assigned to, and
\* the close handler reports that room, which it read before.
RemoveSocket(p) ==
    /\ sockets' = sockets \ {p}
    /\ roomOf' = [roomOf EXCEPT ![p] = None]
    /\ audience' = [r \in Rooms |-> IF r = roomOf[p] THEN audience[r] \ {p}
                                    ELSE audience[r]]
    /\ up' = Append(up, Event("closed", p, roomOf[p]))
    /\ stale' = {x \in stale : x[1] # p}

\* The client goes away or misses its heartbeat.
Close(p) ==
    /\ p \in sockets /\ Len(up) < MaxUp
    /\ RemoveSocket(p)
    /\ UNCHANGED <<rooms, down>>

\* dispatch forwards a client's message. Only leave_room rests on the room the
\* gateway knows; the others name a room of their own, or none.
Send(p) ==
    /\ p \in sockets /\ Len(up) < MaxUp
    /\ \/ up' = Append(up, Event("create", p, None))
       \/ up' = Append(up, Event("leave", p, roomOf[p]))
       \/ \E t \in {"join", "rejoin"}, r \in Rooms :
            up' = Append(up, Event(t, p, r))
    /\ UNCHANGED <<gateway, rooms, down, stale>>

AssignRoom(p, r) ==
    /\ audience' = [audience EXCEPT ![r] = @ \cup {p}]
    /\ roomOf' = IF p \in sockets THEN [roomOf EXCEPT ![p] = r] ELSE roomOf
    /\ UNCHANGED <<sockets, up, stale>>

\* A socket that has moved on keeps its new room.
ClearRoom_KeepsCode(p, r) ==
    /\ audience' = [audience EXCEPT ![r] = @ \ {p}]
    /\ UNCHANGED <<sockets, roomOf, up, stale>>
ClearRoom(p, r) ==
    /\ audience' = [audience EXCEPT ![r] = @ \ {p}]
    /\ roomOf' = [roomOf EXCEPT ![p] = IF @ = r THEN None ELSE @]
    /\ UNCHANGED <<sockets, up, stale>>

\* bindBridgeToGateway, for the events that change members.
GatewayHears ==
    /\ down # <<>> /\ down' = Tail(down)
    /\ LET e == Head(down) IN
       \/ e.type = "assigned" /\ AssignRoom(e.id, e.room)
       \/ e.type = "cleared" /\ ClearRoom(e.id, e.room)
       \/ /\ e.type = "disconnect"
          /\ \/ e.id \in sockets /\ RemoveSocket(e.id)
             \/ e.id \notin sockets /\ UNCHANGED <<gateway, up, stale>>
    /\ UNCHANGED rooms

-----------------------------------------------------------------------------
(* The engine.                                                             *)

\* A new word about p and r is on its way.
Told(p, r) == stale' = stale \ {<<p, r>>}

\* genRoomCode draws a code the store does not have. It is one of a billion:
\* that a stale reference to it is left anywhere is not modelled.
Unused(r) ==
    /\ players[r] = {} /\ audience[r] = {}
    /\ \A p \in Ids : roomOf[p] # r
    /\ \A e \in Heard(Tail(up)) \cup Heard(down) :
         e.type # "disconnect" => e.room # r

CreateRoom(p) ==
    \E r \in Rooms :
        /\ Unused(r)
        /\ players' = [players EXCEPT ![r] = {p}]
        /\ down' = Append(down, Event("assigned", p, r))
        /\ Told(p, r)
        /\ UNCHANGED absent

AddPlayer(p, r) ==
    \/ /\ players[r] # {} /\ Cardinality(players[r]) < MaxPlayers
       /\ players' = [players EXCEPT ![r] = @ \cup {p}]
       /\ absent' = [absent EXCEPT ![r] = @ \ {p}]
       /\ down' = Append(down, Event("assigned", p, r))
       /\ Told(p, r)
    \/ /\ players[r] = {} \/ Cardinality(players[r]) >= MaxPlayers
       /\ UNCHANGED <<rooms, down, stale>>

\* The token is that of any seat of the room, or of none: any two sockets may
\* be tabs of one browser.
Takeover_KeepsOldSocket(old, p, r) == <<Event("assigned", p, r)>>
Takeover(old, p, r) ==
    IF old = p THEN <<Event("assigned", p, r)>>
    ELSE <<[type |-> "disconnect", id |-> old], Event("assigned", p, r)>>

RejoinPlayer(p, r) ==
    \/ \E old \in players[r] :
         /\ players' = [players EXCEPT ![r] = (@ \ {old}) \cup {p}]
         /\ absent' = [absent EXCEPT ![r] = @ \ {old, p}]
         /\ down' = down \o Takeover(old, p, r)
         /\ Told(p, r)
    \/ UNCHANGED <<rooms, down, stale>>

\* The last to go takes the room along.
RemovePlayer_KeepsTimer(p, r) ==
    /\ players' = [players EXCEPT ![r] = @ \ {p}]
    /\ down' = Append(down, Event("cleared", p, r))
    /\ Told(p, r)
    /\ UNCHANGED absent
RemovePlayer(p, r) ==
    /\ players' = [players EXCEPT ![r] = @ \ {p}]
    /\ absent' = [absent EXCEPT ![r] = @ \ {p}]
    /\ down' = Append(down, Event("cleared", p, r))
    /\ Told(p, r)

PlayerDisconnect(p, r) ==
    /\ absent' = [absent EXCEPT ![r] = @ \cup {p}]
    /\ UNCHANGED <<players, down, stale>>

\* EngineWorker.handleEvent. A message for a room its sender is not in, or
\* for none, does nothing.
EngineHears ==
    /\ up # <<>> /\ up' = Tail(up) /\ Len(down) < MaxDown
    /\ LET e == Head(up)
           seated == e.room # None /\ e.id \in players[e.room]
       IN  \/ e.type = "create" /\ CreateRoom(e.id)
           \/ e.type = "join" /\ AddPlayer(e.id, e.room)
           \/ e.type = "rejoin" /\ RejoinPlayer(e.id, e.room)
           \/ e.type = "leave" /\ seated /\ RemovePlayer(e.id, e.room)
           \/ e.type = "closed" /\ seated /\ PlayerDisconnect(e.id, e.room)
           \/ /\ e.type \in {"leave", "closed"} /\ ~seated
              /\ UNCHANGED <<rooms, down, stale>>
    /\ UNCHANGED gateway

\* The tick removes a player 60 s after the disconnect.
Evict(p, r) ==
    /\ p \in absent[r] /\ Len(down) < MaxDown
    /\ RemovePlayer(p, r)
    /\ UNCHANGED <<gateway, up>>

-----------------------------------------------------------------------------
(* The link.                                                               *)

\* What the loss of the events c leaves the gateway wrong about: of the open
\* sockets they name, the room they tell of, or each if they end the socket.
Missed(c) ==
    {x \in sockets \X Rooms :
        \E e \in Heard(c) :
            e.id = x[1] /\ (e.type = "disconnect" \/ e.room = x[2])}

\* The link breaks and both processes live on. Of the events to the engine some
\* in a row are lost: those under way when it breaks, or at the end those the
\* full queue drops. Of those to the gateway the last are lost, with all that
\* the engine sends until there is a link again. Nothing makes up for it.
LinkBreaks ==
    /\ \E n \in 0 .. Len(up), m \in 0 .. Len(up) :
         /\ n <= m
         /\ up' = SubSeq(up, 1, n) \o SubSeq(up, m + 1, Len(up))
    /\ \E n \in 0 .. Len(down) :
         /\ down' = SubSeq(down, 1, n)
         /\ stale' = stale \cup Missed(SubSeq(down, n + 1, Len(down)))
    /\ UNCHANGED <<gateway, rooms>>

\* The engine's process is replaced: its rooms are gone. Of the events under
\* way to it the first are lost, of those to the gateway the last.
EngineRestart ==
    /\ players' = [r \in Rooms |-> {}] /\ absent' = [r \in Rooms |-> {}]
    /\ \E n \in 0 .. Len(up) : up' = SubSeq(up, n + 1, Len(up))
    /\ \E n \in 0 .. Len(down) : down' = SubSeq(down, 1, n)
    /\ stale' = {}
    /\ UNCHANGED gateway

Next ==
    \/ \E p \in Ids : Open(p) \/ Close(p) \/ Send(p)
    \/ \E p \in Ids, r \in Rooms : Evict(p, r)
    \/ GatewayHears \/ EngineHears \/ LinkBreaks \/ EngineRestart

Spec == Init /\ [][Next]_vars

-----------------------------------------------------------------------------
(* Properties.                                                             *)

\* Nobody plays deaf and nobody listens in: once the engine's events are
\* handled, the open sockets a room's broadcasts reach are those of its players,
\* whatever joins, takeovers, moves, leaves and evictions crossed on the way. A
\* socket whose last word was lost with the link is excused until the next one,
\* and only a socket left over by an engine before this one may be in a room it
\* has not joined, and that room is empty.
AudienceInStep ==
    down = <<>> =>
        \A p \in sockets, r \in Rooms : <<p, r>> \notin stale =>
            /\ p \in players[r] => p \in audience[r]
            /\ p \in audience[r] => p \in players[r] \/ players[r] = {}

\* The room the gateway writes into a client's messages is one the client is
\* in, so that leave_room and client_disconnected reach the right record.
RoomCodeTrue ==
    down = <<>> =>
        \A p \in sockets :
            roomOf[p] # None /\ <<p, roomOf[p]>> \notin stale =>
                p \in players[roomOf[p]] \/ players[roomOf[p]] = {}

(* What the repository says and the code does not do.                      *)

\* "When a WebSocket closes, Engine starts a 60-second grace timer instead of
\* immediate removal": once all events are handled, a player without a socket
\* counts as disconnected.
DropNoticed ==
    up = <<>> /\ down = <<>> =>
        \A r \in Rooms : players[r] \ absent[r] \subseteq sockets
=============================================================================
