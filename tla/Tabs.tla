--------------------------------- MODULE Tabs ---------------------------------
(***************************************************************************)
(* One browser with several tabs on one room. The tabs share the session   *)
(* cookie of one player, so at most one of them holds that player's seat:   *)
(* RaceClient (connect, reconnect, rejoin, dispatch), what App shows, and  *)
(* the engine's and the gateway's side of a takeover.                      *)
(*                                                                         *)
(* A request is handled at once, or lost; a rejoin_room may also be        *)
(* handled when its socket has gone. Frames to a tab travel in a FIFO      *)
(* channel per socket, through the link between engine and gateway and the *)
(* socket itself; a "close" in it is the close event of that socket. The   *)
(* other players of the room appear as the moves of its state.             *)
(***************************************************************************)
EXTENDS Naturals, Sequences, FiniteSets

CONSTANTS
    Tabs,        \* the tabs of the browser
    MaxFrames,   \* bound: the room moves while fewer frames are under way
    Split        \* TRUE: engine and gateway are two processes with a link

ASSUME TabsAssumption == Tabs \cap {"empty", "absent"} = {}
ASSUME FramesAssumption == MaxFrames \in Nat
ASSUME SplitAssumption == Split \in BOOLEAN

VARIABLES
    (* RaceClient *)
    conn,        \* no page, or the readyState of its current socket
    retry,       \* tabs whose reconnectTimer runs
    rejoining,   \* tabs whose `rejoining` is set
    relax,       \* tabs whose resetRejoiningTimeout runs
    taken,       \* tabs whose `sessionTakenOver` is set in the client
    pend,        \* who waits for the socket to open to send rejoin_room
    (* App and the stores *)
    banner,      \* tabs that say "Session active in another tab"
    shown,       \* roomCode, passageText, countdownStartsAt, raceEndResults
    hash,        \* tabs with the room code in the URL
    cookie,      \* the session token is in document.cookie
    (* network, gateway and engine *)
    down,        \* frames under way to the current socket of a tab
    late,        \* a rejoin_room is under way whose socket has closed
    phase,       \* room.state, with grace as part of racing
    seat,        \* the tab whose socket has the seat, or what became of it
    (* history *)
    joined,      \* tabs whose current socket was given the seat and has not
                 \* left it, nor lost a frame since
    loose        \* those of them that have since changed what they show other
                 \* than by the room's moves: a rejoin in mid-race, a click on
                 \* the results

client == <<conn, retry, rejoining, relax, taken, pend>>
page == <<banner, shown, hash, cookie>>
server == <<phase, seat>>
vars == <<client, page, down, late, server, joined, loose>>

Phases == {"lobby", "countdown", "racing", "finished"}
FrameTypes == {"taken", "disconnect", "close", "invalid", "rejoined",
               "lobby_state", "countdown", "race_start", "race_end",
               "return_to_lobby"}

\* The engine has the gateway close a socket, or it closes by itself.
Closing == {"disconnect", "close"}

Frames == [type : FrameTypes, state : Phases]

Frame(ty) == [type |-> ty, state |-> "lobby"]
RejoinedRoom == [type |-> "rejoined", state |-> phase]

TypeOK ==
    /\ conn \in [Tabs -> {"off", "connecting", "open", "closed"}]
    /\ retry \subseteq Tabs /\ rejoining \subseteq Tabs
    /\ relax \subseteq Tabs /\ taken \subseteq Tabs
    /\ pend \in [Tabs -> {"nobody", "mount", "reclaim"}]
    /\ banner \subseteq Tabs /\ hash \subseteq Tabs /\ cookie \in BOOLEAN
    /\ shown \in [Tabs -> SUBSET {"room", "passage", "countdown", "results"}]
    /\ down \in [Tabs -> Seq(Frames)]
    /\ late \in BOOLEAN
    /\ phase \in Phases
    /\ seat \in Tabs \cup {"empty", "absent"}
    /\ joined \subseteq Tabs /\ loose \subseteq joined
    \* A channel belongs to an open socket, and nothing follows its close.
    /\ \A t \in Tabs : conn[t] # "open" => down[t] = << >>
    /\ \A t \in Tabs : \A i \in 1 .. Len(down[t]) - 1 :
         down[t][i].type \notin Closing

\* One tab has created or joined the room; the others have not been opened.
Init ==
    /\ seat \in Tabs
    /\ conn = [t \in Tabs |-> IF t = seat THEN "open" ELSE "off"]
    /\ retry = {} /\ rejoining = {} /\ relax = {} /\ taken = {}
    /\ pend = [t \in Tabs |-> "nobody"]
    /\ banner = {}
    /\ shown = [t \in Tabs |-> IF t = seat THEN {"room"} ELSE {}]
    /\ hash = {seat} /\ cookie = TRUE
    /\ down = [t \in Tabs |-> << >>]
    /\ late = FALSE
    /\ phase = "lobby"
    /\ joined = {seat} /\ loose = {}

Set(S, t, b) == IF b THEN S \cup {t} ELSE S \ {t}

\* resetRaceUi: the store forgets the race.
ResetRaceUi(s) == s \cap {"room"}

\* The view App renders for what the stores hold.
View(t) ==
    IF "results" \in shown[t] THEN "results"
    ELSE IF "passage" \in shown[t] THEN "race"
    ELSE IF "countdown" \in shown[t] THEN "countdown"
    ELSE IF "room" \in shown[t] THEN "lobby"
    ELSE "landing"

-----------------------------------------------------------------------------
(* The seat.                                                               *)

To(d, t, fs) == [d EXCEPT ![t] = @ \o fs]

\* A frame of one of these types is under way to t.
Awaits(t, types) == \E i \in 1 .. Len(down[t]) : down[t][i].type \in types

\* Nothing has closed the socket of t or is about to.
Reaches(t) == conn[t] = "open" /\ ~Awaits(t, Closing)

\* The socket of t is gone. Whether the server knows yet and has begun to count
\* the 60 s makes no difference to a rejoin.
Vanish(t) == seat' = IF seat = t THEN "empty" ELSE seat

\* The socket that had the seat is told and closed.
Evicted_ClosedFirst == <<Frame("disconnect"), Frame("taken")>>
Evicted == <<Frame("taken"), Frame("disconnect")>>

Ousted_Quietly(others) == down
Ousted(others) ==
    IF seat \in others THEN To(down, seat, Evicted) ELSE down

\* The engine handles rejoin_room: the token finds the seat, whoever has it, or
\* the room or the player is gone.
TakeSeat(t) ==
    \/ /\ seat = "absent"
       /\ down' = To(down, t, <<Frame("invalid")>>)
       /\ UNCHANGED <<seat, joined>>
    \/ /\ seat # "absent"
       /\ seat' = t
       /\ joined' = joined \cup {t}
       /\ down' = To(Ousted(Tabs \ {t}), t, <<RejoinedRoom>>)

\* rejoin_room over the open socket of t is handled, or the socket closes
\* before, and it is lost or still under way then; or it is lost with the link.
Rejoin(t) ==
    \/ /\ ~Awaits(t, Closing)
       /\ TakeSeat(t)
       /\ UNCHANGED late
    \/ /\ down' = IF Awaits(t, Closing) THEN down
                  ELSE To(down, t, <<Frame("close")>>)
       /\ Vanish(t)
       /\ late' \in {late, late \/ (Split /\ ~Awaits(t, {"close"}))}
       /\ UNCHANGED joined
    \/ /\ Split
       /\ UNCHANGED <<seat, joined, down, late>>

\* The engine handles it now: the seat is taken for a socket that is gone.
TakeSeatLate ==
    /\ late
    /\ late' = FALSE
    /\ seat' = IF seat = "absent" THEN seat ELSE "empty"
    /\ down' = Ousted(Tabs)
    /\ UNCHANGED <<client, page, phase, joined, loose>>

\* The heartbeat, or a proxy, closes a socket from the server's side.
ServerCloses(t) ==
    /\ seat = t
    /\ seat' = "empty"
    /\ down' = To(down, t, <<Frame("close")>>)
    /\ UNCHANGED <<client, page, late, phase, joined, loose>>

\* The player is removed. For this browser the room's state is over, too: only
\* a rejoin, which now fails, would look at it.
GiveUpSeat == seat' = "absent" /\ phase' = "lobby"

\* The close or the heartbeat was noticed, and the tick evicts the player.
Evict ==
    /\ seat = "empty"
    /\ GiveUpSeat
    /\ UNCHANGED <<client, page, down, late, joined, loose>>

-----------------------------------------------------------------------------
(* Failures of the server.                                                 *)

\* A new engine has no rooms. The gateway keeps its sockets.
EngineRestart ==
    /\ Split /\ seat # "absent"
    /\ GiveUpSeat
    /\ UNCHANGED <<client, page, down, late, joined, loose>>

\* A new gateway has no sockets. The engine keeps its rooms.
SocketsClose ==
    down' = [t \in Tabs |->
               IF Reaches(t) THEN down[t] \o <<Frame("close")>> ELSE down[t]]
GatewayRestart ==
    /\ Split
    /\ SocketsClose
    /\ seat' = IF seat \in Tabs THEN "empty" ELSE seat
    /\ UNCHANGED <<client, page, late, phase, joined, loose>>

\* Where they are one process it has neither.
Restart ==
    /\ ~Split /\ seat # "absent"
    /\ GiveUpSeat
    /\ SocketsClose
    /\ UNCHANGED <<client, page, late, joined, loose>>

\* The link between them breaks, and the last that the engine has sent, or
\* sends until there is a link again, does not reach the socket of t.
FramesLost(t) ==
    /\ Split /\ ~Awaits(t, {"close"})
    /\ \E n \in 1 .. Len(down[t]) :
         down' = [down EXCEPT ![t] = SubSeq(@, 1, n - 1)]
    /\ joined' = joined \ {t} /\ loose' = loose \ {t}
    /\ UNCHANGED <<client, page, late, server>>

-----------------------------------------------------------------------------
(* The room.                                                               *)

\* The room moves, by a host's command or by the tick, and tells its sockets.
\* A rematch takes the lobby and the countdown in one step.
Moves == {<<"lobby", "countdown">>, <<"finished", "countdown">>,
          <<"countdown", "racing">>, <<"racing", "finished">>,
          <<"finished", "lobby">>, <<"countdown", "lobby">>}
Announced(next) == CASE next = "countdown" -> Frame("countdown")
                     [] next = "racing" -> Frame("race_start")
                     [] next = "finished" -> Frame("race_end")
                     [] next = "lobby" -> Frame("return_to_lobby")

Broadcast(f) ==
    /\ \A t \in Tabs : Len(down[t]) < MaxFrames
    /\ IF seat \in Tabs THEN down' = To(down, seat, <<f>>)
       ELSE UNCHANGED down

RoomMoves(next) ==
    /\ seat # "absent" /\ <<phase, next>> \in Moves
    /\ phase' = next
    /\ Broadcast(Announced(next))
    /\ UNCHANGED <<client, page, late, seat, joined, loose>>

\* Another player joins, leaves or is evicted, whatever the room does, or gets
\* ready.
LobbyChanges ==
    /\ seat # "absent"
    /\ Broadcast(Frame("lobby_state"))
    /\ UNCHANGED <<client, page, late, server, joined, loose>>

-----------------------------------------------------------------------------
(* Sockets of the client.                                                  *)

\* The page is loaded, or loaded again. App rejoins if the URL names the room
\* and the browser has its cookie, as soon as a socket is open. A new tab may
\* or may not have been given the link.
Load(t) ==
    /\ \E linked \in BOOLEAN :
         /\ conn[t] # "off" => (linked <=> t \in hash)
         /\ hash' = Set(hash, t, linked)
         /\ pend' = [pend EXCEPT ![t] =
                       IF linked /\ cookie THEN "mount" ELSE "nobody"]
    /\ conn' = [conn EXCEPT ![t] = "connecting"]
    /\ retry' = retry \ {t} /\ rejoining' = rejoining \ {t}
    /\ relax' = relax \ {t} /\ taken' = taken \ {t}
    /\ banner' = banner \ {t}
    /\ shown' = [shown EXCEPT ![t] = {}]
    /\ down' = [down EXCEPT ![t] = << >>]
    /\ Vanish(t)
    /\ joined' = joined \ {t} /\ loose' = loose \ {t}
    /\ UNCHANGED <<cookie, late, phase>>

Open(t) ==
    /\ conn[t] = "connecting"
    /\ conn' = [conn EXCEPT ![t] = "open"]
    /\ pend' = [pend EXCEPT ![t] = "nobody"]
    /\ relax' = IF pend[t] = "reclaim" THEN relax \ {t} ELSE relax
    /\ \/ pend[t] = "nobody" /\ UNCHANGED <<seat, joined, down, late>>
       \/ pend[t] # "nobody" /\ Rejoin(t)
    /\ UNCHANGED <<retry, rejoining, taken, page, phase, loose>>

\* The close event. The listener a reclaim put on that socket goes with it.
Closed_NotWhileRejoining(t) ==
    /\ conn' = [conn EXCEPT ![t] = "closed"]
    /\ retry' = IF t \in taken \cup rejoining THEN retry ELSE retry \cup {t}
    /\ pend' = [pend EXCEPT ![t] = IF @ = "reclaim" THEN "nobody" ELSE @]
    /\ down' = [down EXCEPT ![t] = << >>]
    /\ joined' = joined \ {t} /\ loose' = loose \ {t}
    /\ UNCHANGED <<rejoining, relax, taken>>
Closed(t) ==
    /\ conn' = [conn EXCEPT ![t] = "closed"]
    /\ retry' = IF t \in taken THEN retry ELSE retry \cup {t}
    /\ pend' = [pend EXCEPT ![t] = IF @ = "reclaim" THEN "nobody" ELSE @]
    /\ down' = [down EXCEPT ![t] = << >>]
    /\ joined' = joined \ {t} /\ loose' = loose \ {t}
    /\ UNCHANGED <<rejoining, relax, taken>>

FailToConnect(t) ==
    /\ conn[t] = "connecting"
    /\ Closed(t)
    /\ UNCHANGED <<page, late, server>>

\* The network drops the socket, with what was under way on it.
Drop(t) ==
    /\ conn[t] = "open"
    /\ Closed(t)
    /\ Vanish(t)
    /\ UNCHANGED <<page, late, phase>>

\* The timer of connect(), which does nothing if a socket is there already.
Reconnect(t) ==
    /\ t \in retry
    /\ retry' = retry \ {t}
    /\ conn' = [conn EXCEPT ![t] = IF @ = "closed" THEN "connecting" ELSE @]
    /\ UNCHANGED <<rejoining, relax, taken, pend, page, down, late, server,
                   joined, loose>>

\* The timer that lets the user try again.
RejoinTimeout(t) ==
    /\ t \in relax
    /\ relax' = relax \ {t} /\ rejoining' = rejoining \ {t}
    /\ UNCHANGED <<conn, retry, taken, pend, page, down, late, server, joined,
                   loose>>

-----------------------------------------------------------------------------
(* Frames the tab receives.                                                *)

Arrives(t, ty) ==
    /\ conn[t] = "open" /\ down[t] # << >>
    /\ Head(down[t]).type = ty
Consumed(t) == down' = [down EXCEPT ![t] = Tail(@)] /\ UNCHANGED late

ReceiveTaken(t) ==
    /\ Arrives(t, "taken") /\ Consumed(t)
    /\ rejoining' = rejoining \ {t}
    /\ taken' = taken \cup {t}
    /\ banner' = banner \cup {t}
    /\ loose' = loose \ {t}
    /\ UNCHANGED <<conn, retry, relax, pend, shown, hash, cookie, server,
                   joined>>

ReceiveClose(t) ==
    /\ \E ty \in Closing : Arrives(t, ty)
    /\ Closed(t)
    /\ UNCHANGED <<page, late, server>>

\* What rejoined_room makes of the stores. Outside the lobby it fills in the
\* passage, and the start time unless the race is over, and leaves the rest.
Resumed(s, state) ==
    IF state = "lobby" THEN ResetRaceUi(s) \cup {"room"}
    ELSE ((s \ {"countdown"}) \cup {"room", "passage"}) \cup
         (IF state = "finished" THEN {} ELSE {"countdown"})

ReceiveRejoined(t) ==
    /\ Arrives(t, "rejoined") /\ Consumed(t)
    /\ rejoining' = rejoining \ {t}
    /\ taken' = taken \ {t}
    /\ banner' = banner \ {t}
    /\ hash' = hash \cup {t}
    /\ LET state == Head(down[t]).state IN
         /\ shown' = [shown EXCEPT ![t] = Resumed(@, state)]
         /\ loose' = Set(loose, t, t \in joined /\ state # "lobby")
    /\ UNCHANGED <<conn, retry, relax, pend, cookie, server, joined>>

\* What a frame of the room makes of the stores.
Updated_KeepsCountdown(s, ty) ==
    CASE ty = "countdown" -> ResetRaceUi(s) \cup {"countdown"}
      [] ty = "race_start" -> s \cup {"passage"}
      [] ty = "race_end" -> s \cup {"results"}
      [] ty = "return_to_lobby" -> ResetRaceUi(s)
      [] ty = "lobby_state" -> s \cup {"room"}
Updated(s, ty) ==
    CASE ty = "countdown" -> ResetRaceUi(s) \cup {"countdown"}
      [] ty = "race_start" -> ResetRaceUi(s) \cup {"passage"}
      [] ty = "race_end" -> s \cup {"results"}
      [] ty = "return_to_lobby" -> ResetRaceUi(s)
      [] ty = "lobby_state" -> s \cup {"room"}

ReceiveRoomFrame(t, ty) ==
    /\ Arrives(t, ty) /\ Consumed(t)
    /\ shown' = [shown EXCEPT ![t] = Updated(@, ty)]
    /\ loose' = IF ty = "lobby_state" THEN loose ELSE loose \ {t}
    /\ UNCHANGED <<client, banner, hash, cookie, server, joined>>

\* SESSION_INVALID: a toast, and the URL forgets the room.
ReceiveInvalid(t) ==
    /\ Arrives(t, "invalid") /\ Consumed(t)
    /\ hash' = hash \ {t}
    /\ UNCHANGED <<client, banner, shown, cookie, server, joined, loose>>

Receive(t) ==
    \/ ReceiveTaken(t) \/ ReceiveClose(t) \/ ReceiveRejoined(t)
    \/ ReceiveInvalid(t)
    \/ \E ty \in {"lobby_state", "countdown", "race_start", "race_end",
                  "return_to_lobby"} : ReceiveRoomFrame(t, ty)

-----------------------------------------------------------------------------
(* The user.                                                               *)

\* A click, a key or the focus while the banner is up: reclaimSession and
\* RaceClient.rejoin. Over an open socket the request goes at once; otherwise a
\* new socket is opened for it. One that was still connecting is closed then,
\* and its close event, of which connect() does not rid it, starts the timer
\* again.
KnowsRoom(t) == "room" \in shown[t] \/ t \in hash
CanReclaim(t) == t \in banner \ rejoining /\ cookie /\ KnowsRoom(t)

Reclaim(t) ==
    /\ CanReclaim(t)
    /\ rejoining' = rejoining \cup {t}
    /\ taken' = taken \ {t}
    /\ retry' = Set(retry, t, conn[t] = "connecting")
    /\ \/ /\ conn[t] = "open"
          /\ relax' = relax \ {t}
          /\ Rejoin(t)
          /\ UNCHANGED <<conn, pend>>
       \/ /\ conn[t] # "open"
          /\ relax' = relax \cup {t}
          /\ conn' = [conn EXCEPT ![t] = "connecting"]
          /\ pend' = [pend EXCEPT ![t] = "reclaim"]
          /\ UNCHANGED <<seat, joined, down, late>>
    /\ UNCHANGED <<page, phase, loose>>

\* "Leave Room", which every tab that shows the room offers; under the banner
\* the press of the button reclaims first. The cookie is the browser's, not the
\* tab's. The request may be lost with the link.
Leave(t) ==
    /\ conn[t] # "off" /\ "room" \in shown[t] /\ ~CanReclaim(t)
    /\ cookie' = FALSE
    /\ hash' = hash \ {t}
    /\ shown' = [shown EXCEPT ![t] = {}]
    /\ \/ seat = t /\ GiveUpSeat
       \/ (seat = t => Split) /\ UNCHANGED server
    /\ joined' = joined \ {t} /\ loose' = loose \ {t}
    /\ UNCHANGED <<client, banner, down, late>>

\* The host's "Rematch" and "Return to lobby" on the results: the board goes at
\* once, whether or not the room follows.
AskAgain(t, next) ==
    /\ View(t) = "results" /\ ~CanReclaim(t)
    /\ shown' = [shown EXCEPT ![t] = ResetRaceUi(@)]
    /\ loose' = Set(loose, t, t \in loose \/ (seat = t /\ t \in joined))
    /\ \/ /\ seat = t /\ Reaches(t) /\ <<phase, next>> \in Moves
          /\ phase' = next
          /\ Broadcast(Announced(next))
       \/ UNCHANGED <<phase, down>>
    /\ UNCHANGED <<client, banner, hash, cookie, late, seat, joined>>

-----------------------------------------------------------------------------
Tab(t) ==
    \/ Load(t) \/ Open(t) \/ FailToConnect(t) \/ Drop(t) \/ Reconnect(t)
    \/ RejoinTimeout(t) \/ Receive(t) \/ ServerCloses(t)
    \/ FramesLost(t) \/ Reclaim(t) \/ Leave(t)
    \/ \E next \in {"countdown", "lobby"} : AskAgain(t, next)

Next ==
    \/ \E t \in Tabs : Tab(t)
    \/ TakeSeatLate \/ Evict \/ EngineRestart \/ GatewayRestart \/ Restart
    \/ \E next \in Phases : RoomMoves(next)
    \/ LobbyChanges

Spec == Init /\ [][Next]_vars

-----------------------------------------------------------------------------
(* Invariants.                                                             *)

\* The tab that holds the seat shows the room where it is, once its frames have
\* arrived: no takeover banner, and the view of the room's state, through
\* reconnects, takeovers back and forth and frames of the last race, unless a
\* frame was lost with the link. A rejoin in mid-race and a click on the results
\* loosen this until the room's next move.
ViewOf == [lobby |-> "lobby", countdown |-> "countdown",
           racing |-> "race", finished |-> "results"]
HolderSeesRoom ==
    \A t \in Tabs :
        seat = t /\ t \in joined /\ down[t] = << >> =>
            /\ t \notin banner
            /\ View(t) # "landing"
            /\ t \notin loose => View(t) = ViewOf[phase]

\* A tab that was given the seat over a socket nothing is about to close.
Served(t) == t \in joined /\ Reaches(t)

\* No takeover leaves two tabs typing for one player: a tab that was given the
\* seat and has been told of nothing else, and is not about to be, has it, and
\* is the only one, unless the room or the player is gone without a word. Not
\* when tabs take the seat from each other, nor when the engine handles a rejoin
\* late, nor when either process restarts (rejoinPlayer renames the player
\* first, then has the old socket closed).
OneHolder ==
    \A t \in Tabs : Served(t) =>
        /\ seat \in {t, "absent"}
        /\ \A u \in Tabs : Served(u) => u = t

\* A page without a socket is about to reconnect, or shows a banner whose click
\* is not ignored. The exceptions are a browser without the cookie, which any of
\* its tabs deletes by leaving the room, and a page that has forgotten the room.
NoDeadSocket ==
    \A t \in Tabs :
        conn[t] = "closed" /\ cookie /\ KnowsRoom(t) =>
            t \in retry \/ CanReclaim(t)

(* What the repository says and the code does not do.                      *)

\* "A dropped player has 60 seconds to rejoin": a page that is connected again
\* and shows the room has the seat, if anybody still keeps it.
ReconnectReturns ==
    \A t \in Tabs :
        /\ conn[t] = "open" /\ down[t] = << >>
        /\ "room" \in shown[t] /\ t \notin banner
        => seat \in {t, "absent"}
=============================================================================
