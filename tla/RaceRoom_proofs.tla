--------------------------- MODULE RaceRoom_proofs ---------------------------
(***************************************************************************)
(* Proofs about RaceRoom, for any set of ids and any limits: its type       *)
(* invariant and the invariants the runs check, from one inductive          *)
(* invariant.                                                              *)
(***************************************************************************)
EXTENDS RaceRoom, TLAPS

Typings == [Ids -> {"blank", "typing", "done"}]

\* The values a room without a race, or without anybody, has are in range.
LEMMA Unset ==
    /\ [p \in Ids |-> Never] \in [Ids -> Never .. DiscGrace]
    /\ Never \in Never .. Countdown + PreStart
    /\ Never \in Never .. GraceTime
    /\ Nobody \in Typings
<1>1. /\ Never \in Never .. DiscGrace
      /\ Never \in Never .. Countdown + PreStart
      /\ Never \in Never .. GraceTime
  BY LimitsAssumption DEF Never
<1>2. QED
  BY <1>1 DEF Nobody, Typings

\* Removing players from a well-typed room leaves a well-typed room.
LEMMA RemovePlayersType ==
    ASSUME TypeOK, NEW gone \in SUBSET Ids, NEW ty \in Typings,
           RemovePlayers(gone, ty),
           drain' = drain, tickDue' \in BOOLEAN
    PROVE  TypeOK'
<1> USE IdsAssumption, LimitsAssumption DEF Never
<1>1. sock' \in [Ids -> {"closed", "away", "here"}]
  BY DEF TypeOK, RemovePlayers
<1>2. CASE members \ gone = {}
  BY <1>1, <1>2 DEF TypeOK, RemovePlayers, DeleteRoom, Nobody, Phases
<1>3. CASE members \ gone # {}
  <2>1. host' \in Ids \cup {Null} /\ flagged' \subseteq Ids
    BY <1>3 DEF TypeOK, RemovePlayers, Heirs, Eldest
  <2>2. before' \subseteq Ids \X Ids
    BY <1>3 DEF TypeOK, RemovePlayers
  <2>3. typing' \in Typings /\ disc' \in [Ids -> Never .. DiscGrace]
    BY <1>3 DEF TypeOK, RemovePlayers, Typings
  <2>4. members' \subseteq Ids /\ ready' \subseteq Ids
    BY <1>3 DEF TypeOK, RemovePlayers
  <2>5. QED
    BY <1>1, <1>3, <2>1, <2>2, <2>3, <2>4 DEF TypeOK, RemovePlayers, Typings
<1>4. QED BY <1>2, <1>3

LEMMA TickRoomType ==
    ASSUME TypeOK, NEW ty \in Typings, TickRoom(ty),
           drain' = drain, tickDue' \in BOOLEAN
    PROVE  TypeOK'
<1> USE IdsAssumption, LimitsAssumption DEF Never
<1>1. CASE BeginRacing \/ BeginGrace(ty) \/ EndRace(ty)
  <2>1. /\ phase' \in Phases /\ graceLeft' \in Never .. GraceTime
        /\ firstFinisher' \in Ids \cup {Null}
    BY <1>1 DEF TypeOK, BeginRacing, BeginGrace, EndRace, Done, Phases
  <2>2. CASE /\ typing' = ty
             /\ UNCHANGED <<members, host, flagged, ready, before, disc, clock,
                            sock>>
    BY <2>1, <2>2 DEF TypeOK, Typings
  <2>3. CASE ~MustBegin /\ ~MustClose(ty) /\ ~MustEnd(ty)
    BY <1>1, <2>3 DEF BeginRacing, BeginGrace, EndRace
  <2>4. QED BY <2>2, <2>3 DEF TickRoom
<1>2. CASE Expired # {} /\ RemovePlayers(Expired, ty)
  <2>1. Expired \in SUBSET Ids
    BY DEF Expired, TypeOK
  <2>2. QED
    BY <1>2, <2>1, RemovePlayersType
<1>3. CASE /\ typing' = ty
           /\ UNCHANGED <<phase, members, host, flagged, ready, before, disc,
                          clock, graceLeft, firstFinisher, sock>>
  BY <1>3 DEF TypeOK, Typings
<1>4. QED
  BY <1>1, <1>2, <1>3 DEF TickRoom

\* Every step keeps the types.
LEMMA TypeStep == TypeOK /\ [Next]_vars => TypeOK'
<1> USE IdsAssumption, LimitsAssumption, PunctualAssumption DEF Never
<1> SUFFICES ASSUME TypeOK, [Next]_vars PROVE TypeOK'
  OBVIOUS
<1>1. ASSUME NEW p \in Ids, Connect(p) PROVE TypeOK'
  BY <1>1 DEF TypeOK, Connect, roomVars
<1>2. ASSUME NEW p \in Ids, Disconnect(p) PROVE TypeOK'
  BY <1>2 DEF TypeOK, Disconnect
<1>3. ASSUME NEW p \in Ids, GoElsewhere(p) PROVE TypeOK'
  BY <1>3 DEF TypeOK, GoElsewhere, roomVars
<1>4. ASSUME NEW p \in Ids, CreateRoom(p) PROVE TypeOK'
  BY <1>4 DEF TypeOK, CreateRoom, Phases
<1>5. ASSUME NEW p \in Ids, JoinRoom(p) PROVE TypeOK'
  BY <1>5 DEF TypeOK, JoinRoom, JoinedLast
<1>6. ASSUME NEW p \in Ids, LeaveRoom(p) PROVE TypeOK'
  <2>1. {p} \in SUBSET Ids /\ typing \in Typings
    BY DEF TypeOK, Typings
  <2>2. drain' = drain /\ tickDue' \in BOOLEAN
    BY <1>6 DEF LeaveRoom, TypeOK
  <2>3. QED
    BY <1>6, <2>1, <2>2, RemovePlayersType DEF LeaveRoom
<1>7. ASSUME NEW p \in Ids, NEW old \in Ids, RejoinRoom(p, old) PROVE TypeOK'
  <2>1. /\ members' \subseteq Ids /\ flagged' \subseteq Ids
        /\ ready' \subseteq Ids
    BY <1>7 DEF TypeOK, RejoinRoom, RenamedSet
  <2>2. /\ host' \in Ids \cup {Null} /\ firstFinisher' \in Ids \cup {Null}
        /\ before' \subseteq Ids \X Ids
    BY <1>7 DEF TypeOK, RejoinRoom, Renamed
  <2>3. /\ typing' \in [Ids -> {"blank", "typing", "done"}]
        /\ disc' \in [Ids -> Never .. DiscGrace]
        /\ sock' \in [Ids -> {"closed", "away", "here"}]
    BY <1>7 DEF TypeOK, RejoinRoom, SeatTaken
  <2>4. QED
    BY <1>7, <2>1, <2>2, <2>3 DEF TypeOK, RejoinRoom
<1>8. ASSUME NEW p \in Ids, NEW r \in BOOLEAN, SetReady(p, r) PROVE TypeOK'
  BY <1>8 DEF TypeOK, SetReady
<1>9. ASSUME NEW p \in Ids,
             ReturnToLobby(p) \/ StartRace(p) \/ StartRaceRefused(p)
      PROVE  TypeOK'
  BY <1>9 DEF TypeOK, ReturnToLobby, StartRace, StartRaceRefused,
              ResetPlayers, Nobody, Phases
<1>10. ASSUME NEW p \in Ids, Keystroke(p) PROVE TypeOK'
  <2>1. PICK t \in {"typing", "done"} :
          LET ty == [typing EXCEPT ![p] = t] IN
          IF TicksNow(t)
          THEN TickRoom(ty)
          ELSE /\ typing' = ty
               /\ UNCHANGED <<phase, members, host, flagged, ready, before,
                              disc, clock, graceLeft, firstFinisher, sock>>
    BY <1>10 DEF Keystroke
  <2> DEFINE ty == [typing EXCEPT ![p] = t]
  <2>2. ty \in Typings /\ UNCHANGED <<drain, tickDue>>
    BY <1>10 DEF Keystroke, TypeOK, Typings
  <2>3. tickDue' \in BOOLEAN
    BY <2>2 DEF TypeOK
  <2>4. CASE TickRoom(ty)
    <3> HIDE DEF ty
    <3> QED BY <2>2, <2>3, <2>4, TickRoomType
  <2>5. CASE /\ typing' = ty
             /\ UNCHANGED <<phase, members, host, flagged, ready, before,
                            disc, clock, graceLeft, firstFinisher, sock>>
    BY <2>2, <2>5 DEF TypeOK, Typings
  <2>6. QED
    BY <2>1, <2>4, <2>5
<1>11. CASE Tick
  <2>1. typing \in Typings
    BY DEF TypeOK, Typings
  <2>2. QED
    BY <1>11, <2>1, TickRoomType DEF Tick
<1>12. CASE Elapse
  BY <1>12 DEF TypeOK, Elapse, Older
<1>13. CASE BeginDrain \/ PollDrain
  BY <1>13 DEF TypeOK, BeginDrain, PollDrain, roomVars
<1>14. CASE Restart
  <2>1. /\ disc' \in [Ids -> Never .. DiscGrace]
        /\ clock' \in Never .. Countdown + PreStart
        /\ graceLeft' \in Never .. GraceTime
        /\ typing' \in Typings
    BY <1>14, Unset DEF Restart, DeleteRoom
  <2>2. QED
    BY <1>14, <2>1 DEF TypeOK, Restart, DeleteRoom, Phases, Typings
<1>15. CASE UNCHANGED vars
  BY <1>15 DEF TypeOK, vars, roomVars
<1>16. QED
  BY <1>1, <1>2, <1>3, <1>4, <1>5, <1>6, <1>7, <1>8, <1>9, <1>10, <1>11,
     <1>12, <1>13, <1>14, <1>15 DEF Next, Player

LEMMA InitType == Init => TypeOK
<1> SUFFICES ASSUME Init PROVE TypeOK
  OBVIOUS
<1>1. /\ disc \in [Ids -> Never .. DiscGrace]
      /\ clock \in Never .. Countdown + PreStart
      /\ graceLeft \in Never .. GraceTime
      /\ typing \in Typings
  BY Unset DEF Init
<1>2. QED
  BY <1>1 DEF Init, TypeOK, Phases, Typings

\* The type invariant: every field of the room keeps its type, the timers
\* their ranges, through every handler, tick, drain and restart.
THEOREM TypeCorrect == Spec => []TypeOK
<1>1. Init => TypeOK
  BY InitType
<1>2. QED
  BY <1>1, TypeStep, PTL DEF Spec
-----------------------------------------------------------------------------
(***************************************************************************)
(* The safety invariants hold together: no one of them is inductive alone. *)
(* FinishNoticed needs CleanStart for the step that begins a race and      *)
(* RaceFields for the finishing keystroke; SeatMatchesSocket needs         *)
(* RoomHasHost for the fresh id of a socket.                               *)
(***************************************************************************)
IInv ==
    /\ TypeOK
    /\ RoomHasHost
    /\ OneHostFlag
    /\ SeatMatchesSocket
    /\ RaceFields
    /\ FinishNoticed
    /\ CleanStart
    /\ DrainedIsIdle

LEMMA RemovePlayersInv ==
    ASSUME IInv, phase # "none", NEW gone \in SUBSET Ids, NEW ty \in Typings,
           phase = "racing" => Done(ty) = {},
           phase \in {"lobby", "countdown"} => ty = Nobody,
           RemovePlayers(gone, ty), drain' = drain, tickDue' \in BOOLEAN
    PROVE  IInv'
<1> USE IdsAssumption, LimitsAssumption DEF Never
<1>1. TypeOK'
  BY RemovePlayersType DEF IInv
<1>2. CASE members \ gone = {}
  <2>1. DeleteRoom
    BY <1>2 DEF RemovePlayers
  <2>2. \A p \in Ids : sock'[p] # "here"
    BY <1>2 DEF RemovePlayers, IInv, TypeOK, SeatMatchesSocket
  <2>3. QED
    BY <1>1, <2>1, <2>2 DEF DeleteRoom, IInv, RoomHasHost, OneHostFlag,
       SeatMatchesSocket, RaceFields, FinishNoticed, CleanStart, DrainedIsIdle,
       ActivePhases
<1>3. CASE members \ gone # {}
  <2>1. RoomHasHost' /\ OneHostFlag'
    BY <1>3 DEF IInv, RemovePlayers, RoomHasHost, OneHostFlag, Heirs, Eldest
  <2>2. SeatMatchesSocket'
    BY <1>3 DEF IInv, RemovePlayers, SeatMatchesSocket, TypeOK
  <2>3. RaceFields' /\ DrainedIsIdle'
    BY <1>3 DEF IInv, RemovePlayers, RaceFields, DrainedIsIdle
  <2>4. FinishNoticed'
    BY <1>3 DEF IInv, RemovePlayers, FinishNoticed, Done, TypeOK
  <2>5. CleanStart'
    BY <1>3 DEF IInv, RemovePlayers, CleanStart, Nobody, TypeOK
  <2>6. QED
    BY <1>1, <2>1, <2>2, <2>3, <2>4, <2>5 DEF IInv
<1>4. QED BY <1>2, <1>3

LEMMA TickRoomInv ==
    ASSUME IInv, phase # "none", NEW ty \in Typings,
           phase = "racing" => firstFinisher = Null,
           phase \in {"lobby", "countdown"} => ty = Nobody,
           TickRoom(ty), drain' = drain, tickDue' \in BOOLEAN
    PROVE  IInv'
<1> USE IdsAssumption, LimitsAssumption DEF Never
<1>1. TypeOK'
  BY TickRoomType DEF IInv
<1>2. CASE /\ BeginRacing \/ BeginGrace(ty) \/ EndRace(ty)
           /\ typing' = ty
           /\ UNCHANGED <<members, host, flagged, ready, before, disc, clock,
                          sock>>
  <2>1. RoomHasHost' /\ OneHostFlag' /\ SeatMatchesSocket' /\ CleanStart'
    BY <1>2 DEF IInv, RoomHasHost, OneHostFlag, SeatMatchesSocket, CleanStart,
       BeginRacing, BeginGrace, EndRace
  <2>2. RaceFields'
    BY <1>2 DEF IInv, RaceFields, BeginRacing, BeginGrace, EndRace, MustBegin,
       MustClose, MustEnd, Done, TypeOK
  <2>3. FinishNoticed'
    BY <1>2 DEF IInv, FinishNoticed, BeginRacing, BeginGrace, EndRace,
       MustBegin, Done, Nobody, TypeOK
  <2>4. DrainedIsIdle'
    BY <1>2 DEF IInv, DrainedIsIdle, ActivePhases, BeginRacing, BeginGrace,
       EndRace, MustBegin, MustClose
  <2>5. QED
    BY <1>1, <2>1, <2>2, <2>3, <2>4 DEF IInv
<1>3. CASE ~MustBegin /\ ~MustClose(ty) /\ ~MustEnd(ty)
  <2>1. phase = "racing" => Done(ty) = {}
    BY <1>3 DEF MustClose
  <2>2. CASE Expired # {} /\ RemovePlayers(Expired, ty)
    <3>1. Expired \in SUBSET Ids
      BY DEF Expired, IInv, TypeOK
    <3>2. QED BY <2>1, <2>2, <3>1, RemovePlayersInv
  <2>3. CASE /\ typing' = ty
             /\ UNCHANGED <<phase, members, host, flagged, ready, before, disc,
                            clock, graceLeft, firstFinisher, sock>>
    BY <1>1, <2>1, <2>3 DEF IInv, RoomHasHost, OneHostFlag, SeatMatchesSocket,
       RaceFields, FinishNoticed, CleanStart, DrainedIsIdle, Done
  <2>4. QED
    BY <1>3, <2>2, <2>3 DEF TickRoom, BeginRacing, BeginGrace, EndRace
<1>4. QED
  BY <1>2, <1>3 DEF TickRoom

\* Every step of the room keeps the inductive invariant.
LEMMA NextInv == IInv /\ [Next]_vars => IInv'
<1> USE IdsAssumption, LimitsAssumption DEF Never
<1> SUFFICES ASSUME IInv, [Next]_vars PROVE IInv'
  OBVIOUS
<1>t. TypeOK /\ TypeOK'
  BY TypeStep DEF IInv
<1>1. ASSUME NEW p \in Ids, Connect(p) PROVE IInv'
  BY <1>1, <1>t DEF Connect, roomVars, Done, IInv, RoomHasHost, OneHostFlag,
     SeatMatchesSocket, RaceFields, FinishNoticed, CleanStart, DrainedIsIdle
<1>2. ASSUME NEW p \in Ids, Disconnect(p) PROVE IInv'
  BY <1>2 DEF Disconnect, TypeOK, Done, IInv, RoomHasHost, OneHostFlag,
     SeatMatchesSocket, RaceFields, FinishNoticed, CleanStart, DrainedIsIdle
<1>3. ASSUME NEW p \in Ids, GoElsewhere(p) PROVE IInv'
  BY <1>3, <1>t DEF GoElsewhere, roomVars, Done, IInv, RoomHasHost,
     OneHostFlag, SeatMatchesSocket, RaceFields, FinishNoticed, CleanStart,
     DrainedIsIdle
<1>4. ASSUME NEW p \in Ids, CreateRoom(p) PROVE IInv'
  BY <1>4, <1>t DEF CreateRoom, Admits, ActivePhases, TypeOK, Done, IInv,
     RoomHasHost, OneHostFlag, SeatMatchesSocket, RaceFields, FinishNoticed,
     CleanStart, DrainedIsIdle
<1>5. ASSUME NEW p \in Ids, JoinRoom(p) PROVE IInv'
  <2>1. RoomHasHost' /\ OneHostFlag' /\ SeatMatchesSocket'
    BY <1>5, <1>t DEF JoinRoom, TypeOK, IInv, RoomHasHost, OneHostFlag,
       SeatMatchesSocket
  <2>2. RaceFields' /\ DrainedIsIdle'
    BY <1>5 DEF JoinRoom, IInv, RaceFields, DrainedIsIdle
  <2>3. FinishNoticed'
    BY <1>5 DEF JoinRoom, Done, TypeOK, IInv, FinishNoticed
  <2>4. CleanStart'
    BY <1>5 DEF JoinRoom, Nobody, IInv, CleanStart
  <2>5. QED BY <1>t, <2>1, <2>2, <2>3, <2>4 DEF IInv
<1>6. ASSUME NEW p \in Ids, LeaveRoom(p) PROVE IInv'
  <2>1. {p} \in SUBSET Ids /\ typing \in Typings
    BY <1>t DEF TypeOK, Typings
  <2>2. /\ phase # "none" /\ drain' = drain /\ tickDue' \in BOOLEAN
        /\ phase = "racing" => Done(typing) = {}
        /\ phase \in {"lobby", "countdown"} => typing = Nobody
    BY <1>6, <1>t DEF LeaveRoom, TypeOK, IInv, RoomHasHost, FinishNoticed,
       CleanStart
  <2>3. QED
    BY <1>6, <2>1, <2>2, RemovePlayersInv DEF LeaveRoom
<1>7. ASSUME NEW p \in Ids, NEW old \in Ids, RejoinRoom(p, old) PROVE IInv'
  <2>1. RoomHasHost' /\ OneHostFlag'
    BY <1>7, <1>t DEF RejoinRoom, Renamed, RenamedSet, IInv, RoomHasHost,
       OneHostFlag
  <2>2. SeatMatchesSocket'
    BY <1>7, <1>t DEF RejoinRoom, SeatTaken, TypeOK, IInv, SeatMatchesSocket
  <2>3. RaceFields' /\ DrainedIsIdle'
    BY <1>7, <1>t DEF RejoinRoom, Renamed, TypeOK, IInv, RaceFields,
       DrainedIsIdle
  <2>4. FinishNoticed' /\ CleanStart'
    BY <1>7, <1>t DEF RejoinRoom, Nobody, Done, TypeOK, IInv, FinishNoticed,
       CleanStart
  <2>5. QED BY <1>t, <2>1, <2>2, <2>3, <2>4 DEF IInv
<1>8. ASSUME NEW p \in Ids, NEW r \in BOOLEAN, SetReady(p, r) PROVE IInv'
  BY <1>8, <1>t DEF SetReady, Done, IInv, RoomHasHost, OneHostFlag,
     SeatMatchesSocket, RaceFields, FinishNoticed, CleanStart, DrainedIsIdle
<1>9. ASSUME NEW p \in Ids,
             ReturnToLobby(p) \/ StartRace(p) \/ StartRaceRefused(p)
      PROVE  IInv'
  <2>1. RoomHasHost' /\ OneHostFlag' /\ SeatMatchesSocket'
    BY <1>9, <1>t DEF ReturnToLobby, StartRace, StartRaceRefused, Commands,
       IInv, RoomHasHost, OneHostFlag, SeatMatchesSocket
  <2>2. RaceFields' /\ FinishNoticed' /\ CleanStart' /\ DrainedIsIdle'
    BY <1>9, <1>t DEF ReturnToLobby, StartRace, StartRaceRefused, Commands,
       Admits, ResetPlayers, ActivePhases, TypeOK, IInv, RaceFields,
       FinishNoticed, CleanStart, DrainedIsIdle
  <2>3. QED BY <1>t, <2>1, <2>2 DEF IInv
<1>10. ASSUME NEW p \in Ids, Keystroke(p) PROVE IInv'
  <2>1. PICK t \in {"typing", "done"} :
          LET ty == [typing EXCEPT ![p] = t] IN
          IF TicksNow(t)
          THEN TickRoom(ty)
          ELSE /\ typing' = ty
               /\ UNCHANGED <<phase, members, host, flagged, ready, before,
                              disc, clock, graceLeft, firstFinisher, sock>>
    BY <1>10 DEF Keystroke
  <2> DEFINE ty == [typing EXCEPT ![p] = t]
  <2>2. ty \in Typings
    BY <1>t DEF TypeOK, Typings
  <2>3. /\ phase \in {"racing", "grace", "finished"} /\ drain' = drain
        /\ tickDue' \in BOOLEAN
    BY <1>10, <1>t DEF Keystroke, MayType, TypeOK
  <2>4. CASE TicksNow(t)
    <3>1. TickRoom(ty)
      BY <2>1, <2>4
    <3>2. phase = "racing" => firstFinisher = Null
      BY DEF IInv, RaceFields
    <3> HIDE DEF ty
    <3>3. QED BY <2>2, <2>3, <3>1, <3>2, TickRoomInv
  <2>5. CASE ~TicksNow(t)
    <3>1. /\ typing' = ty
          /\ UNCHANGED <<phase, members, host, flagged, ready, before,
                         disc, clock, graceLeft, firstFinisher, sock>>
      BY <2>1, <2>5
    <3>2. FinishNoticed'
      BY <1>t, <2>3, <2>5, <3>1 DEF TicksNow, Done, TypeOK, IInv, FinishNoticed
    <3>3. /\ RoomHasHost' /\ OneHostFlag' /\ SeatMatchesSocket'
          /\ RaceFields' /\ CleanStart' /\ DrainedIsIdle'
      BY <2>3, <3>1 DEF IInv, RoomHasHost, OneHostFlag, SeatMatchesSocket,
         RaceFields, CleanStart, DrainedIsIdle
    <3>4. QED BY <1>t, <3>2, <3>3 DEF IInv
  <2>6. QED BY <2>4, <2>5
<1>11. CASE Tick
  <2>1. /\ phase # "none" /\ TickRoom(typing) /\ typing \in Typings
        /\ drain' = drain /\ tickDue' \in BOOLEAN
        /\ phase = "racing" => firstFinisher = Null
        /\ phase \in {"lobby", "countdown"} => typing = Nobody
    BY <1>11, <1>t DEF Tick, TypeOK, Typings, IInv, RaceFields, CleanStart
  <2>2. QED BY <2>1, TickRoomInv
<1>12. CASE Elapse
  <2>1. RoomHasHost' /\ OneHostFlag' /\ SeatMatchesSocket'
    BY <1>12, <1>t DEF Elapse, Older, TypeOK, IInv, RoomHasHost, OneHostFlag,
       SeatMatchesSocket
  <2>2. RaceFields'
    BY <1>12, <1>t DEF Elapse, Older, TypeOK, IInv, RaceFields
  <2>3. FinishNoticed' /\ CleanStart' /\ DrainedIsIdle'
    BY <1>12 DEF Elapse, Done, IInv, FinishNoticed, CleanStart, DrainedIsIdle
  <2>4. QED BY <1>t, <2>1, <2>2, <2>3 DEF IInv
<1>13. CASE BeginDrain \/ PollDrain
  BY <1>13, <1>t DEF BeginDrain, PollDrain, roomVars, Done, IInv,
     RoomHasHost, OneHostFlag, SeatMatchesSocket, RaceFields, FinishNoticed,
     CleanStart, DrainedIsIdle
<1>14. CASE Restart
  BY <1>14, <1>t DEF Restart, DeleteRoom, Done, Nobody, IInv, RoomHasHost,
     OneHostFlag, SeatMatchesSocket, RaceFields, FinishNoticed, CleanStart,
     DrainedIsIdle
<1>15. CASE UNCHANGED vars
  BY <1>15, <1>t DEF vars, roomVars, Done, IInv, RoomHasHost, OneHostFlag,
     SeatMatchesSocket, RaceFields, FinishNoticed, CleanStart, DrainedIsIdle
<1>16. QED
  BY <1>1, <1>2, <1>3, <1>4, <1>5, <1>6, <1>7, <1>8, <1>9, <1>10, <1>11,
     <1>12, <1>13, <1>14, <1>15 DEF Next, Player

LEMMA InvHolds == Spec => []IInv
<1>1. Init => IInv
  BY InitType, IdsAssumption DEF Init, IInv, Nobody,
     RoomHasHost, OneHostFlag, SeatMatchesSocket, RaceFields, FinishNoticed,
     CleanStart, DrainedIsIdle, Done
<1>2. QED
  BY <1>1, NextInv, PTL DEF Spec

\* A room that exists has a host who is one of its players, and no other player
\* is flagged as host, after any leaves, evictions, joins and takeovers.
THEOREM HostSafe == Spec => []HostSound
<1>1. IInv => HostSound
  BY DEF IInv, HostSound
<1>2. QED BY <1>1, InvHolds, PTL

\* A player with a socket in the room never runs towards eviction.
THEOREM SeatSafe == Spec => []SeatMatchesSocket
<1>1. IInv => SeatMatchesSocket
  BY DEF IInv
<1>2. QED BY <1>1, InvHolds, PTL

\* The nullable fields of the room agree with its state, and no race begins
\* with anything of the one before.
THEOREM RecordSafe == Spec => []RaceRecordSound
<1>1. IInv => RaceRecordSound
  BY DEF IInv, RaceRecordSound
<1>2. QED BY <1>1, InvHolds, PTL

\* No finish is left waiting in a race that runs on.
THEOREM FinishSeen == Spec => []FinishNoticed
<1>1. IInv => FinishNoticed
  BY DEF IInv
<1>2. QED BY <1>1, InvHolds, PTL

\* A drain that ended because the room was idle cuts no race.
THEOREM DrainSafe == Spec => []DrainedIsIdle
<1>1. IInv => DrainedIsIdle
  BY DEF IInv
<1>2. QED BY <1>1, InvHolds, PTL

-----------------------------------------------------------------------------
(* The action properties, from the same invariant.                         *)

EldestOfPool(h) ==
    LET connected == {p \in members' : disc'[p] = Never}
        pool == IF connected # {} THEN connected ELSE members'
    IN  h \in pool /\ \A q \in pool : <<q, h>> \notin before'

\* What removing players does to the host.
LEMMA RemovePlayersHost ==
    ASSUME TypeOK, NEW gone, NEW ty, RemovePlayers(gone, ty),
           host # host', host' # Null
    PROVE  host \notin members' /\ EldestOfPool(host')
<1> DEFINE stay == members \ gone
<1>1. /\ stay # {} /\ members' = stay /\ host \notin stay
      /\ host' \in Heirs(stay)
      /\ before' = before \cap (stay \X stay)
      /\ disc' = [p \in Ids |-> IF p \in stay THEN disc[p] ELSE Never]
  BY DEF RemovePlayers, DeleteRoom
<1>2. {p \in members' : disc'[p] = Never} = {p \in stay : disc[p] = Never}
  BY <1>1 DEF TypeOK
<1>3. QED
  BY <1>1, <1>2 DEF EldestOfPool, Heirs, Eldest

\* The host passes on only by leaving, and to the earliest of the connected
\* players if there is one; or moves to another socket.
THEOREM HandoverSafe == Spec => HostHandover
<1> DEFINE Handed == host # host' /\ host # Null /\ host' # Null =>
             /\ host \notin members'
             /\ RejoinRoom(host', host) \/ EldestOfPool(host')
<1>1. IInv /\ [Next]_vars => [Handed]_vars
  <2> SUFFICES ASSUME IInv, Next, host # host', host # Null, host' # Null
               PROVE  Handed
    OBVIOUS
  <2> USE DEF IInv
  <2>1. ASSUME NEW p \in Ids, LeaveRoom(p) PROVE Handed
    BY <2>1, RemovePlayersHost DEF LeaveRoom
  <2>2. ASSUME NEW p \in Ids, NEW old \in Ids, RejoinRoom(p, old) PROVE Handed
    <3>1. host = old /\ host' = p /\ host \notin members'
      BY <2>2 DEF RejoinRoom, Renamed
    <3>2. QED BY <2>2, <3>1
  <2>3. ASSUME NEW ty, TickRoom(ty) PROVE Handed
    BY <2>3, RemovePlayersHost DEF TickRoom
  <2>4. ASSUME NEW p \in Ids, Keystroke(p) PROVE Handed
    <3>1. PICK t \in {"typing", "done"} :
            TickRoom([typing EXCEPT ![p] = t]) \/ UNCHANGED host
      BY <2>4 DEF Keystroke
    <3>2. QED BY <2>3, <3>1
  <2>5. CASE Tick
    BY <2>3, <2>5 DEF Tick
  <2>6. ASSUME NEW p \in Ids, CreateRoom(p) PROVE FALSE
    BY <2>6 DEF CreateRoom, RoomHasHost
  <2>7. CASE Restart
    BY <2>7 DEF Restart, DeleteRoom
  <2>8. ASSUME NEW p \in Ids,
               \/ Connect(p) \/ Disconnect(p) \/ GoElsewhere(p) \/ JoinRoom(p)
               \/ \E r \in BOOLEAN : SetReady(p, r)
               \/ ReturnToLobby(p) \/ StartRace(p) \/ StartRaceRefused(p)
        PROVE  FALSE
    BY <2>8 DEF Connect, Disconnect, GoElsewhere, JoinRoom, SetReady,
       ReturnToLobby, StartRace, StartRaceRefused, roomVars
  <2>9. CASE Elapse \/ BeginDrain \/ PollDrain
    BY <2>9 DEF Elapse, BeginDrain, PollDrain, roomVars
  <2>10. QED
    BY <2>1, <2>2, <2>4, <2>5, <2>6, <2>7, <2>8, <2>9 DEF Next, Player
<1>2. [Handed]_vars => [host # host' /\ host # Null /\ host' # Null =>
        /\ host \notin members'
        /\ \/ RejoinRoom(host', host)
           \/ LET connected == {p \in members' : disc'[p] = Never}
                  pool == IF connected # {} THEN connected ELSE members'
              IN  /\ host' \in pool
                  /\ \A q \in pool : <<q, host'>> \notin before'
      ]_vars
  BY DEF EldestOfPool
<1>3. QED
  BY <1>1, <1>2, InvHolds, PTL DEF Spec, HostHandover

\* A race becomes "finished" only when no connected player is still typing or
\* the whole grace has passed.
THEOREM CutSafe == Spec => NobodyCutShort
<1> DEFINE Whole == phase' = "finished" /\ phase # "finished" =>
             \/ \A p \in members' : disc'[p] = Never => typing'[p] = "done"
             \/ phase = "grace" /\ graceLeft = 0
<1>1. [Next]_vars => [Whole]_vars
  <2> SUFFICES ASSUME Next, phase' = "finished", phase # "finished"
               PROVE  Whole
    OBVIOUS
  <2>1. ASSUME NEW ty, TickRoom(ty) PROVE Whole
    <3>1. CASE EndRace(ty) /\ typing' = ty /\ UNCHANGED <<members, disc>>
      BY <3>1 DEF EndRace, MustEnd, StillTyping
    <3>2. QED
      BY <2>1, <3>1 DEF TickRoom, BeginRacing, BeginGrace, RemovePlayers,
         DeleteRoom
  <2>2. Tick \/ \E p \in Ids : Keystroke(p)
    <3>1. ASSUME NEW p \in Ids, Player(p) PROVE Keystroke(p)
      <4>1. ~(Connect(p) \/ Disconnect(p) \/ GoElsewhere(p))
        BY DEF Connect, Disconnect, GoElsewhere, roomVars
      <4>2. ~(CreateRoom(p) \/ JoinRoom(p))
        BY DEF CreateRoom, JoinRoom
      <4>3. ~LeaveRoom(p)
        BY DEF LeaveRoom, RemovePlayers, DeleteRoom
      <4>4. \A old \in Ids : ~RejoinRoom(p, old)
        BY DEF RejoinRoom
      <4>5. \A r \in BOOLEAN : ~SetReady(p, r)
        BY DEF SetReady
      <4>6. ~(ReturnToLobby(p) \/ StartRace(p) \/ StartRaceRefused(p))
        BY DEF ReturnToLobby, StartRace, StartRaceRefused, roomVars
      <4>7. QED BY <3>1, <4>1, <4>2, <4>3, <4>4, <4>5, <4>6 DEF Player
    <3>2. ~(Elapse \/ BeginDrain \/ PollDrain \/ Restart)
      BY DEF Elapse, BeginDrain, PollDrain, Restart, DeleteRoom,
             roomVars
    <3>3. QED BY <3>1, <3>2 DEF Next
  <2>3. ASSUME NEW p \in Ids, Keystroke(p) PROVE Whole
    BY <2>1, <2>3 DEF Keystroke
  <2>4. CASE Tick
    BY <2>1, <2>4 DEF Tick
  <2>5. QED BY <2>2, <2>3, <2>4
<1>2. QED
  BY <1>1, PTL DEF Spec, NobodyCutShort
=============================================================================
