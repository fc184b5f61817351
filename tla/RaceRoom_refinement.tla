-------------------------- MODULE RaceRoom_refinement --------------------------
(***************************************************************************)
(* RaceRoom implements RaceLifecycle: every step of the room is a step of   *)
(* the lifecycle or changes nothing in it.                                 *)
(***************************************************************************)
EXTENDS RaceRoom_proofs

LNext == Lifecycle!Next
Stutter == UNCHANGED <<phase, members, Done(typing), firstFinisher>>

\* Players who leave or are evicted take the room along when nobody stays.
LEMMA RemovalExits ==
    ASSUME IInv, NEW gone \in SUBSET members, RemovePlayers(gone, typing)
    PROVE  LNext
<1>1. CASE members \ gone = {}
  <2>1. members' = {} /\ phase' = "none" /\ firstFinisher' = Null
    BY <1>1 DEF RemovePlayers, DeleteRoom
  <2>2. Done(typing)' = {}
    BY <2>1 DEF Done
  <2>3. Lifecycle!Exit(gone)
    BY <1>1, <2>1, <2>2 DEF Lifecycle!Exit
  <2>4. QED BY <2>3 DEF LNext, Lifecycle!Next
<1>2. CASE members \ gone # {}
  <2>1. /\ members' = members \ gone /\ UNCHANGED <<phase, firstFinisher>>
        /\ typing' = [p \in Ids |-> IF p \in members \ gone
                                    THEN typing[p] ELSE "blank"]
    BY <1>2 DEF RemovePlayers
  <2>2. Done(typing)' = Done(typing) \ gone
    BY <2>1 DEF Done, IInv, TypeOK
  <2>3. Lifecycle!Exit(gone)
    BY <1>2, <2>1, <2>2 DEF Lifecycle!Exit
  <2>4. QED BY <2>3 DEF LNext, Lifecycle!Next
<1>3. QED BY <1>1, <1>2

\* A tick begins a race, ends a grace, evicts, or does nothing: there is no
\* finish for it to find.
LEMMA TickSteps ==
    ASSUME IInv, Tick
    PROVE  LNext \/ Stutter
<1>1. ~MustClose(typing)
  BY DEF MustClose, IInv, FinishNoticed
<1>2. CASE /\ BeginRacing \/ EndRace(typing)
           /\ typing' = typing
           /\ UNCHANGED <<members, host, flagged, ready, before, disc, clock,
                          sock>>
  <2>1. Done(typing)' = Done(typing)
    BY <1>2 DEF Done
  <2>2. Lifecycle!Go \/ Lifecycle!EndGrace
    BY <1>1, <1>2, <2>1 DEF BeginRacing, MustBegin, EndRace, MustEnd,
       Lifecycle!Go, Lifecycle!EndGrace
  <2>3. QED BY <2>2 DEF LNext, Lifecycle!Next
<1>3. CASE RemovePlayers(Expired, typing)
  <2>1. Expired \in SUBSET members
    BY DEF Expired
  <2>2. QED BY <1>3, <2>1, RemovalExits
<1>4. CASE UNCHANGED <<phase, members, typing, firstFinisher>>
  BY <1>4 DEF Stutter, Done
<1>5. QED
  BY <1>1, <1>2, <1>3, <1>4 DEF Tick, TickRoom, BeginGrace

\* A finish that ticks the room at once is one step of the lifecycle.
LEMMA FinishTicks ==
    ASSUME IInv, NEW p \in members, disc[p] = Never, typing[p] # "done",
           phase \in {"racing", "grace"},
           TickRoom([typing EXCEPT ![p] = "done"])
    PROVE  Lifecycle!Finish(p)
<1> DEFINE ty == [typing EXCEPT ![p] = "done"]
<1>1. Done(ty) = Done(typing) \cup {p} /\ p \notin Done(typing)
  BY DEF Done, IInv, TypeOK
<1>t. TickRoom(ty)
  OBVIOUS
<1>2. CASE /\ BeginGrace(ty) \/ EndRace(ty)
           /\ typing' = ty /\ UNCHANGED members
  <2>1. Done(typing)' = Done(typing) \cup {p}
    BY <1>1, <1>2 DEF Done
  <2>2. CASE phase = "racing"
    <3>1. Done(ty) = {p}
      BY <1>1, <2>2 DEF IInv, FinishNoticed
    <3>2. \/ phase' = "grace" /\ firstFinisher' = p
          \/ phase' = "finished" /\ UNCHANGED firstFinisher
      <4> HIDE DEF ty
      <4> QED BY <1>2, <3>1 DEF BeginGrace, EndRace
    <3>3. QED
      BY <1>1, <1>2, <2>1, <2>2, <3>2 DEF Lifecycle!Finish
  <2>3. CASE phase = "grace"
    <3>1. phase' = "finished" /\ UNCHANGED firstFinisher
      <4> HIDE DEF ty
      <4> QED BY <1>2, <2>3 DEF BeginGrace, EndRace, MustClose
    <3>2. members' = members \ {} /\ {} \in SUBSET (members \ {p})
      BY <1>2
    <3>3. Done(typing)' = (Done(typing) \cup {p}) \ {}
      BY <2>1
    <3>4. QED
      BY <1>1, <2>3, <3>1, <3>2, <3>3 DEF Lifecycle!Finish
  <2>4. QED BY <2>2, <2>3
<1>3. CASE ~MustClose(ty) /\ ~MustEnd(ty) /\ ~BeginRacing
  <2>1. phase = "grace"
    <3> HIDE DEF ty
    <3> QED BY <1>1, <1>3 DEF MustClose, IInv, RaceFields
  <2>2. Expired \in SUBSET (members \ {p})
    BY LimitsAssumption DEF Expired, Never
  <2>3. CASE RemovePlayers(Expired, ty)
    <3>1. /\ members' = members \ Expired /\ UNCHANGED <<phase, firstFinisher>>
          /\ typing' = [q \in Ids |-> IF q \in members \ Expired
                                      THEN ty[q] ELSE "blank"]
      <4>1. members \ Expired # {}
        BY <2>2
      <4> HIDE DEF ty
      <4>2. QED BY <2>3, <4>1 DEF RemovePlayers
    <3>2. Done(typing)' = (Done(typing) \cup {p}) \ Expired
      BY <3>1 DEF Done, IInv, TypeOK
    <3>3. QED
      BY <1>1, <2>1, <2>2, <3>1, <3>2 DEF Lifecycle!Finish
  <2>4. CASE typing' = ty /\ UNCHANGED <<phase, members, firstFinisher>>
    <3>1. members' = members \ {} /\ {} \in SUBSET (members \ {p})
      BY <2>4
    <3>2. Done(typing)' = (Done(typing) \cup {p}) \ {}
      BY <1>1, <2>4 DEF Done
    <3>3. QED
      BY <1>1, <2>1, <2>4, <3>1, <3>2 DEF Lifecycle!Finish
  <2>5. QED
    <3> HIDE DEF ty
    <3> QED
      BY <1>t, <1>3, <2>3, <2>4 DEF TickRoom, BeginGrace, EndRace
<1>4. ~BeginRacing
  BY DEF BeginRacing, MustBegin
<1>5. QED
  <2> HIDE DEF ty
  <2> QED BY <1>t, <1>2, <1>3, <1>4 DEF TickRoom

LEMMA KeystrokeSteps ==
    ASSUME IInv, NEW p \in Ids, Keystroke(p)
    PROVE  LNext \/ Stutter
<1>1. /\ p \in members /\ disc[p] = Never /\ typing[p] # "done"
      /\ phase \in {"racing", "grace", "finished"}
  BY DEF Keystroke, MayType, IInv, SeatMatchesSocket
<1>2. PICK t \in {"typing", "done"} :
        LET ty == [typing EXCEPT ![p] = t] IN
        IF TicksNow(t)
        THEN TickRoom(ty)
        ELSE /\ typing' = ty
             /\ UNCHANGED <<phase, members, host, flagged, ready, before,
                            disc, clock, graceLeft, firstFinisher, sock>>
  BY DEF Keystroke
<1>3. CASE TicksNow(t)
  <2>1. Lifecycle!Finish(p)
    BY <1>1, <1>2, <1>3, FinishTicks DEF TicksNow
  <2>2. QED BY <2>1 DEF LNext, Lifecycle!Next
<1>4. CASE ~TicksNow(t) /\ t = "typing"
  <2>1. /\ typing' = [typing EXCEPT ![p] = "typing"]
        /\ UNCHANGED <<phase, members, firstFinisher>>
    BY <1>2, <1>4
  <2>2. Done(typing)' = Done(typing)
    BY <1>1, <2>1 DEF Done, IInv, TypeOK
  <2>3. QED BY <2>1, <2>2 DEF Stutter
<1>5. CASE ~TicksNow(t) /\ t = "done"
  <2>1. /\ typing' = [typing EXCEPT ![p] = "done"] /\ phase = "finished"
        /\ UNCHANGED <<phase, members, firstFinisher>>
    BY <1>1, <1>2, <1>5 DEF TicksNow
  <2>2. Done(typing)' = (Done(typing) \cup {p}) \ {}
    BY <1>1, <2>1 DEF Done, IInv, TypeOK
  <2>3. /\ members' = members \ {} /\ {} \in SUBSET (members \ {p})
        /\ p \in members \ Done(typing)
    BY <1>1, <2>1 DEF Done
  <2>4. Lifecycle!Finish(p)
    BY <2>1, <2>2, <2>3 DEF Lifecycle!Finish
  <2>5. QED BY <2>4 DEF LNext, Lifecycle!Next
<1>6. QED BY <1>3, <1>4, <1>5

\* A takeover moves the finish and the lead; presenting one's own token again
\* changes nothing.
LEMMA RejoinSteps ==
    ASSUME IInv, NEW new \in Ids, NEW old \in Ids, RejoinRoom(new, old)
    PROVE  LNext \/ Stutter
<1>1. /\ old \in members /\ members' = (members \ {old}) \cup {new}
      /\ firstFinisher' = Renamed(firstFinisher, old, new)
      /\ typing' = [p \in Ids |-> CASE p = new -> typing[old]
                                    [] p = old /\ old # new -> "blank"
                                    [] OTHER -> typing[p]]
      /\ UNCHANGED phase
  BY DEF RejoinRoom
<1>2. CASE old = new
  <2>1. members' = members /\ firstFinisher' = firstFinisher
    BY <1>1, <1>2 DEF Renamed
  <2>2. Done(typing)' = Done(typing)
    BY <1>1, <1>2, <2>1 DEF Done, IInv, TypeOK
  <2>3. QED BY <1>1, <2>1, <2>2 DEF Stutter
<1>3. CASE old # new
  <2>1. Done(typing)' = (Done(typing) \ {old, new}) \cup
                          (IF old \in Done(typing) THEN {new} ELSE {})
    BY <1>1, <1>3 DEF Done, IInv, TypeOK
  <2>2. Lifecycle!Move(old, new)
    BY <1>1, <1>3, <2>1 DEF Lifecycle!Move, Renamed
  <2>3. QED BY <2>2 DEF LNext, Lifecycle!Next
<1>4. QED BY <1>2, <1>3

\* The room is found by its first player and entered by the others.
LEMMA EntrySteps ==
    ASSUME IInv, NEW p \in Ids, CreateRoom(p) \/ JoinRoom(p)
    PROVE  LNext
<1>1. CASE CreateRoom(p)
  <2>1. /\ phase = "none" /\ phase' = "lobby" /\ members' = {p}
        /\ UNCHANGED <<typing, firstFinisher>>
    BY <1>1 DEF CreateRoom
  <2>2. Done(typing) = {} /\ Done(typing)' = {}
    BY <2>1 DEF Done, Nobody, IInv, RoomHasHost, CleanStart
  <2>3. Lifecycle!Found(p)
    BY <2>1, <2>2 DEF Lifecycle!Found
  <2>4. QED BY <2>3 DEF LNext, Lifecycle!Next
<1>2. CASE JoinRoom(p)
  <2>1. /\ phase # "none" /\ members' = members \cup {p}
        /\ typing' = [typing EXCEPT ![p] = "blank"]
        /\ UNCHANGED <<phase, firstFinisher>>
    BY <1>2 DEF JoinRoom
  <2>2. Done(typing)' = Done(typing) \ {p}
    BY <2>1 DEF Done, IInv, TypeOK
  <2>3. Lifecycle!Enter(p)
    BY <2>1, <2>2 DEF Lifecycle!Enter
  <2>4. QED BY <2>3 DEF LNext, Lifecycle!Next
<1>3. QED BY <1>1, <1>2

\* The host's commands reset the race on the way to lobby and countdown.
LEMMA CommandSteps ==
    ASSUME IInv, NEW p \in Ids,
           ReturnToLobby(p) \/ StartRace(p) \/ StartRaceRefused(p)
    PROVE  LNext
<1>1. /\ typing' = Nobody /\ firstFinisher' = Null /\ members' = members
      /\ \/ phase' = "countdown" /\ phase \in {"lobby", "finished"}
         \/ phase' = "lobby" /\ phase \in {"countdown", "finished"}
  BY DEF ReturnToLobby, StartRace, StartRaceRefused, ResetPlayers
<1>2. Done(typing)' = {}
  BY <1>1 DEF Done, Nobody, IInv, TypeOK
<1>3. Lifecycle!Reset("lobby") \/ Lifecycle!Reset("countdown")
  BY <1>1, <1>2 DEF Lifecycle!Reset
<1>4. QED BY <1>3 DEF LNext, Lifecycle!Next

LEMMA RestartExits == IInv /\ Restart => LNext
<1> SUFFICES ASSUME IInv, Restart PROVE LNext
  OBVIOUS
<1>1. phase' = "none" /\ members' = {} /\ firstFinisher' = Null
  BY DEF Restart, DeleteRoom
<1>2. Done(typing)' = {}
  BY <1>1 DEF Done
<1>3. Lifecycle!Exit(members)
  BY <1>1, <1>2 DEF Lifecycle!Exit
<1>4. QED BY <1>3 DEF LNext, Lifecycle!Next

LEMMA StepMaps == IInv /\ [Next]_vars => [LNext]_(Lifecycle!vars)
<1> SUFFICES ASSUME IInv, [Next]_vars PROVE LNext \/ Stutter
  BY DEF Stutter, Lifecycle!vars
<1>1. ASSUME NEW p \in Ids,
             \/ Connect(p) \/ Disconnect(p) \/ GoElsewhere(p)
             \/ \E r \in BOOLEAN : SetReady(p, r)
      PROVE  Stutter
  BY <1>1 DEF Connect, Disconnect, GoElsewhere, SetReady, roomVars, Stutter,
     Done
<1>2. ASSUME NEW p \in Ids, LeaveRoom(p) PROVE LNext
  BY <1>2, RemovalExits DEF LeaveRoom
<1>3. CASE Elapse \/ BeginDrain \/ PollDrain \/ UNCHANGED vars
  BY <1>3 DEF Elapse, BeginDrain, PollDrain, roomVars, vars,
     Stutter, Done
<1>4. QED
  BY <1>1, <1>2, <1>3, TickSteps, KeystrokeSteps, RejoinSteps, EntrySteps,
     CommandSteps, RestartExits DEF Next, Player

\* To its players the room is the lifecycle: what transition(), tick() and the
\* keystroke handler do between two events never shows a state of its own.
THEOREM RoomImplements == Spec => ImplementsLifecycle
<1>1. Init => Lifecycle!Init
  BY DEF Init, Lifecycle!Init, Done
<1>2. QED
  BY <1>1, StepMaps, InvHolds, PTL DEF Spec, ImplementsLifecycle,
     Lifecycle!Spec, LNext
=============================================================================
