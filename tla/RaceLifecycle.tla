----------------------------- MODULE RaceLifecycle -----------------------------
(***************************************************************************)
(* What a room promises its players, without hosts, timers, sockets or     *)
(* drains: who is in it, which state it is in, who has finished the race   *)
(* and who was first. RaceRoom implements it.                              *)
(*                                                                         *)
(* The first finish and the move to grace or finished are one step: nobody *)
(* can see a race that runs on with a finisher in it.                      *)
(***************************************************************************)
CONSTANTS Ids, Null

VARIABLES phase, players, done, leader

vars == <<phase, players, done, leader>>

Init == phase = "none" /\ players = {} /\ done = {} /\ leader = Null

Found(p) ==
    /\ phase = "none"
    /\ phase' = "lobby" /\ players' = {p}
    /\ UNCHANGED <<done, leader>>

\* Players come in any state, as new players without a finish.
Enter(p) ==
    /\ phase # "none"
    /\ players' = players \cup {p} /\ done' = done \ {p}
    /\ UNCHANGED <<phase, leader>>

\* Players go, and the room with the last of them.
Exit(gone) ==
    /\ players' = players \ gone
    /\ \/ players' # {} /\ done' = done \ gone /\ UNCHANGED <<phase, leader>>
       \/ players' = {} /\ phase' = "none" /\ done' = {} /\ leader' = Null

\* A player continues under another id, with the finish and the lead.
Move(old, new) ==
    /\ old \in players /\ new # old
    /\ players' = (players \ {old}) \cup {new}
    /\ done' = (done \ {old, new}) \cup (IF old \in done THEN {new} ELSE {})
    /\ leader' = IF leader = old THEN new ELSE leader
    /\ UNCHANGED phase

\* A rematch goes through the lobby without stopping there.
Reset(next) ==
    /\ \/ next = "countdown" /\ phase \in {"lobby", "finished"}
       \/ next = "lobby" /\ phase \in {"countdown", "finished"}
    /\ phase' = next /\ done' = {} /\ leader' = Null
    /\ UNCHANGED players

Go ==
    /\ phase = "countdown" /\ phase' = "racing"
    /\ UNCHANGED <<players, done, leader>>

\* The first finisher leads and opens the grace, unless nobody else is typing.
\* Later finishes may end it, or come with the eviction of absent players.
Finish(p) ==
    /\ p \in players \ done
    /\ \/ /\ phase = "racing"
          /\ \/ phase' = "grace" /\ leader' = p
             \/ phase' = "finished" /\ UNCHANGED leader
          /\ done' = done \cup {p} /\ UNCHANGED players
       \/ /\ phase \in {"grace", "finished"}
          /\ phase' \in {phase, "finished"}
          /\ \E gone \in SUBSET (players \ {p}) :
               /\ players' = players \ gone
               /\ done' = (done \cup {p}) \ gone
          /\ UNCHANGED leader

EndGrace ==
    /\ phase = "grace" /\ phase' = "finished"
    /\ UNCHANGED <<players, done, leader>>

Next ==
    \/ \E p \in Ids : Found(p) \/ Enter(p) \/ Finish(p)
    \/ \E gone \in SUBSET players : Exit(gone)
    \/ \E old, new \in Ids : Move(old, new)
    \/ \E next \in {"lobby", "countdown"} : Reset(next)
    \/ Go \/ EndGrace

Spec == Init /\ [][Next]_vars
=============================================================================
