-------------------------------- MODULE Drain --------------------------------
(***************************************************************************)
(* Shutting down in split mode: an engine and a gateway that are terminated, *)
(* killed and restarted independently, the loopback link between them and  *)
(* the latches by which the gateway follows a drain.                       *)
(*                                                                         *)
(* Both processes are single-threaded: a handler is one action. The engine *)
(* publishes at most one draining and one drained in a life, in this order, *)
(* and a new connection opens only when the old one is used up, so the set *)
(* of the events under way is the queue. A frame for the engine is one that *)
(* may end in a race: of the others only create_room and join_room concern *)
(* a drain, and they are refused on the same lines.                        *)
(***************************************************************************)
EXTENDS Integers

CONSTANTS
    MaxRaces,   \* bound on the races under way at once
    MaxAsked    \* bound on the start_race frames under way at once

ASSUME BoundsAssumption == MaxRaces \in Nat \ {0} /\ MaxAsked \in Nat \ {0}

VARIABLES
    engine,     \* the engine's process; "draining" is EngineWorker.draining
    races,      \* its rooms in countdown, racing or grace
    link,       \* the gateway's socket to this engine is open
    pipe,       \* engine events sent and not yet handled by the gateway
    asked,      \* start_race frames forwarded and not yet handled
    gw,         \* the gateway's process; "waiting" is inside drain()
    draining, drained, announced, own,  \* the latches of ClientManager
    notices,    \* SERVER_SHUTTING_DOWN broadcasts for the present latch
    missed,     \* history: the drained that would lift the latch was lost
    left        \* history: how the gateway last ended

latches == <<draining, drained, announced, own, notices, missed>>
engineVars == <<engine, races>>
vars == <<engineVars, link, pipe, asked, gw, latches, left>>

TypeOK ==
    /\ engine \in {"up", "draining", "down"}
    /\ races \in 0 .. MaxRaces
    /\ link \in BOOLEAN
    /\ pipe \subseteq {"draining", "drained"}
    /\ asked \in 0 .. MaxAsked
    /\ gw \in {"up", "waiting", "down"}
    /\ draining \in BOOLEAN /\ drained \in BOOLEAN
    /\ announced \in BOOLEAN /\ own \in BOOLEAN
    /\ notices \in 0 .. 2
    /\ missed \in BOOLEAN
    /\ left \in {"no", "drained", "timeout", "crash"}

Init ==
    /\ engine = "up" /\ races = 0
    /\ link = TRUE /\ pipe = {} /\ asked = 0
    /\ gw = "up" /\ left = "no"
    /\ draining = FALSE /\ drained = FALSE
    /\ announced = FALSE /\ own = FALSE
    /\ notices = 0 /\ missed = FALSE

-----------------------------------------------------------------------------
(* The engine.                                                             *)

\* publishToGateway: without a connected gateway the event goes nowhere.
Sent(event) == IF link THEN pipe \cup {event} ELSE pipe

\* start_race is refused by a draining engine, and may be for other reasons.
EngineHandles ==
    /\ engine # "down" /\ link /\ asked > 0
    /\ asked' = asked - 1
    /\ \/ races' = races
       \/ engine = "up" /\ races < MaxRaces /\ races' = races + 1
    /\ UNCHANGED <<engine, link, pipe, gw, latches, left>>

RaceEnds ==
    /\ engine # "down" /\ races > 0
    /\ races' = races - 1
    /\ UNCHANGED <<engine, link, pipe, asked, gw, latches, left>>

EngineTerm ==
    /\ engine = "up"
    /\ engine' = "draining"
    /\ pipe' = Sent("draining")
    /\ UNCHANGED <<races, link, asked, gw, latches, left>>

\* The process is gone, its rooms with it. What the gateway sent is lost,
\* what it queued for want of a link is not.
EngineGone ==
    /\ engine' = "down" /\ races' = 0
    /\ link' = FALSE
    /\ asked' = IF link THEN 0 ELSE asked
    /\ UNCHANGED <<gw, draining, drained, announced, own, notices, left>>

\* The gateway is latched, or will be by an event under way.
Heard == draining \/ "draining" \in pipe

\* drained is the last event of the engine's life.
EngineExit ==
    /\ pipe' = Sent("drained")
    /\ missed' = (missed \/ (~link /\ Heard))
    /\ EngineGone

EnginePollsIdle == engine = "draining" /\ races = 0 /\ EngineExit

EngineCap_WhenIdle == engine = "draining" /\ races = 0 /\ EngineExit
EngineCap == engine = "draining" /\ EngineExit

\* Killed, in a drain or out of it.
EngineCrash ==
    /\ engine # "down"
    /\ missed' = (missed \/ (engine = "draining" /\ Heard))
    /\ UNCHANGED pipe
    /\ EngineGone

EngineStart ==
    /\ engine = "down"
    /\ engine' = "up"
    /\ UNCHANGED <<races, link, pipe, asked, gw, latches, left>>

-----------------------------------------------------------------------------
(* The link.                                                               *)

Connect ==
    /\ ~link /\ gw # "down" /\ engine # "down" /\ pipe = {}
    /\ link' = TRUE
    /\ UNCHANGED <<engineVars, pipe, asked, gw, latches, left>>

\* The connection breaks between two living processes. The engine publishes
\* drained only as it exits, so it is not among the events lost here.
LinkLost ==
    /\ link
    /\ link' = FALSE /\ pipe' = {} /\ asked' = 0
    /\ UNCHANGED <<engineVars, gw, latches, left>>

\* The end of a dead connection's data never arrives.
TailLost ==
    /\ ~link /\ pipe # {}
    /\ pipe' = {}
    /\ missed' = draining
    /\ UNCHANGED <<engineVars, link, asked, gw, draining, drained, announced,
                   own, notices, left>>

-----------------------------------------------------------------------------
(* The gateway.                                                            *)

\* announceShuttingDownOnce and the broadcast it gates.
Announce_Always == announced' = TRUE /\ notices' = notices + 1
Announce ==
    /\ announced' = TRUE
    /\ notices' = IF announced THEN notices ELSE notices + 1

\* dispatch forwards a start_race, but not while the latch is set.
Forward ==
    /\ gw # "down" /\ ~draining /\ asked < MaxAsked
    /\ asked' = asked + 1
    /\ UNCHANGED <<engineVars, link, pipe, gw, latches, left>>

\* stop() and the end of the process. The next one starts without latches.
GatewayGone(how) ==
    /\ gw' = "down" /\ left' = how
    /\ draining' = FALSE /\ drained' = FALSE
    /\ announced' = FALSE /\ own' = FALSE
    /\ notices' = 0 /\ missed' = FALSE
    /\ link' = FALSE /\ pipe' = {} /\ asked' = 0
    /\ UNCHANGED engineVars

GatewayStart ==
    /\ gw = "down"
    /\ gw' = "up"
    /\ UNCHANGED <<engineVars, link, pipe, asked, latches, left>>

HearDraining ==
    /\ gw # "down" /\ "draining" \in pipe
    /\ pipe' = pipe \ {"draining"}
    /\ draining' = TRUE
    /\ Announce
    /\ UNCHANGED <<engineVars, link, asked, gw, drained, own, missed, left>>

\* A drain that is not the gateway's own: the engine will be back.
Lifts_Never == FALSE
Lifts == ~own

HearDrained ==
    /\ gw # "down" /\ "drained" \in pipe /\ "draining" \notin pipe
    /\ IF gw = "waiting"
       THEN GatewayGone("drained")
       ELSE /\ pipe' = pipe \ {"drained"}
            /\ drained' = TRUE
            /\ draining' = (draining /\ ~Lifts)
            /\ notices' = IF Lifts THEN 0 ELSE notices
            /\ missed' = FALSE
            /\ UNCHANGED <<engineVars, link, asked, gw, announced, own, left>>

\* What drain() finds in the drained latch, which onShutdown has just cleared.
LatchFound_Stale == drained
LatchFound == FALSE

GatewayTerm ==
    /\ gw = "up"
    /\ IF LatchFound
       THEN GatewayGone("drained")
       ELSE /\ gw' = "waiting"
            /\ drained' = FALSE /\ draining' = TRUE /\ own' = TRUE
            /\ Announce
            /\ UNCHANGED <<engineVars, link, pipe, asked, missed, left>>

GatewayTimeout_Linked == gw = "waiting" /\ link /\ GatewayGone("timeout")
GatewayTimeout == gw = "waiting" /\ GatewayGone("timeout")

GatewayCrash == gw # "down" /\ GatewayGone("crash")

-----------------------------------------------------------------------------
Next ==
    \/ EngineHandles \/ RaceEnds
    \/ EngineTerm \/ EnginePollsIdle \/ EngineCap \/ EngineCrash \/ EngineStart
    \/ Connect \/ LinkLost \/ TailLost
    \/ Forward \/ HearDraining \/ HearDrained
    \/ GatewayTerm \/ GatewayTimeout \/ GatewayCrash \/ GatewayStart

\* The processes' own steps and the supervisor's restart of the engine. No
\* race has to end, nobody has to terminate anything, nothing has to fail.
Fairness ==
    /\ WF_vars(EnginePollsIdle) /\ WF_vars(EngineCap) /\ WF_vars(EngineStart)
    /\ WF_vars(Connect) /\ WF_vars(HearDraining) /\ WF_vars(HearDrained)
    /\ WF_vars(GatewayTimeout)

Spec == Init /\ [][Next]_vars /\ Fairness

-----------------------------------------------------------------------------
\* A gateway that refuses players for an engine's sake has that engine's
\* drain before it or the end of it under way, unless the end was lost: the
\* latch is not left over from a drain it has heard the end of
\* (handlers.ts "drained").
LatchJustified ==
    gw = "up" /\ draining =>
        engine = "draining" \/ "drained" \in pipe \/ missed

\* However an engine's drain and the gateway's own fall together, clients get
\* one SERVER_SHUTTING_DOWN for it (announceShuttingDownOnce).
AtMostOneNotice == notices <= 1

\* A gateway that ends its drain before the time is up leaves no race behind:
\* it takes no older drained for the end of the races now under way (the
\* setDrained(false) of onShutdown).
CleanExit ==
    [][gw # "down" /\ gw' = "down" /\ left' = "drained" => races = 0]_vars

\* A gateway latched by an engine's drain serves again, if the drained that
\* ends the drain is not lost.
Resumes == gw = "up" /\ draining ~> gw # "up" \/ ~draining \/ missed

\* A drain ends, though no race need ever end.
ShutdownEnds ==
    /\ engine = "draining" ~> engine = "down"
    /\ gw = "waiting" ~> gw = "down"

\* "Reset the `draining` latch so a healthy gateway resumes accepting
\* create_room/join_room/start_race instead of being permanently wedged"
\* (handlers.ts:109-111), after a "SIGTERM/crash-restart cycle" of the engine:
\* two processes that stay up and connected do not stay latched.
NeverWedged ==
    <>[](gw = "up" /\ engine = "up" /\ link) => []<>~draining
=============================================================================
