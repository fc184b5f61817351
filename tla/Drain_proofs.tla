----------------------------- MODULE Drain_proofs -----------------------------
(***************************************************************************)
(* Proofs about Drain, for any bounds on the races and the frames under way. *)
(***************************************************************************)
EXTENDS Drain, TLAPS

\* Without a notice given there is none counted.
NoticesCounted == notices <= 1 /\ (~announced => notices = 0)

\* The link joins two living processes; a gateway that is down has nothing
\* left of its latches, and only its own shutdown makes it wait.
Lives ==
    /\ link => gw # "down" /\ engine # "down"
    /\ gw = "down" => pipe = {} /\ ~draining /\ ~announced /\ notices = 0
    /\ own <=> gw = "waiting"

\* The last event of an engine outlives its link and its races: the next
\* engine is not reached, and has no race, before that event is handled.
LastWord == "drained" \in pipe => ~link /\ races = 0

\* A latch about to be set is as justified as one that is set.
LatchComing ==
    "draining" \in pipe => engine = "draining" \/ "drained" \in pipe \/ missed

\* The type invariant in two parts: the flags, and the other variables.
Flags ==
    /\ link \in BOOLEAN /\ missed \in BOOLEAN
    /\ draining \in BOOLEAN /\ drained \in BOOLEAN
    /\ announced \in BOOLEAN /\ own \in BOOLEAN

Ranges ==
    /\ engine \in {"up", "draining", "down"}
    /\ gw \in {"up", "waiting", "down"}
    /\ left \in {"no", "drained", "timeout", "crash"}
    /\ pipe \subseteq {"draining", "drained"}
    /\ races \in 0 .. MaxRaces
    /\ asked \in 0 .. MaxAsked
    /\ notices \in 0 .. 2

LEMMA TypeParts ==
    /\ TypeOK <=> Flags /\ Ranges
    /\ TypeOK' <=> Flags' /\ Ranges'
BY Zenon DEF TypeOK, Flags, Ranges

IInv ==
    /\ TypeOK
    /\ NoticesCounted
    /\ Lives
    /\ LastWord
    /\ LatchComing
    /\ LatchJustified

\* A gateway that goes leaves everything in range and unlatched.
LEMMA GoneInv ==
    ASSUME TypeOK, NEW how \in {"drained", "timeout", "crash"},
           GatewayGone(how)
    PROVE  IInv'
<1>1. TypeOK'
  <2>1. Flags'
    BY DEF GatewayGone, Flags
  <2>2. Ranges'
    BY TypeParts, BoundsAssumption DEF GatewayGone, Ranges, engineVars
  <2>3. QED BY <2>1, <2>2, TypeParts
<1>2. NoticesCounted' /\ Lives'
  BY DEF GatewayGone, NoticesCounted, Lives
<1>3. LastWord' /\ LatchComing' /\ LatchJustified'
  BY DEF GatewayGone, LastWord, LatchComing, LatchJustified
<1>4. QED BY <1>1, <1>2, <1>3 DEF IInv

\* An engine that goes, with or without a last word.
LEMMA ExitInv ==
    ASSUME IInv, engine = "draining", EngineExit
    PROVE  IInv'
<1> USE DEF EngineExit, EngineGone
<1>1. TypeOK'
  <2>1. Flags'
    BY TypeParts DEF IInv, Flags, Heard
  <2>2. Ranges'
    BY TypeParts, BoundsAssumption DEF IInv, Ranges, Sent
  <2>3. QED BY <2>1, <2>2, TypeParts
<1>2. NoticesCounted'
  BY DEF IInv, NoticesCounted
<1>3. Lives'
  BY DEF IInv, Lives, Sent
<1>4. LastWord'
  BY DEF LastWord
<1>5. LatchComing' /\ LatchJustified'
  BY DEF IInv, LatchComing, LatchJustified, Sent, Heard
<1>6. QED BY <1>1, <1>2, <1>3, <1>4, <1>5 DEF IInv

LEMMA CrashInv ==
    ASSUME IInv, EngineCrash
    PROVE  IInv'
<1> USE DEF EngineCrash, EngineGone
<1>1. TypeOK'
  <2>1. Flags'
    BY TypeParts DEF IInv, Flags, Heard
  <2>2. Ranges'
    BY TypeParts, BoundsAssumption DEF IInv, Ranges
  <2>3. QED BY <2>1, <2>2, TypeParts
<1>2. NoticesCounted' /\ Lives' /\ LastWord'
  BY DEF IInv, NoticesCounted, Lives, LastWord
<1>3. LatchComing' /\ LatchJustified'
  BY DEF IInv, LatchComing, LatchJustified, Heard
<1>4. QED BY <1>1, <1>2, <1>3 DEF IInv

LEMMA IInvInit == Init => IInv
<1> SUFFICES ASSUME Init PROVE IInv
  OBVIOUS
<1>1. Flags
  BY DEF Init, Flags
<1>2. Ranges
  BY BoundsAssumption DEF Init, Ranges
<1>3. QED
  BY <1>1, <1>2, TypeParts DEF Init, IInv, NoticesCounted, Lives, LastWord,
     LatchComing, LatchJustified

\* The steps in which both processes go on.
LEMMA QuietStepInv ==
    ASSUME IInv,
           \/ EngineHandles \/ RaceEnds \/ EngineTerm \/ EngineStart
           \/ Connect \/ Forward \/ GatewayStart
    PROVE  IInv'
<1> USE DEF EngineHandles, RaceEnds, EngineTerm, EngineStart, Connect, Forward,
            GatewayStart, engineVars, latches
<1>1. TypeOK'
  <2>1. Flags'
    BY TypeParts DEF IInv, Flags
  <2>2. Ranges'
    BY TypeParts, BoundsAssumption DEF IInv, Ranges, Sent
  <2>3. QED BY <2>1, <2>2, TypeParts
<1>2. NoticesCounted' /\ Lives'
  BY DEF IInv, NoticesCounted, Lives, Sent
<1>3. LastWord'
  BY TypeParts DEF IInv, Ranges, LastWord, Lives, Sent
<1>4. LatchComing'
  BY DEF IInv, LatchComing, Sent
<1>5. LatchJustified'
  BY DEF IInv, LatchJustified, Lives, Sent
<1>6. QED BY <1>1, <1>2, <1>3, <1>4, <1>5 DEF IInv

\* The steps that empty the pipe or set or lift the latch.
LEMMA LatchStepInv ==
    ASSUME IInv,
           \/ LinkLost \/ TailLost \/ HearDraining \/ HearDrained \/ GatewayTerm
    PROVE  IInv'
<1>1. CASE HearDrained /\ gw = "waiting"
  BY <1>1, GoneInv DEF HearDrained, IInv
<1>2. CASE ~(HearDrained /\ gw = "waiting")
  <2> USE <1>2 DEF LinkLost, TailLost, HearDraining, HearDrained, GatewayTerm,
          LatchFound, engineVars, latches
  <2>1. TypeOK'
    <3>1. Flags'
      BY TypeParts DEF IInv, Flags, Announce
    <3>2. Ranges'
      BY TypeParts, BoundsAssumption
         DEF IInv, Ranges, Announce, NoticesCounted
    <3>3. QED BY <3>1, <3>2, TypeParts
  <2>2. NoticesCounted'
    BY TypeParts DEF IInv, Flags, NoticesCounted, Announce
  <2>3. Lives'
    BY DEF IInv, Lives, Announce
  <2>4. LastWord' /\ LatchComing'
    BY DEF IInv, LastWord, LatchComing
  <2>5. LatchJustified'
    <3>1. CASE LinkLost
      BY <3>1 DEF IInv, LatchJustified, LastWord
    <3>2. CASE TailLost
      BY <3>2 DEF LatchJustified
    <3>3. CASE HearDraining
      BY <3>3 DEF IInv, LatchJustified, LatchComing
    <3>4. CASE HearDrained
      BY <1>2, <3>4 DEF IInv, LatchJustified, Lives, Lifts
    <3>5. CASE GatewayTerm
      BY <3>5 DEF LatchJustified
    <3>6. QED BY <3>1, <3>2, <3>3, <3>4, <3>5
  <2>6. QED BY <2>1, <2>2, <2>3, <2>4, <2>5 DEF IInv
<1>3. QED BY <1>1, <1>2

LEMMA IInvNext == IInv /\ [Next]_vars => IInv'
<1> SUFFICES ASSUME IInv, [Next]_vars PROVE IInv'
  OBVIOUS
<1>1. CASE \/ EngineHandles \/ RaceEnds \/ EngineTerm \/ EngineStart
           \/ Connect \/ Forward \/ GatewayStart
  BY <1>1, QuietStepInv
<1>2. CASE \/ LinkLost \/ TailLost \/ HearDraining \/ HearDrained \/ GatewayTerm
  BY <1>2, LatchStepInv
<1>3. CASE EnginePollsIdle \/ EngineCap
  BY <1>3, ExitInv DEF EnginePollsIdle, EngineCap
<1>4. CASE EngineCrash
  BY <1>4, CrashInv
<1>5. CASE GatewayTimeout \/ GatewayCrash
  BY <1>5, GoneInv DEF GatewayTimeout, GatewayCrash, IInv
<1>6. CASE UNCHANGED vars
  BY <1>6 DEF vars, engineVars, latches, IInv, TypeOK, NoticesCounted, Lives,
     LastWord, LatchComing, LatchJustified
<1>7. QED
  BY <1>1, <1>2, <1>3, <1>4, <1>5, <1>6 DEF Next

\* The inductive invariant holds under either specification's steps.
THEOREM InvHolds == Init /\ [][Next]_vars => []IInv
BY IInvInit, IInvNext, PTL

\* Every variable keeps its range.
THEOREM TypeCorrect == Spec => []TypeOK
<1>1. IInv => TypeOK
  BY DEF IInv
<1>2. QED BY <1>1, InvHolds, PTL DEF Spec

\* A latched gateway has a drain before it, or missed the end of one
\* (handlers.ts, the "draining" and "drained" events).
THEOREM LatchSafe == Spec => []LatchJustified
<1>1. IInv => LatchJustified
  BY DEF IInv
<1>2. QED BY <1>1, InvHolds, PTL DEF Spec

\* Clients get one SERVER_SHUTTING_DOWN, whichever of the two drains comes
\* first (announceShuttingDownOnce).
THEOREM OneNotice == Spec => []AtMostOneNotice
<1>1. IInv => AtMostOneNotice
  BY DEF IInv, NoticesCounted, AtMostOneNotice
<1>2. QED BY <1>1, InvHolds, PTL DEF Spec

\* A gateway that leaves on a drained leaves no race (index.ts onShutdown).
THEOREM ExitSafe == Spec => CleanExit
<1> DEFINE Clean == gw # "down" /\ gw' = "down" /\ left' = "drained" =>
                      races = 0
<1>1. IInv /\ [Next]_vars => [Clean]_vars
  <2> SUFFICES ASSUME IInv, Next, gw # "down", gw' = "down", left' = "drained"
               PROVE  races = 0
    OBVIOUS
  <2>1. HearDrained
    BY DEF Next, EngineHandles, RaceEnds, EngineTerm, EnginePollsIdle,
       EngineCap, EngineExit, EngineGone, EngineCrash, EngineStart, Connect,
       LinkLost, TailLost, Forward, HearDraining, GatewayTerm, LatchFound,
       GatewayTimeout, GatewayCrash, GatewayStart, GatewayGone
  <2>2. QED BY <2>1 DEF HearDrained, IInv, LastWord
<1>2. QED BY <1>1, InvHolds, PTL DEF Spec, CleanExit
=============================================================================
