------------------------------ MODULE ClockSync ------------------------------
(***************************************************************************)
(* How a browser learns the difference between the gateway's clock and its  *)
(* own, and what it then believes: syncClock once per page, and the offset  *)
(* that comes with the frames that confirm a room.                         *)
(*                                                                         *)
(* Offsets are kept doubled, so that halves are integers.                   *)
(***************************************************************************)
EXTENDS Integers

CONSTANTS
    Skews,         \* bound: what the gateway's clock is ahead by
    MaxRoundTrip,  \* MAX_ROUNDTRIP_MS
    Tolerance,     \* "about 50 ms"
    LastMoment     \* bound: the browser's clock at the end

ASSUME ClockAssumption ==
    /\ Skews \subseteq Int
    /\ {MaxRoundTrip, Tolerance, LastMoment} \subseteq Nat

Unmeasured == -1

VARIABLES
    skew,      \* gateway's Date.now() minus the browser's
    now,       \* the browser's Date.now()
    stage,     \* where syncClock is: request "out", answer on its way "back"
    attempt,   \* first or second
    t0,        \* of the attempt
    t1,        \* of the attempt, once served
    roundTrip, \* of the attempt that succeeded, Unmeasured before
    measured,  \* its offset, doubled
    offset     \* useClockStore's offsetMs, doubled

clockVars ==
    <<skew, now, stage, attempt, t0, t1, roundTrip, measured, offset>>

ClockTypeOK ==
    /\ skew \in Skews /\ now \in Nat
    /\ stage \in {"out", "back", "done", "failed"} /\ attempt \in 1 .. 2
    /\ t0 \in 0 .. now /\ t1 \in Int
    /\ roundTrip \in 0 .. MaxRoundTrip \cup {Unmeasured}
    /\ measured \in Int /\ offset \in Int

ClockInit ==
    /\ skew \in Skews /\ now = 0 /\ stage = "out" /\ attempt = 1
    /\ t0 = 0 /\ t1 = 0 /\ roundTrip = Unmeasured /\ measured = 0 /\ offset = 0

\* recordSyncRequest: t1 and t2 are one reading.
Served ==
    /\ stage = "out" /\ stage' = "back" /\ t1' = now + skew
    /\ UNCHANGED <<skew, now, attempt, t0, roundTrip, measured, offset>>

RoundTrip == now - t0
Offset_OneWay == 2 * (t1 - t0)
Offset == (t1 - t0) + (t1 - now)

\* The answer arrives. One that took too long is asked for again, once.
Answered ==
    /\ stage = "back"
    /\ \/ /\ RoundTrip <= MaxRoundTrip /\ stage' = "done"
          /\ roundTrip' = RoundTrip /\ measured' = Offset /\ offset' = Offset
          /\ UNCHANGED <<attempt, t0>>
       \/ /\ RoundTrip > MaxRoundTrip /\ attempt = 1
          /\ stage' = "out" /\ attempt' = 2 /\ t0' = now
          /\ UNCHANGED <<roundTrip, measured, offset>>
       \/ /\ RoundTrip > MaxRoundTrip /\ attempt = 2 /\ stage' = "failed"
          /\ UNCHANGED <<attempt, t0, roundTrip, measured, offset>>
    /\ UNCHANGED <<skew, now, t1>>

\* The request fails or is answered by an error.
SyncFails ==
    /\ stage \in {"out", "back"} /\ stage' = "failed"
    /\ UNCHANGED <<skew, now, attempt, t0, t1, roundTrip, measured, offset>>

\* The gateway sets clientOffsetMs on a clock_sync message only, and no browser
\* sends one.
ClientOffset == 0

\* joined_room and rejoined_room carry clientOffsetMs, and the client stores it.
EntersRoom ==
    /\ offset' = 2 * ClientOffset
    /\ UNCHANGED <<skew, now, stage, attempt, t0, t1, roundTrip, measured>>

ReloadsPage ==
    /\ stage' = "out" /\ attempt' = 1 /\ t0' = now /\ roundTrip' = Unmeasured
    /\ measured' = 0 /\ offset' = 0
    /\ UNCHANGED <<skew, now, t1>>

ClockTicks ==
    /\ now < LastMoment /\ now' = now + 1
    /\ UNCHANGED
         <<skew, stage, attempt, t0, t1, roundTrip, measured, offset>>

ClockNext ==
    \/ Served \/ Answered \/ SyncFails \/ EntersRoom \/ ReloadsPage
    \/ ClockTicks

ClockSpec == ClockInit /\ [][ClockNext]_clockVars

-----------------------------------------------------------------------------
Apart(x, y) == IF x > y THEN x - y ELSE y - x

\* What syncClock returns is off by at most half of the round trip, however
\* that divides into the way there and back, and after a retry as well.
SyncIsClose ==
    stage = "done" => Apart(measured, 2 * skew) <= roundTrip

\* CountdownView says "GO!" when the browser's clock and the offset have reached
\* startsAtServerMs: what the gateway's clock says then, doubled.
GoesAt(startsAt) == (2 * startsAt - offset) + 2 * skew

\* "Clients sync their clocks with the gateway (NTP-style) before the
\* countdown, so everyone starts within about 50 ms of each other": after a sync
\* that was as close, a countdown ends as close to its time.
StartsTogether ==
    stage = "done" /\ roundTrip <= 2 * Tolerance =>
        \A startsAt \in 0 .. LastMoment :
            Apart(GoesAt(startsAt), 2 * startsAt) <= 2 * Tolerance
=============================================================================
