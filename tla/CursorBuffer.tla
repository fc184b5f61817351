----------------------------- MODULE CursorBuffer -----------------------------
(***************************************************************************)
(* CursorManager's picture of one opponent: the last positions received,    *)
(* drawn BufferTime late so that the caret moves between known positions,   *)
(* and a little past the last of them when updates are late.               *)
(*                                                                         *)
(* A drawn position is a fraction, <<numerator, denominator>>.              *)
(***************************************************************************)
EXTENDS Integers, Sequences

CONSTANTS
    BufferSize,     \* 10
    BufferTime,     \* BUFFER_MS, in units of time
    ExtrapolateMax, \* MAX_EXTRAPOLATE_MS
    Positions,      \* bound: the positions of the opponent
    Horizon         \* bound: the last moment

ASSUME CursorAssumption ==
    /\ Positions \subseteq Nat /\ BufferSize \in Nat \ {0}
    /\ {BufferTime, ExtrapolateMax, Horizon} \subseteq Nat

VARIABLES
    buf,     \* the snapshots of the player, oldest first
    moment   \* performance.now()

cursorVars == <<buf, moment>>

Snapshot == [index : Positions, at : 0 .. Horizon]

CursorTypeOK ==
    /\ buf \in Seq(Snapshot) /\ Len(buf) <= BufferSize
    /\ moment \in 0 .. Horizon

CursorInit == buf = <<>> /\ moment = 0

\* A position before the last one is a correction: what was known is dropped.
Known_Always(i) == buf
Known(i) == IF buf # <<>> /\ i < buf[Len(buf)].index THEN <<>> ELSE buf

OnCursorUpdate(i) ==
    LET longer == Append(Known(i), [index |-> i, at |-> moment]) IN
    /\ buf' = IF Len(longer) > BufferSize THEN Tail(longer) ELSE longer
    /\ UNCHANGED moment

\* A cursor_update of the opponent. RaceView passes on every position the store
\* has whenever the store changes, so that one for somebody else, or a key of
\* this player, repeats what is known of the opponent as of now.
Received(i) == OnCursorUpdate(i)
Repeated == buf # <<>> /\ OnCursorUpdate(buf[Len(buf)].index)

MomentPasses == moment < Horizon /\ moment' = moment + 1 /\ UNCHANGED buf

CursorNext ==
    \/ \E i \in Positions : Received(i)
    \/ Repeated \/ MomentPasses

CursorSpec == CursorInit /\ [][CursorNext]_cursorVars

-----------------------------------------------------------------------------
Larger(a, b) == IF a > b THEN a ELSE b

\* The step from s to t by the time it takes, reached at time target.
Between(s, t, target) ==
    LET span == t.at - s.at IN
    IF span <= 0 THEN <<t.index, 1>>
    ELSE <<s.index * span + (target - s.at) * (t.index - s.index), span>>

\* Past the last snapshot the last step goes on, for a while.
Beyond(prev, last, target) ==
    LET dt == target - last.at
        delta == Larger(1, last.at - prev.at)
    IN  IF dt <= ExtrapolateMax
        THEN <<last.index * delta + (last.index - prev.index) * dt, delta>>
        ELSE <<last.index, 1>>

\* calculateInterpolatedIndex, of a buffer that is not empty.
Drawn ==
    LET target == moment - BufferTime
        n == Len(buf)
        steps == {i \in 1 .. n - 1 :
                    buf[i].at <= target /\ target <= buf[i + 1].at}
    IN  IF n = 1 \/ target <= buf[1].at THEN <<buf[1].index, 1>>
        ELSE IF target >= buf[n].at THEN Beyond(buf[n - 1], buf[n], target)
        ELSE LET i == CHOOSE i \in steps : \A j \in steps : i <= j
             IN  Between(buf[i], buf[i + 1], target)

\* Once a place is known, an opponent is never drawn where the opponent was not:
\* not behind a place passed BufferTime ago, nor, but for the short while after
\* the last update, ahead of one reached only later. Corrections, which take the
\* opponent back, and a full buffer do not break it.
CursorOnTheWay ==
    buf # <<>> =>
        \A i \in DOMAIN buf :
            /\ buf[i].at < moment - BufferTime =>
                 Drawn[1] >= buf[i].index * Drawn[2]
            /\ moment - BufferTime < buf[i].at /\ Len(buf) > 1 =>
                 Drawn[1] <= buf[i].index * Drawn[2]
=============================================================================
