------------------------------ MODULE Standings ------------------------------
(***************************************************************************)
(* The numbers of one player that decide the order of the results, for a    *)
(* player who does not finish: how many keystrokes the engine takes in the  *)
(* time, the speed it notes at each, and the score on the results board.    *)
(* A speed is a fraction, <<numerator, denominator>>.                       *)
(***************************************************************************)
EXTENDS Integers

CONSTANTS
    PreStart,     \* PRE_START_GRACE_MS
    MinInterval,  \* MIN_INTERVAL_MS
    FinishBonus,  \* FINISH_BONUS
    Slack,        \* bound: how much later than the earliest a key arrives
    MaxTotal      \* bound: keystrokes

ASSUME StandingsAssumption ==
    /\ {PreStart, MinInterval, FinishBonus, Slack, MaxTotal} \subseteq Nat
    /\ PreStart > MinInterval /\ MinInterval > 0

\* The minimal interval and the bonus fit each other: characters count as a
\* fifth of a word, and a minute has 60 000 ms.
ASSUME BonusAssumption == 12000 <= FinishBonus * MinInterval

VARIABLES
    at,     \* time since startsAtServerMs at the last keystroke taken
    total,  \* totalKeystrokes
    right,  \* correct characters of charStates
    wrong,  \* wrong ones
    speed   \* currentWpm

standVars == <<at, total, right, wrong, speed>>

StandTypeOK ==
    /\ at \in Nat /\ total \in Nat /\ right \in Nat /\ wrong \in Nat
    /\ speed[1] \in Nat /\ speed[2] \in Nat \ {0}

StandInit ==
    at = 0 /\ total = 0 /\ right = 0 /\ wrong = 0 /\ speed = <<0, 1>>

Earliest_AnyTime == IF total = 0 THEN PreStart ELSE at
Earliest == IF total = 0 THEN PreStart ELSE at + MinInterval

\* computeNetWpm, in characters per ms times 12000.
NetWpm(r, w, t) ==
    IF t = 0 \/ r <= w THEN <<0, 1>> ELSE <<12000 * (r - w), t>>

\* A keystroke is taken: a character not typed yet, or one written over.
Take ==
    /\ total < MaxTotal /\ total' = total + 1
    /\ at' \in Earliest .. Earliest + Slack
    /\ \/ right' = right + 1 /\ wrong' = wrong
       \/ right' = right /\ wrong' = wrong + 1
       \/ wrong > 0 /\ right' = right + 1 /\ wrong' = wrong - 1
       \/ right > 0 /\ right' = right - 1 /\ wrong' = wrong + 1
       \/ right + wrong > 0 /\ right' = right /\ wrong' = wrong
    /\ speed' = NetWpm(right', wrong', at')

\* A correction takes a character back and leaves the speed as it was noted.
Untake ==
    /\ \/ right > 0 /\ right' = right - 1 /\ wrong' = wrong
       \/ wrong > 0 /\ wrong' = wrong - 1 /\ right' = right
    /\ UNCHANGED <<at, total, speed>>

\* transition(): a new race.
NewRace ==
    /\ at' = 0 /\ total' = 0 /\ right' = 0 /\ wrong' = 0 /\ speed' = <<0, 1>>

StandNext == Take \/ Untake \/ NewRace
StandSpec == StandInit /\ [][StandNext]_standVars

-----------------------------------------------------------------------------
\* "Score dominates any wpm*accuracy product for a player who didn't finish":
\* the score without the bonus, speed times right / total, is below the bonus,
\* so whoever finishes is placed before whoever does not, at any pace the
\* engine takes keystrokes and whatever is corrected after the last of them.
FinishersFirst ==
    total > 0 =>
        speed[1] * right < FinishBonus * speed[2] * total
=============================================================================
