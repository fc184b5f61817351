---------------------------- MODULE TypingSession ----------------------------
(***************************************************************************)
(* One typist in a race: the TypingEngine in the browser, the channel that  *)
(* carries its keystroke and correction frames in order, and the engine's   *)
(* record of the player, which validateKeystroke and the correction handler *)
(* update. The two sides start alike and talk one way only: what the engine *)
(* refuses is never taken back in the browser.                              *)
(*                                                                         *)
(* A key is right or wrong for the position it is typed at. Times appear as *)
(* the refusals they cause: recent (20 ms since the last accepted frame)    *)
(* and settling (50 ms after the start, 500 ms after a rejoin).             *)
(***************************************************************************)
EXTENDS Integers, Sequences, FiniteSets

CONSTANTS
    Length,     \* length of the passage
    Spaces,     \* the positions of its spaces
    MaxErrors,  \* wrong characters allowed in a row, here and there
    MaxKeys,    \* bound: keys of the session
    MaxQueue    \* bound: frames under way

ASSUME PassageAssumption ==
    /\ Length \in Nat \ {0}
    /\ Spaces \subseteq 1 .. Length
    /\ MaxErrors \in Nat \ {0}
ASSUME BoundsAssumption == MaxKeys \in Nat /\ MaxQueue \in Nat

VARIABLES
    index,      \* TypingEngine.ownIndex
    shown,      \* TypingEngine.charStates
    run,        \* TypingEngine.consecutiveErrors
    finished,   \* TypingEngine.isFinished
    channel,    \* the frames sent and not yet handled
    progress,   \* player.progress
    states,     \* player.charStates
    total,      \* player.totalKeystrokes
    errors,     \* player.uncorrectedErrors
    stamped,    \* player.finishedAtServerMs is set
    recent,     \* less than 20 ms since lastKeystrokeAt
    settling,   \* less than 50 ms since the start, or 500 ms since the rejoin
    over,       \* the race is "finished", for any reason
    refused,    \* history: a keystroke was refused
    reloaded    \* history: the page was reloaded

browser == <<index, shown, run, finished>>
record == <<progress, states, total, errors, stamped>>
vars == <<browser, channel, record, recent, settling, over, refused, reloaded>>

Position == 1 .. Length
CharState == {"pending", "correct", "error"}
KeyFrame == [type : {"keystroke"}, at : Position, right : BOOLEAN]
CorrectionFrame == [type : {"correction"}]
Frame == KeyFrame \cup CorrectionFrame

TypeOK ==
    /\ index \in 0 .. Length
    /\ shown \in [Position -> CharState]
    /\ run \in 0 .. MaxErrors
    /\ channel \in Seq(Frame)
    /\ progress \in 0 .. Length
    /\ states \in [Position -> CharState]
    /\ total \in Nat /\ errors \in Nat
    /\ finished \in BOOLEAN /\ stamped \in BOOLEAN
    /\ recent \in BOOLEAN /\ settling \in BOOLEAN
    /\ over \in BOOLEAN /\ refused \in BOOLEAN /\ reloaded \in BOOLEAN

Blank == [i \in Position |-> "pending"]

Init ==
    /\ index = 0 /\ shown = Blank /\ run = 0 /\ finished = FALSE
    /\ channel = <<>>
    /\ progress = 0 /\ states = Blank /\ total = 0 /\ errors = 0
    /\ stamped = FALSE
    /\ recent = FALSE
    /\ settling \in BOOLEAN
    /\ over = FALSE /\ refused = FALSE /\ reloaded = FALSE

-----------------------------------------------------------------------------
(* What both sides compute from the characters.                            *)

In(st, s) == {i \in Position : st[i] = s}
Count(st, s) == Cardinality(In(st, s))

\* At least half of what is typed is correct.
Accurate(st) ==
    /\ Count(st, "correct") > 0
    /\ Count(st, "correct") >= Count(st, "error")

\* Every one of the MaxErrors characters before i is wrong.
RunBefore_OneMore(st, i) ==
    /\ i > MaxErrors + 1
    /\ \A j \in i - MaxErrors - 1 .. i - 1 : st[j] = "error"
RunBefore(st, i) ==
    /\ i > MaxErrors
    /\ \A j \in i - MaxErrors .. i - 1 : st[j] = "error"

Mark(right) == IF right THEN "correct" ELSE "error"

-----------------------------------------------------------------------------
(* The browser: TypingEngine.handleKeyDown.                                *)

Word(i) ==
    {j \in Position \ Spaces :
        \A k \in Spaces : ~(i <= k /\ k <= j) /\ ~(j <= k /\ k <= i)}

\* isCharDeletable: the last character of a word without errors is locked.
Deletable(i) ==
    \/ i \in Spaces
    \/ i < Length /\ i + 1 \notin Spaces
    \/ \E j \in Word(i) : shown[j] = "error"

\* App's onKeystroke and onCorrection, which RaceClient sends on. A frame that it
\* drops because its socket is not open stays under way here until the reload.
Sends(frame) ==
    /\ Len(channel) < MaxQueue
    /\ channel' = Append(channel, frame)

TypeKey(right) ==
    LET i == index + 1 IN
    /\ ~finished /\ index < Length
    /\ total + Len(channel) < MaxKeys
    /\ i \in Spaces => right
    /\ right \/ run < MaxErrors
    /\ index' = i
    /\ shown' = [shown EXCEPT ![i] = Mark(right)]
    /\ run' = IF right THEN 0 ELSE run + 1
    /\ finished' = (i = Length /\ right /\ Accurate(shown'))
    /\ Sends([type |-> "keystroke", at |-> i, right |-> right])
    /\ UNCHANGED <<record, recent, settling, over, refused, reloaded>>

Backspace ==
    /\ ~finished /\ index > 0
    /\ Deletable(index)
    /\ index' = index - 1
    /\ shown' = [shown EXCEPT ![index] = "pending"]
    /\ run' = IF shown[index] = "error" /\ run > 0 THEN run - 1 ELSE run
    /\ Sends([type |-> "correction"])
    /\ UNCHANGED <<finished, record, recent, settling, over, refused, reloaded>>

\* The page is reloaded and rejoins the room, which keeps the player's record
\* and opens the 500 ms of grace. TypingEngine.init starts from nothing. What
\* the old socket had not delivered is lost.
Reload ==
    /\ ~over
    /\ index' = 0 /\ shown' = Blank /\ run' = 0 /\ finished' = FALSE
    /\ channel' = <<>>
    /\ settling' = TRUE
    /\ reloaded' = TRUE
    /\ UNCHANGED <<record, recent, over, refused>>

-----------------------------------------------------------------------------
(* The engine.                                                             *)

\* validateKeystroke, once the race has begun. It asks neither whether the
\* race is over nor where the player's cursor is.
Accepts_Finished(m) ==
    /\ ~settling /\ ~recent
    /\ m.right \/ ~RunBefore(states, m.at)
Accepts(m) ==
    /\ ~stamped /\ ~settling /\ ~recent
    /\ m.right \/ ~RunBefore(states, m.at)

Recount(st) == Count(st, "error")

AcceptKey(m) ==
    /\ Accepts(m)
    /\ states' = [states EXCEPT ![m.at] = Mark(m.right)]
    /\ progress' = IF m.at > progress THEN m.at ELSE progress
    /\ total' = total + 1
    /\ errors' = Recount(states')
    /\ stamped' = (progress' = Length /\ m.right /\ Accurate(states'))
    /\ recent' = TRUE
    /\ UNCHANGED refused

RefuseKey(m) ==
    /\ ~Accepts(m)
    /\ refused' = TRUE
    /\ UNCHANGED <<record, recent>>

HandleKeystroke ==
    /\ channel # <<>> /\ Head(channel).type = "keystroke"
    /\ channel' = Tail(channel)
    /\ AcceptKey(Head(channel)) \/ RefuseKey(Head(channel))
    /\ UNCHANGED <<browser, settling, over, reloaded>>

\* The correction handler takes one character back, wherever the cursor is.
\* It leaves uncorrectedErrors to the next keystroke.
TakeBack_KeepsStates == states
TakeBack_NextPosition ==
    IF progress < Length THEN [states EXCEPT ![progress + 1] = "pending"]
    ELSE states
TakeBack ==
    IF progress > 0 THEN [states EXCEPT ![progress] = "pending"] ELSE states

Uncount_Total == total - 1
Uncount == total

HandleCorrection ==
    /\ channel # <<>> /\ Head(channel).type = "correction"
    /\ channel' = Tail(channel)
    /\ \/ /\ ~over /\ ~stamped
          /\ progress' = IF progress > 0 THEN progress - 1 ELSE 0
          /\ states' = TakeBack
          /\ total' = Uncount
          /\ recent' = TRUE
          /\ UNCHANGED <<errors, stamped>>
       \/ /\ over \/ stamped
          /\ UNCHANGED <<record, recent>>
    /\ UNCHANGED <<browser, settling, over, refused, reloaded>>

\* 20 ms pass without a frame, or as much as the grace still lasts.
Pause ==
    /\ recent' = FALSE
    /\ settling' \in {settling, FALSE}
    /\ UNCHANGED <<browser, channel, record, over, refused, reloaded>>

\* RaceController ends the race: see RaceRoom.
EndRace ==
    /\ ~over /\ over' = TRUE
    /\ UNCHANGED <<browser, channel, record, recent, settling, refused,
                   reloaded>>

Next ==
    \/ \E right \in BOOLEAN : TypeKey(right)
    \/ Backspace \/ Reload
    \/ HandleKeystroke \/ HandleCorrection
    \/ Pause \/ EndRace

Spec == Init /\ [][Next]_vars

-----------------------------------------------------------------------------
(* Properties.                                                             *)

\* As long as the engine has refused nothing and the page was not reloaded, a
\* channel that is empty leaves browser and engine in agreement on every
\* character, on the cursor and on the finish: TypingEngine and the engine's
\* handlers implement the same rules twice, by different means.
Mirrored ==
    ~refused /\ ~reloaded /\ ~over /\ channel = <<>> =>
        /\ states = shown
        /\ progress = index
        /\ stamped <=> finished

NothingAhead == \A i \in Position : i > progress => states[i] = "pending"

ScoredKeysWereTyped ==
    Count(states, "correct") + Count(states, "error") <= total

ErrorsNotUnderstated == Count(states, "error") <= errors

\* What the results are computed from was typed: whatever was refused, taken
\* back or typed again after a reload, the characters past the cursor are
\* pending and none of them counts; each one that counts stands for a keystroke
\* of its own, so accuracy = correctChars / totalKeystrokes never exceeds 1; and
\* uncorrectedErrors, which a correction does not recompute, never says less
\* than the characters do.
RecordSound == NothingAhead /\ ScoredKeysWereTyped /\ ErrorsNotUnderstated

\* During a race the engine never holds more than MaxErrors wrong characters
\* in a row, unless the page was reloaded: the browser counts them by another
\* rule, frames are refused, and validateKeystroke looks at one side only of
\* the character it writes. (After the race it accepts keystrokes and ignores
\* corrections, and the bound is lost.)
RunBounded ==
    ~reloaded /\ ~over => \A i \in Position :
        i + MaxErrors \in Position =>
            \E j \in i .. i + MaxErrors : states[j] # "error"

\* A finish is final: the frames still under way, a reload and the end of the
\* race change neither the characters nor the counts the results come from.
FinishFreezes == [][stamped => UNCHANGED record]_vars

(* What the repository says and the code does not do.                      *)

\* "Finish blocked. Backspace to fix errors first.": a typist at the end of
\* the passage who has not finished can press Backspace.
BlockedFinishIsFixable == index = Length /\ ~finished => Deletable(index)
=============================================================================
