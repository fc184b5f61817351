--------------------------------- MODULE Solo ---------------------------------
(***************************************************************************)
(* The solo typing test: a text typed to its end, or against a clock, with  *)
(* keys that arrive as keydown events, as changes of a hidden input, or as  *)
(* both. Whether a key is right, and whether a text that is typed to its    *)
(* end may finish, is TypingSession's matter and free here.                 *)
(***************************************************************************)
EXTENDS Integers

CONSTANTS
    Durations,  \* TIME_OPTIONS, in units of time
    TextLength, \* the characters of a new text
    Chunk,      \* the characters of a top-up, the space before it included
    Lookahead,  \* TIME_LOOKAHEAD_CHARS
    MaxLength   \* bound: no key that makes the text longer is typed

Never == -1

ASSUME SoloAssumption ==
    /\ Durations \subseteq Nat \ {0}
    /\ TextLength \in Nat \ {0} /\ Chunk \in Nat \ {0}
    /\ Lookahead \in Nat \ {0} /\ MaxLength \in Nat

\* Modes "words" and "passage" differ in the text only: both are "text".
Prefs == [mode : {"time", "text"}, time : Durations]

VARIABLES
    prefs,   \* useSoloStore
    test,    \* testPrefsRef: the prefs the test under way began with
    phase,   \* phaseRef; "away" while another view is shown
    length,  \* passageText.length
    typed,   \* ownIndex
    since,   \* time since startTimeMs, up to the chosen duration; Never if null
    timer,   \* the durationMs of the interval of intervalRef, Never without one
    result,  \* result.elapsedMs, Never for null
    fading,  \* the page has FOCUS_MODE_ATTR
    where,   \* activeElement: the typing input, none, or a control
    handled, \* handledByKeydownRef
    press,   \* an input event of the last keydown is still to come
    counts,  \* history: how often the last press reached the engine
    lastKey  \* history: when the last key of the test was counted

testVars ==
    <<test, phase, length, typed, since, timer, result, fading, lastKey>>
keyVars == <<where, handled, press, counts>>
soloVars == <<prefs, testVars, keyVars>>

SoloTypeOK ==
    /\ prefs \in Prefs /\ test \in Prefs
    /\ phase \in {"ready", "running", "done", "away"}
    /\ length \in Nat /\ typed \in 0 .. length
    /\ since \in 0 .. test.time \cup {Never}
    /\ timer \in Durations \cup {Never} /\ result \in Nat \cup {Never}
    /\ fading \in BOOLEAN /\ handled \in BOOLEAN /\ press \in BOOLEAN
    /\ where \in {"input", "nowhere", "control"}
    /\ counts \in Nat /\ lastKey \in Nat \cup {Never}

\* engine.init and the refs of a new test.
NewTest(p) ==
    /\ test' = p /\ phase' = "ready"
    /\ length' = TextLength /\ typed' = 0 /\ since' = Never
    /\ timer' = Never /\ result' = Never /\ fading' = FALSE
    /\ lastKey' = Never

SoloInit ==
    /\ prefs \in Prefs /\ test = prefs /\ phase = "ready"
    /\ length = TextLength /\ typed = 0 /\ since = Never
    /\ timer = Never /\ result = Never /\ fading = FALSE /\ lastKey = Never
    /\ where = "nowhere" /\ handled = FALSE /\ press = FALSE /\ counts = 0

\* finish: once, by the clock or by the text.
Finish(elapsed) ==
    /\ phase' = "done" /\ timer' = Never /\ fading' = FALSE
    /\ result' = elapsed

TimeIsUp_Late == test.mode = "time" /\ since # Never /\ since > test.time
TimeIsUp == test.mode = "time" /\ since # Never /\ since >= test.time

\* startTimer.
StartedTimer == IF test.mode = "time" THEN test.time ELSE Never

\* The keystroke listener moves the end of a time test on before the engine
\* looks for it.
ToppedUp(left) == test.mode = "time" /\ left < Lookahead

\* TypingEngine.handleKeyDown of a character that it takes.
CountKey ==
    LET now == IF since = Never THEN 0 ELSE since
        longer == IF ToppedUp(length - (typed + 1)) THEN length + Chunk
                  ELSE length
    IN  /\ typed < length /\ longer <= MaxLength
        /\ typed' = typed + 1 /\ length' = longer
        /\ since' = now /\ lastKey' = now
        /\ \/ /\ phase' = "running" /\ fading' = TRUE /\ UNCHANGED result
              /\ timer' = IF phase = "ready" THEN StartedTimer ELSE timer
           \/ typed' = length' /\ Finish(now)
        /\ counts' = counts + 1
        /\ UNCHANGED test

\* ... and of a Backspace that it takes.
TakeBack ==
    /\ typed > 0 /\ typed' = typed - 1 /\ counts' = counts + 1
    /\ UNCHANGED <<test, phase, length, since, timer, result, fading, lastKey>>

Refuse == UNCHANGED <<testVars, counts>>

FinishByClock ==
    /\ Finish(test.time)
    /\ UNCHANGED <<test, length, typed, since, lastKey, counts>>

\* A keydown is the beginning of a press: nothing is counted for it before.
\* Those of a phone's keyboard name no key ("other"). The input event follows
\* where a field has the focus and nothing prevented it, but need not.
Keydown ==
    \E key \in {"char", "space", "edit", "other"} :
        /\ phase # "away" /\ counts = 0 /\ ~press
        /\ handled' = (where = "input" /\ phase # "done" /\ key # "other")
        /\ \/ (where = "control" \/ phase = "done") /\ Refuse
           \/ /\ where # "control" /\ phase = "running" /\ TimeIsUp
              /\ FinishByClock
           \/ /\ where # "control" /\ phase # "done"
              /\ ~(phase = "running" /\ TimeIsUp)
              /\ \/ key \in {"char", "space"} /\ CountKey
                 \/ key = "edit" /\ TakeBack
                 \/ Refuse
        /\ press' \in
             {FALSE, where = "input" /\ key # "space" /\ phase' # "done"}
        /\ UNCHANGED <<prefs, where>>

\* handleMobileInput, for the press under way or for a change without a key.
Skips == handled

InputEvent ==
    /\ phase \in {"ready", "running"} /\ where = "input"
    /\ press \/ counts = 0
    /\ \/ Skips /\ handled' = FALSE /\ Refuse
       \/ /\ ~Skips /\ phase = "running" /\ TimeIsUp
          /\ FinishByClock /\ UNCHANGED handled
       \/ /\ ~Skips /\ ~(phase = "running" /\ TimeIsUp)
          /\ CountKey \/ TakeBack \/ Refuse
          /\ UNCHANGED handled
    /\ press' = FALSE
    /\ UNCHANGED <<prefs, where>>

\* The press is over: the next event belongs to another.
Released ==
    /\ counts > 0 \/ press
    /\ counts' = 0 /\ press' = FALSE
    /\ UNCHANGED <<prefs, testVars, where, handled>>

\* The interval of startTimer.
SoloTick ==
    /\ timer # Never /\ since # Never /\ since >= timer
    /\ Finish(timer)
    /\ UNCHANGED <<prefs, test, length, typed, since, lastKey, keyVars>>

SoloTimePasses ==
    /\ phase = "running" /\ since < test.time /\ since' = since + 1
    /\ UNCHANGED <<prefs, test, phase, length, typed, timer, result, fading,
                   lastKey, keyVars>>

\* restart, by its button, by Next test or by a choice in the mode bar.
RestartTest ==
    /\ phase # "away" /\ ~press
    /\ prefs' \in Prefs /\ NewTest(prefs')
    /\ where' \in {"input", "nowhere", "control"}
    /\ UNCHANGED <<handled, press, counts>>

\* Another view, and back.
LeaveSolo ==
    /\ phase # "away" /\ phase' = "away" /\ timer' = Never /\ fading' = FALSE
    /\ UNCHANGED <<prefs, test, length, typed, since, result, lastKey, keyVars>>

EnterSolo ==
    /\ phase = "away" /\ NewTest(prefs)
    /\ where' = "nowhere" /\ handled' = FALSE /\ press' = FALSE /\ counts' = 0
    /\ UNCHANGED prefs

FocusMoves ==
    /\ phase # "away" /\ where' \in {"input", "nowhere", "control"}
    /\ where' = "input" => phase # "done"
    /\ UNCHANGED <<prefs, testVars, handled, press, counts>>

\* The pointer moves: the chrome comes back.
PointerMoves ==
    /\ fading /\ fading' = FALSE
    /\ UNCHANGED <<prefs, test, phase, length, typed, since, timer, result,
                   lastKey, keyVars>>

SoloNext ==
    \/ Keydown \/ InputEvent \/ Released \/ SoloTick \/ SoloTimePasses
    \/ RestartTest \/ LeaveSolo \/ EnterSolo \/ FocusMoves \/ PointerMoves

SoloSpec == SoloInit /\ [][SoloNext]_soloVars

-----------------------------------------------------------------------------
\* The clock that runs is the clock of the test under way, through restarts with
\* another duration and back and forth between the views; a time test that is
\* done was ended by it, not by the end of the text or an older interval; and no
\* key of it was counted after the time, whichever of tick, keydown and input
\* event came first.
TimeTestsEndByTheClock ==
    /\ timer # Never <=> phase = "running" /\ test.mode = "time"
    /\ timer # Never => timer = test.time
    /\ test.mode = "time" =>
         /\ lastKey < test.time
         /\ phase = "done" => result = test.time

\* A press that arrives as keydown and as change of the input counts once.
PressCountsOnce == counts <= 1

\* A timed test is over by its own clock, with no key taken after its time, and no
\* key press of it counts twice. What the result then says of the keys, its speed
\* and its accuracy, is not modelled.
SoloIsFair == TimeTestsEndByTheClock /\ PressCountsOnce
=============================================================================
