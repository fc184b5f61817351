------------------------------ MODULE Solo_proofs ------------------------------
EXTENDS Solo, TLAPS

\* The phases, told by the start time: it is set by the first key.
StartedByKey ==
    /\ phase = "ready" => since = Never
    /\ phase = "running" => since # Never

\* An input event that is to come for a press already counted is marked.
CountedIsMarked == press /\ counts > 0 => handled

SoloInv == SoloTypeOK /\ StartedByKey /\ CountedIsMarked /\ SoloIsFair

\* What the test under way keeps, apart from keys and focus.
TestLabels ==
    /\ test \in Prefs /\ phase \in {"ready", "running", "done", "away"}
    /\ fading \in BOOLEAN

TestNumbers ==
    /\ length \in Nat /\ typed \in 0 .. length
    /\ since \in 0 .. test.time \cup {Never}
    /\ timer \in Durations \cup {Never} /\ result \in Nat \cup {Never}
    /\ lastKey \in Nat \cup {Never}

TestTyped == TestLabels /\ TestNumbers

KeysTyped ==
    /\ prefs \in Prefs /\ handled \in BOOLEAN /\ press \in BOOLEAN
    /\ where \in {"input", "nowhere", "control"} /\ counts \in Nat

LEMMA TypeParts == SoloTypeOK <=> TestLabels /\ TestNumbers /\ KeysTyped
BY DEF SoloTypeOK, TestLabels, TestNumbers, KeysTyped

TestInv == TestTyped /\ StartedByKey /\ TimeTestsEndByTheClock

LEMMA PrefsTyped ==
    \A p \in Prefs : p.time \in Durations /\ p.time \in Nat \ {0}
BY SoloAssumption DEF Prefs

LEMMA Initially == SoloInit => SoloInv
<1>. SUFFICES ASSUME SoloInit PROVE SoloInv
  OBVIOUS
<1>1. test.time \in Nat \ {0} /\ TextLength \in Nat
  BY PrefsTyped, SoloAssumption DEF SoloInit
<1>2. SoloTypeOK
  <2>1. TestLabels /\ KeysTyped
    BY DEF SoloInit, TestLabels, KeysTyped
  <2>2. TestNumbers
    BY <1>1 DEF SoloInit, TestNumbers
  <2>. QED BY <2>1, <2>2, TypeParts
<1>3. StartedByKey /\ CountedIsMarked /\ PressCountsOnce
  BY DEF SoloInit, StartedByKey, CountedIsMarked, PressCountsOnce
<1>4. TimeTestsEndByTheClock
  <2>1. timer = Never /\ phase = "ready"
    BY DEF SoloInit
  <2>2. lastKey = -1 /\ lastKey < test.time
    BY <1>1 DEF SoloInit, Never
  <2>. QED BY <2>1, <2>2 DEF TimeTestsEndByTheClock
<1>. QED BY <1>2, <1>3, <1>4 DEF SoloInv, SoloIsFair

LEMMA NewTestKeeps ==
    ASSUME NEW p \in Prefs, NewTest(p) PROVE TestInv'
<1>1. p.time \in Nat \ {0} /\ TextLength \in Nat
  BY PrefsTyped, SoloAssumption
<1>2. TestTyped'
  <2>1. TestLabels'
    BY DEF NewTest, TestLabels
  <2>2. TestNumbers'
    BY <1>1 DEF NewTest, TestNumbers
  <2>. QED BY <2>1, <2>2 DEF TestTyped
<1>3. StartedByKey'
  BY DEF NewTest, StartedByKey
<1>4. TimeTestsEndByTheClock'
  <2>1. timer' = Never /\ phase' = "ready"
    BY DEF NewTest
  <2>2. lastKey' < test'.time
    BY <1>1 DEF NewTest, Never
  <2>. QED BY <2>1, <2>2 DEF TimeTestsEndByTheClock
<1>. QED BY <1>2, <1>3, <1>4 DEF TestInv

\* A key is taken before the time is up, and never ends a time test: the text
\* has been moved on by then.
LEMMA CountKeyKeeps ==
    ASSUME TestInv, CountKey, phase \in {"ready", "running"},
           ~(phase = "running" /\ TimeIsUp)
    PROVE  TestInv'
<1>t. /\ test \in Prefs /\ length \in Nat /\ typed \in 0 .. length
      /\ since \in 0 .. test.time \cup {Never}
      /\ test.time \in Durations /\ test.time \in Nat \ {0}
  BY PrefsTyped DEF TestInv, TestTyped, TestLabels, TestNumbers
<1>c. Chunk \in Nat \ {0} /\ Lookahead \in Nat \ {0}
  BY SoloAssumption
<1>. DEFINE start == IF since = Never THEN 0 ELSE since
<1>1. /\ since' = start /\ lastKey' = start /\ test' = test
      /\ typed < length /\ typed' = typed + 1
  BY DEF CountKey
<1>2. start \in 0 .. test.time
  BY <1>t DEF Never
<1>3. test.mode = "time" => start < test.time
  <2>1. CASE phase = "ready"
    BY <1>t, <2>1 DEF TestInv, StartedByKey
  <2>2. CASE phase = "running"
    BY <1>t, <2>2 DEF TimeIsUp, Never
  <2>. QED BY <2>1, <2>2
<1>4. /\ length' \in Nat /\ typed' \in 0 .. length'
      /\ test.mode = "time" => typed' # length'
  <2>1. CASE ToppedUp(length - (typed + 1))
    <3>1. length' = length + Chunk
      BY <2>1 DEF CountKey
    <3>. QED BY <1>t, <1>c, <1>1, <3>1
  <2>2. CASE ~ToppedUp(length - (typed + 1))
    <3>1. length' = length
      BY <2>2 DEF CountKey
    <3>2. test.mode = "time" => length - (typed + 1) >= Lookahead
      BY <1>t, <1>c, <2>2 DEF ToppedUp
    <3>. QED BY <1>t, <1>c, <1>1, <3>1, <3>2
  <2>. QED BY <2>1, <2>2
<1>5. CASE /\ phase' = "running" /\ fading' = TRUE /\ UNCHANGED result
           /\ timer' = IF phase = "ready" THEN StartedTimer ELSE timer
  <2>1. timer' = IF test.mode = "time" THEN test.time ELSE Never
    <3>1. CASE phase = "ready"
      BY <1>5, <3>1 DEF StartedTimer
    <3>2. CASE phase = "running"
      <4>1. timer' = timer
        BY <1>5, <3>2
      <4>2. timer # Never <=> test.mode = "time"
        BY <3>2 DEF TestInv, TimeTestsEndByTheClock
      <4>3. timer # Never => timer = test.time
        BY DEF TestInv, TimeTestsEndByTheClock
      <4>. QED BY <4>1, <4>2, <4>3
    <3>. QED BY <3>1, <3>2
  <2>2. TestTyped'
    <3>1. TestLabels'
      BY <1>t, <1>1, <1>5 DEF TestLabels
    <3>2. timer' \in Durations \cup {Never} /\ result' \in Nat \cup {Never}
      BY <1>t, <1>5, <2>1 DEF TestInv, TestTyped, TestNumbers
    <3>3. TestNumbers'
      BY <1>1, <1>2, <1>4, <3>2 DEF TestNumbers
    <3>. QED BY <3>1, <3>3 DEF TestTyped
  <2>3. StartedByKey'
    BY <1>1, <1>2, <1>5 DEF StartedByKey, Never
  <2>4. TimeTestsEndByTheClock'
    BY <1>t, <1>1, <1>3, <1>5, <2>1 DEF TimeTestsEndByTheClock, Never
  <2>. QED BY <2>2, <2>3, <2>4 DEF TestInv
<1>6. CASE typed' = length' /\ Finish(start)
  <2>1. test.mode # "time"
    BY <1>4, <1>6
  <2>2. /\ phase' = "done" /\ timer' = Never /\ fading' = FALSE
        /\ result' = start
    BY <1>6 DEF Finish
  <2>3. TestTyped'
    <3>1. TestLabels'
      BY <1>t, <1>1, <2>2 DEF TestLabels
    <3>2. TestNumbers'
      BY <1>1, <1>2, <1>4, <2>2 DEF TestNumbers
    <3>. QED BY <3>1, <3>2 DEF TestTyped
  <2>4. StartedByKey' /\ TimeTestsEndByTheClock'
    BY <1>1, <2>1, <2>2 DEF StartedByKey, TimeTestsEndByTheClock
  <2>. QED BY <2>3, <2>4 DEF TestInv
<1>. QED BY <1>5, <1>6 DEF CountKey

LEMMA TakeBackKeeps == TestInv /\ TakeBack => TestInv'
<1>. SUFFICES ASSUME TestInv, TakeBack PROVE TestInv'
  OBVIOUS
<1>1. /\ typed' \in 0 .. length
      /\ UNCHANGED
           <<test, phase, length, since, timer, result, fading, lastKey>>
  BY DEF TestInv, TestTyped, TestNumbers, TakeBack
<1>2. TestTyped'
  BY <1>1 DEF TestInv, TestTyped, TestLabels, TestNumbers
<1>3. StartedByKey' /\ TimeTestsEndByTheClock'
  BY <1>1 DEF TestInv, StartedByKey, TimeTestsEndByTheClock
<1>. QED BY <1>2, <1>3 DEF TestInv

LEMMA FinishKeeps ==
    ASSUME TestInv, Finish(test.time),
           UNCHANGED <<test, length, typed, since, lastKey>>
    PROVE  TestInv'
<1>1. test.time \in Nat \ {0}
  BY PrefsTyped DEF TestInv, TestTyped, TestLabels
<1>2. TestTyped'
  <2>1. TestLabels'
    BY DEF TestInv, TestTyped, TestLabels, Finish
  <2>2. TestNumbers'
    BY <1>1 DEF TestInv, TestTyped, TestNumbers, Finish
  <2>. QED BY <2>1, <2>2 DEF TestTyped
<1>3. StartedByKey' /\ TimeTestsEndByTheClock'
  BY DEF TestInv, StartedByKey, TimeTestsEndByTheClock, Finish
<1>. QED BY <1>2, <1>3 DEF TestInv

LEMMA UnchangedKeeps == TestInv /\ UNCHANGED testVars => TestInv'
BY DEF TestInv, TestTyped, TestLabels, TestNumbers, StartedByKey,
       TimeTestsEndByTheClock, testVars

LEMMA Kept == SoloInv /\ [SoloNext]_soloVars => SoloInv'
<1>. SUFFICES ASSUME SoloInv, [SoloNext]_soloVars PROVE SoloInv'
  OBVIOUS
<1>a. TestInv /\ KeysTyped /\ CountedIsMarked /\ PressCountsOnce
  BY TypeParts DEF SoloInv, SoloIsFair, TestInv, TestTyped
<1>b. SUFFICES /\ TestInv' /\ KeysTyped'
               /\ CountedIsMarked' /\ PressCountsOnce'
  BY DEF SoloInv, SoloIsFair, TestInv, TestTyped, SoloTypeOK, TestLabels,
         TestNumbers, KeysTyped
<1>k. /\ prefs \in Prefs /\ handled \in BOOLEAN /\ press \in BOOLEAN
      /\ where \in {"input", "nowhere", "control"}
      /\ counts \in {0, 1} /\ (press /\ counts > 0 => handled)
  BY <1>a DEF KeysTyped, CountedIsMarked, PressCountsOnce
<1>c. ASSUME /\ prefs' \in Prefs /\ handled' \in BOOLEAN /\ press' \in BOOLEAN
             /\ where' \in {"input", "nowhere", "control"},
             counts' \in {0, 1},
             counts' = 0 \/ press' = FALSE \/ handled'
      PROVE  KeysTyped' /\ CountedIsMarked' /\ PressCountsOnce'
  <2>1. counts' \in Nat /\ counts' <= 1 /\ (counts' = 0 => ~(counts' > 0))
    BY <1>c
  <2>2. KeysTyped' /\ PressCountsOnce'
    BY <1>c, <2>1 DEF KeysTyped, PressCountsOnce
  <2>3. CountedIsMarked'
    BY <1>c, <2>1, Zenon DEF CountedIsMarked
  <2>. QED BY <2>2, <2>3
<1>1. CASE Keydown
  <2>1. PICK key \in {"char", "space", "edit", "other"} :
          /\ phase # "away" /\ counts = 0 /\ ~press
          /\ handled' = (where = "input" /\ phase # "done" /\ key # "other")
          /\ \/ (where = "control" \/ phase = "done") /\ Refuse
             \/ /\ where # "control" /\ phase = "running" /\ TimeIsUp
                /\ FinishByClock
             \/ /\ where # "control" /\ phase # "done"
                /\ ~(phase = "running" /\ TimeIsUp)
                /\ \/ key \in {"char", "space"} /\ CountKey
                   \/ key = "edit" /\ TakeBack
                   \/ Refuse
          /\ press' \in
               {FALSE, where = "input" /\ key # "space" /\ phase' # "done"}
          /\ UNCHANGED <<prefs, where>>
    BY <1>1 DEF Keydown
  <2>t. /\ prefs' \in Prefs /\ handled' \in BOOLEAN /\ press' \in BOOLEAN
        /\ where' \in {"input", "nowhere", "control"}
    BY <1>k, <2>1
  <2>2. CASE Refuse
    <3>1. TestInv'
      BY <1>a, <2>2, UnchangedKeeps DEF Refuse
    <3>2. counts' = 0
      BY <2>1, <2>2 DEF Refuse
    <3>. QED BY <1>c, <2>t, <3>1, <3>2
  <2>3. CASE FinishByClock
    <3>1. TestInv'
      BY <1>a, <2>3, FinishKeeps DEF FinishByClock
    <3>2. counts' = 0
      BY <2>1, <2>3 DEF FinishByClock
    <3>. QED BY <1>c, <2>t, <3>1, <3>2
  <2>4. CASE /\ where # "control" /\ phase # "done"
             /\ ~(phase = "running" /\ TimeIsUp)
             /\ key \in {"char", "space"} /\ CountKey
    <3>1. phase \in {"ready", "running"}
      BY <1>a, <2>1, <2>4 DEF TestInv, TestTyped, TestLabels
    <3>2. TestInv'
      BY <1>a, <2>4, <3>1, CountKeyKeeps
    <3>3. counts' = 1
      BY <2>1, <2>4 DEF CountKey
    <3>4. press' = FALSE \/ handled'
      BY <2>1, <2>4
    <3>. QED BY <1>c, <2>t, <3>2, <3>3, <3>4
  <2>5. CASE where # "control" /\ phase # "done" /\ key = "edit" /\ TakeBack
    <3>1. TestInv'
      BY <1>a, <2>5, TakeBackKeeps
    <3>2. counts' = 1
      BY <2>1, <2>5 DEF TakeBack
    <3>3. press' = FALSE \/ handled'
      BY <2>1, <2>5
    <3>. QED BY <1>c, <2>t, <3>1, <3>2, <3>3
  <2>. QED BY <2>1, <2>2, <2>3, <2>4, <2>5
<1>2. CASE InputEvent
  <2>1. phase \in {"ready", "running"} /\ press' = FALSE
    BY <1>2 DEF InputEvent
  <2>t. /\ prefs' \in Prefs /\ handled' \in BOOLEAN /\ press' \in BOOLEAN
        /\ where' \in {"input", "nowhere", "control"}
    BY <1>2, <1>k DEF InputEvent
  <2>2. CASE Refuse
    <3>1. TestInv'
      BY <1>a, <2>2, UnchangedKeeps DEF Refuse
    <3>2. counts' \in {0, 1}
      BY <1>k, <2>2 DEF Refuse
    <3>. QED BY <1>c, <2>1, <2>t, <3>1, <3>2
  <2>3. CASE FinishByClock
    <3>1. TestInv'
      BY <1>a, <2>3, FinishKeeps DEF FinishByClock
    <3>2. counts' \in {0, 1}
      BY <1>k, <2>3 DEF FinishByClock
    <3>. QED BY <1>c, <2>1, <2>t, <3>1, <3>2
  <2>n. ~Skips => counts = 0
    <3>1. press \/ counts = 0
      BY <1>2 DEF InputEvent
    <3>2. counts = 0 \/ counts > 0
      BY <1>k
    <3>. QED BY <1>k, <3>1, <3>2, Zenon DEF Skips
  <2>4. CASE ~Skips /\ ~(phase = "running" /\ TimeIsUp) /\ CountKey
    <3>1. TestInv'
      BY <1>a, <2>1, <2>4, CountKeyKeeps
    <3>2. counts' = 1
      BY <2>4, <2>n DEF CountKey
    <3>. QED BY <1>c, <2>1, <2>t, <3>1, <3>2
  <2>5. CASE ~Skips /\ TakeBack
    <3>1. TestInv'
      BY <1>a, <2>5, TakeBackKeeps
    <3>2. counts' = 1
      BY <2>5, <2>n DEF TakeBack
    <3>. QED BY <1>c, <2>1, <2>t, <3>1, <3>2
  <2>. QED BY <1>2, <2>2, <2>3, <2>4, <2>5 DEF InputEvent
<1>3. CASE Released
  <2>1. TestInv'
    BY <1>a, <1>3, UnchangedKeeps DEF Released
  <2>. QED BY <1>c, <1>k, <1>3, <2>1 DEF Released
<1>u. ASSUME UNCHANGED <<prefs, handled, press, counts>>,
             where' \in {"input", "nowhere", "control"}
      PROVE  KeysTyped' /\ CountedIsMarked' /\ PressCountsOnce'
  BY <1>u, <1>a DEF KeysTyped, CountedIsMarked, PressCountsOnce
<1>4. CASE SoloTick
  <2>1. timer = test.time
    BY <1>a, <1>4 DEF SoloTick, TestInv, TimeTestsEndByTheClock
  <2>2. TestInv'
    BY <1>a, <1>4, <2>1, FinishKeeps DEF SoloTick
  <2>. QED BY <1>k, <1>u, <1>4, <2>2 DEF SoloTick, keyVars
<1>5. CASE SoloTimePasses
  <2>1. since \in 0 .. test.time
    BY <1>a, <1>5
       DEF SoloTimePasses, TestInv, TestTyped, TestNumbers, StartedByKey
  <2>2. since' \in 0 .. test.time /\ test.time \in Nat
    BY <1>a, <1>5, <2>1, PrefsTyped
       DEF SoloTimePasses, TestInv, TestTyped, TestLabels
  <2>3. TestNumbers' /\ TestLabels'
    BY <1>a, <1>5, <2>2
       DEF SoloTimePasses, TestInv, TestTyped, TestNumbers, TestLabels
  <2>4. StartedByKey'
    BY <1>5, <2>2 DEF SoloTimePasses, StartedByKey, Never
  <2>5. TimeTestsEndByTheClock'
    BY <1>a, <1>5 DEF SoloTimePasses, TestInv, TimeTestsEndByTheClock
  <2>. QED
    BY <1>k, <1>u, <1>5, <2>3, <2>4, <2>5
       DEF SoloTimePasses, TestInv, TestTyped, keyVars
<1>6. CASE RestartTest
  <2>1. TestInv'
    BY <1>6, NewTestKeeps DEF RestartTest
  <2>. QED BY <1>c, <1>k, <1>6, <2>1 DEF RestartTest
<1>7. CASE LeaveSolo
  <2>1. TestLabels' /\ TestNumbers'
    BY <1>a, <1>7 DEF LeaveSolo, TestInv, TestTyped, TestLabels, TestNumbers
  <2>2. StartedByKey' /\ TimeTestsEndByTheClock'
    BY <1>a, <1>7
       DEF LeaveSolo, TestInv, StartedByKey, TimeTestsEndByTheClock
  <2>. QED
    BY <1>k, <1>u, <1>7, <2>1, <2>2 DEF LeaveSolo, TestInv, TestTyped, keyVars
<1>8. CASE EnterSolo
  <2>1. TestInv'
    BY <1>k, <1>8, NewTestKeeps DEF EnterSolo
  <2>. QED BY <1>c, <1>k, <1>8, <2>1 DEF EnterSolo
<1>9. CASE FocusMoves
  <2>1. TestInv'
    BY <1>a, <1>9, UnchangedKeeps DEF FocusMoves
  <2>. QED BY <1>u, <1>9, <2>1 DEF FocusMoves
<1>10. CASE PointerMoves
  <2>1. TestInv'
    BY <1>a, <1>10
       DEF PointerMoves, TestInv, TestTyped, TestLabels, TestNumbers,
           StartedByKey, TimeTestsEndByTheClock
  <2>. QED BY <1>k, <1>u, <1>10, <2>1 DEF PointerMoves, keyVars
<1>11. CASE UNCHANGED soloVars
  <2>1. TestInv'
    BY <1>a, <1>11, UnchangedKeeps DEF soloVars
  <2>. QED BY <1>k, <1>u, <1>11, <2>1 DEF soloVars, keyVars
<1>. QED
  BY <1>1, <1>2, <1>3, <1>4, <1>5, <1>6, <1>7, <1>8, <1>9, <1>10, <1>11
     DEF SoloNext

\* For all durations, texts and look-aheads: a time test is ended by its own
\* clock and by nothing else, counts no key after it, and counts a press once
\* (SoloView.tsx).
THEOREM SoloSafe == SoloSpec => []SoloIsFair
<1>1. SoloInv => SoloIsFair
  BY DEF SoloInv
<1>. QED BY Initially, Kept, <1>1, PTL DEF SoloSpec
=============================================================================
