------------------------- MODULE TypingSession_proofs -------------------------
(***************************************************************************)
(* Proofs about TypingSession, for every passage and every limit: what the  *)
(* engine holds of a player is well-formed, counts nothing that was not     *)
(* typed and is frozen by the finish.                                       *)
(***************************************************************************)
EXTENDS TypingSession, FiniteSetTheorems, TLAPS

CharStates == [Position -> CharState]

LEMMA BlankType == Blank \in CharStates
  BY DEF Blank, CharStates, CharState

\* The handlers of the engine keep the record well-typed.
LEMMA HandlersType ==
    ASSUME TypeOK, HandleKeystroke \/ HandleCorrection
    PROVE  TypeOK'
<1> USE PassageAssumption DEF TypeOK
<1>1. channel' \in Seq(Frame)
  BY DEF HandleKeystroke, HandleCorrection
<1>2. CASE HandleKeystroke
  <2> DEFINE m == Head(channel)
  <2>1. m \in KeyFrame
    BY <1>2 DEF HandleKeystroke, Frame, KeyFrame, CorrectionFrame
  <2>2. m.at \in Position /\ m.right \in BOOLEAN
    BY <2>1 DEF KeyFrame
  <2>3. CASE AcceptKey(m)
    <3> HIDE DEF m
    <3>1. states' \in CharStates /\ progress' \in 0 .. Length
      BY <2>2, <2>3 DEF AcceptKey, Mark, CharState, CharStates, Position
    <3>2. total' \in Nat /\ stamped' \in BOOLEAN /\ recent' \in BOOLEAN
      BY <2>3 DEF AcceptKey
    <3>3. errors' \in Nat
      <4>1. IsFiniteSet(Position)
        BY FS_Interval DEF Position
      <4>2. In(states', "error") \subseteq Position
        BY DEF In
      <4>3. QED
        BY <2>3, <4>1, <4>2, FS_Subset, FS_CardinalityType
           DEF AcceptKey, Recount, Count
    <3>4. QED
      BY <1>1, <1>2, <2>3, <3>1, <3>2, <3>3
         DEF HandleKeystroke, AcceptKey, browser, CharStates
  <2>4. CASE RefuseKey(m)
    BY <1>1, <1>2, <2>4 DEF HandleKeystroke, RefuseKey, browser, record
  <2>5. QED BY <1>2, <2>3, <2>4 DEF HandleKeystroke
<1>3. CASE HandleCorrection
  <2>1. states' \in CharStates
    BY <1>3 DEF HandleCorrection, TakeBack, CharStates, CharState, record
  <2>2. progress' \in 0 .. Length /\ total' \in Nat /\ errors' \in Nat
    BY <1>3 DEF HandleCorrection, Uncount, record
  <2>3. stamped' \in BOOLEAN /\ recent' \in BOOLEAN
    BY <1>3 DEF HandleCorrection, record
  <2>4. QED
    BY <1>1, <1>3, <2>1, <2>2, <2>3 DEF HandleCorrection, browser, CharStates
<1>4. QED BY <1>2, <1>3

LEMMA TypeStep == TypeOK /\ [Next]_vars => TypeOK'
<1> USE PassageAssumption DEF TypeOK
<1> SUFFICES ASSUME TypeOK, [Next]_vars PROVE TypeOK'
  OBVIOUS
<1>1. ASSUME NEW right \in BOOLEAN, TypeKey(right) PROVE TypeOK'
  <2>1. index + 1 \in Position /\ index' = index + 1
    BY <1>1 DEF TypeKey, Sends, Position
  <2>2. [type |-> "keystroke", at |-> index + 1, right |-> right] \in Frame
    BY <2>1 DEF Frame, KeyFrame
  <2>3. channel' \in Seq(Frame)
    BY <1>1, <2>2 DEF TypeKey, Sends
  <2>4. shown' \in CharStates
    BY <1>1 DEF TypeKey, Sends, Mark, CharState, CharStates
  <2>5. run' \in 0 .. MaxErrors
    BY <1>1 DEF TypeKey, Sends
  <2>6. finished' \in BOOLEAN
    BY <1>1 DEF TypeKey, Sends
  <2>7. index' \in 0 .. Length
    BY <2>1 DEF Position
  <2>8. QED
    BY <1>1, <2>3, <2>4, <2>5, <2>6, <2>7 DEF TypeKey, Sends, record, CharStates
<1>2. CASE Backspace
  <2>1. [type |-> "correction"] \in Frame
    BY DEF Frame, CorrectionFrame
  <2>2. channel' \in Seq(Frame)
    BY <1>2, <2>1 DEF Backspace, Sends
  <2>3. shown' \in CharStates
    BY <1>2 DEF Backspace, Sends, CharState, CharStates
  <2>4. run' \in 0 .. MaxErrors /\ index' \in 0 .. Length
    BY <1>2 DEF Backspace, Sends
  <2>5. QED
    BY <1>2, <2>2, <2>3, <2>4 DEF Backspace, Sends, record, CharStates
<1>3. CASE Reload
  <2>1. /\ index' \in 0 .. Length /\ run' \in 0 .. MaxErrors
        /\ shown' \in CharStates /\ channel' \in Seq(Frame)
    BY <1>3, BlankType DEF Reload
  <2>2. finished' \in BOOLEAN /\ settling' \in BOOLEAN /\ reloaded' \in BOOLEAN
    BY <1>3 DEF Reload
  <2>3. QED
    BY <1>3, <2>1, <2>2 DEF Reload, record, CharStates
<1>4. CASE HandleKeystroke \/ HandleCorrection
  BY <1>4, HandlersType
<1>5. CASE Pause
  BY <1>5 DEF Pause, record, browser
<1>6. CASE EndRace
  BY <1>6 DEF EndRace, record, browser
<1>7. CASE UNCHANGED vars
  BY <1>7 DEF vars, record, browser
<1>8. QED
  BY <1>1, <1>2, <1>3, <1>4, <1>5, <1>6, <1>7 DEF Next

LEMMA InitType == Init => TypeOK
<1> SUFFICES ASSUME Init PROVE TypeOK
  OBVIOUS
<1>1. /\ index \in 0 .. Length /\ run \in 0 .. MaxErrors
      /\ progress \in 0 .. Length /\ total \in Nat /\ errors \in Nat
      /\ shown \in CharStates /\ states \in CharStates
      /\ channel \in Seq(Frame)
  BY PassageAssumption, BlankType DEF Init
<1>2. /\ finished \in BOOLEAN /\ stamped \in BOOLEAN
      /\ recent \in BOOLEAN /\ settling \in BOOLEAN
      /\ over \in BOOLEAN /\ refused \in BOOLEAN /\ reloaded \in BOOLEAN
  BY DEF Init
<1>3. QED
  BY <1>1, <1>2 DEF TypeOK, CharStates

\* Every index stays in the passage and every frame is one the engine knows.
THEOREM TypeCorrect == Spec => []TypeOK
  BY InitType, TypeStep, PTL DEF Spec

-----------------------------------------------------------------------------
(* What the engine has counted.                                            *)

Typed(st) == In(st, "correct") \cup In(st, "error")

\* Changing one character adds at most that one to the typed ones.
LEMMA OneMoreTyped ==
    ASSUME NEW st \in CharStates, NEW i \in Position, NEW s \in CharState
    PROVE  LET new == [st EXCEPT ![i] = s] IN
           /\ Typed(new) \subseteq Typed(st) \cup {i}
           /\ s = "pending" => Typed(new) \subseteq Typed(st)
BY DEF Typed, In, CharStates, CharState

\* The two counts of the score are the number of typed characters.
LEMMA CountTyped ==
    ASSUME NEW st
    PROVE  /\ IsFiniteSet(Typed(st))
           /\ Cardinality(Typed(st)) \in Nat
           /\ Count(st, "error") \in Nat
           /\ Count(st, "correct") + Count(st, "error") = Cardinality(Typed(st))
<1>1. IsFiniteSet(Position)
  BY PassageAssumption, FS_Interval DEF Position
<1>2. IsFiniteSet(In(st, "correct")) /\ IsFiniteSet(In(st, "error"))
  BY <1>1, FS_Subset DEF In
<1>3. In(st, "correct") \cap In(st, "error") = {}
  BY DEF In
<1>4. /\ Cardinality(In(st, "correct")) \in Nat
      /\ Cardinality(In(st, "error")) \in Nat
  BY <1>2, FS_CardinalityType
<1>5. QED
  <2>1. /\ IsFiniteSet(Typed(st))
        /\ Cardinality(Typed(st)) =
             Cardinality(In(st, "correct")) + Cardinality(In(st, "error"))
               - Cardinality(In(st, "correct") \cap In(st, "error"))
    BY <1>2, FS_Union DEF Typed
  <2>2. Cardinality(In(st, "correct") \cap In(st, "error")) = 0
    BY <1>3, FS_EmptySet
  <2>3. QED
    BY <1>4, <2>1, <2>2 DEF Count

IInv ==
    /\ TypeOK
    /\ NothingAhead
    /\ ScoredKeysWereTyped
    /\ ErrorsNotUnderstated

\* An accepted keystroke keeps the counts in line.
LEMMA AcceptKeyInv ==
    ASSUME IInv, NEW m, m.at \in Position, m.right \in BOOLEAN, AcceptKey(m)
    PROVE  NothingAhead' /\ ScoredKeysWereTyped' /\ ErrorsNotUnderstated'
<1> USE DEF IInv
<1>1. /\ states \in CharStates /\ total \in Nat /\ progress \in 0 .. Length
      /\ Mark(m.right) \in CharState
      /\ states' = [states EXCEPT ![m.at] = Mark(m.right)]
      /\ progress' = IF m.at > progress THEN m.at ELSE progress
      /\ total' = total + 1
      /\ errors' = Count(states', "error")
  BY DEF TypeOK, AcceptKey, Recount, Mark, CharState, CharStates
<1>2. NothingAhead'
  BY <1>1 DEF NothingAhead, Position, CharStates
<1>3. Typed(states') \subseteq Typed(states) \cup {m.at}
  BY <1>1, OneMoreTyped
<1>4. Cardinality(Typed(states')) <= Cardinality(Typed(states)) + 1
  <2>1. /\ IsFiniteSet(Typed(states) \cup {m.at})
        /\ Cardinality(Typed(states) \cup {m.at})
             <= Cardinality(Typed(states)) + 1
    <3>1. /\ IsFiniteSet(Typed(states)) /\ Cardinality(Typed(states)) \in Nat
      BY CountTyped
    <3>2. /\ IsFiniteSet(Typed(states) \cup {m.at})
          /\ \/ Cardinality(Typed(states) \cup {m.at})
                  = Cardinality(Typed(states))
             \/ Cardinality(Typed(states) \cup {m.at})
                  = Cardinality(Typed(states)) + 1
      BY <3>1, FS_AddElement
    <3>3. QED BY <3>1, <3>2
  <2>2. Cardinality(Typed(states')) <= Cardinality(Typed(states) \cup {m.at})
    BY <1>3, <2>1, FS_Subset
  <2>3. QED
    BY <2>1, <2>2, CountTyped, FS_CardinalityType
<1>5. ScoredKeysWereTyped'
  BY <1>1, <1>4, CountTyped DEF ScoredKeysWereTyped
<1>6. ErrorsNotUnderstated'
  BY <1>1, CountTyped DEF ErrorsNotUnderstated
<1>7. QED BY <1>2, <1>5, <1>6

\* So does a correction: it only takes characters back.
LEMMA CorrectionInv ==
    ASSUME IInv, HandleCorrection
    PROVE  NothingAhead' /\ ScoredKeysWereTyped' /\ ErrorsNotUnderstated'
<1> USE DEF IInv
<1>1. CASE UNCHANGED record
  BY <1>1 DEF record, NothingAhead, ScoredKeysWereTyped, ErrorsNotUnderstated
<1>2. CASE progress = 0 /\ UNCHANGED <<progress, states, total, errors>>
  BY <1>2 DEF NothingAhead, ScoredKeysWereTyped, ErrorsNotUnderstated
<1>3. CASE /\ progress > 0 /\ progress' = progress - 1
           /\ states' = [states EXCEPT ![progress] = "pending"]
           /\ UNCHANGED <<total, errors>>
  <2>1. states \in CharStates /\ progress \in Position /\ errors \in Nat
        /\ total \in Nat /\ "pending" \in CharState
    BY <1>3, PassageAssumption DEF TypeOK, CharStates, Position, CharState
  <2>2. NothingAhead'
    BY <1>3, <2>1 DEF NothingAhead, Position, CharStates
  <2>3. Typed(states') \subseteq Typed(states)
    BY <1>3, <2>1, OneMoreTyped
  <2>4. Cardinality(Typed(states')) <= Cardinality(Typed(states))
    BY <2>3, CountTyped, FS_Subset
  <2>5. ScoredKeysWereTyped'
    BY <1>3, <2>1, <2>4, CountTyped DEF ScoredKeysWereTyped
  <2>6. In(states', "error") \subseteq In(states, "error")
    BY <1>3, <2>1 DEF In, CharStates
  <2>7. Count(states', "error") <= Count(states, "error")
    <3>1. IsFiniteSet(In(states, "error"))
      <4>1. IsFiniteSet(Position)
        BY PassageAssumption, FS_Interval DEF Position
      <4>2. QED BY <4>1, FS_Subset DEF In
    <3>2. QED BY <2>6, <3>1, FS_Subset DEF Count
  <2>8. ErrorsNotUnderstated'
    BY <1>3, <2>1, <2>7, CountTyped DEF ErrorsNotUnderstated
  <2>9. QED BY <2>2, <2>5, <2>8
<1>4. QED
  BY <1>1, <1>2, <1>3 DEF HandleCorrection, TakeBack, Uncount, TypeOK

LEMMA InvStep == IInv /\ [Next]_vars => IInv'
<1> SUFFICES ASSUME IInv, [Next]_vars PROVE IInv'
  OBVIOUS
<1>1. TypeOK'
  BY TypeStep DEF IInv
<1>2. CASE HandleKeystroke
  <2> DEFINE m == Head(channel)
  <2>1. m \in KeyFrame
    BY <1>2 DEF HandleKeystroke, Frame, KeyFrame, CorrectionFrame, IInv, TypeOK
  <2>2. m.at \in Position /\ m.right \in BOOLEAN
    BY <2>1 DEF KeyFrame
  <2>3. CASE AcceptKey(m)
    <3> HIDE DEF m
    <3> QED BY <1>1, <2>2, <2>3, AcceptKeyInv DEF IInv
  <2>4. CASE RefuseKey(m)
    BY <1>1, <2>4 DEF RefuseKey, record, IInv, NothingAhead,
       ScoredKeysWereTyped, ErrorsNotUnderstated
  <2>5. QED BY <1>2, <2>3, <2>4 DEF HandleKeystroke
<1>3. CASE HandleCorrection
  BY <1>1, <1>3, CorrectionInv DEF IInv
<1>4. CASE UNCHANGED record
  BY <1>1, <1>4 DEF record, IInv, NothingAhead, ScoredKeysWereTyped,
     ErrorsNotUnderstated
<1>5. QED
  BY <1>2, <1>3, <1>4
    DEF Next, TypeKey, Sends, Backspace, Reload, Pause, EndRace, vars

LEMMA InitInv == Init => IInv
<1> SUFFICES ASSUME Init PROVE IInv
  OBVIOUS
<1>1. TypeOK /\ NothingAhead
  BY InitType DEF Init, Blank, NothingAhead
<1>2. Typed(states) = {} /\ In(states, "error") = {}
  BY DEF Init, Blank, Typed, In
<1>3. ScoredKeysWereTyped /\ ErrorsNotUnderstated
  <2>1. Cardinality({}) = 0
    BY FS_EmptySet
  <2>2. Count(states, "correct") + Count(states, "error") = 0
    BY <1>2, <2>1, CountTyped
  <2>3. Count(states, "error") = 0
    BY <1>2, <2>1 DEF Count
  <2>4. total = 0 /\ errors = 0
    BY DEF Init
  <2>5. QED BY <2>2, <2>3, <2>4 DEF ScoredKeysWereTyped, ErrorsNotUnderstated
<1>4. QED BY <1>1, <1>3 DEF IInv

\* Whatever is refused, taken back or typed again, the engine holds nothing past
\* the cursor, scores no character without a keystroke and never understates
\* the errors.
THEOREM ScoreSafe == Spec => []RecordSound
<1>1. IInv => RecordSound
  BY DEF IInv, RecordSound
<1>2. QED
  BY <1>1, InitInv, InvStep, PTL DEF Spec

\* After the finish no frame, reload or end of the race touches the record.
THEOREM FinishSafe == Spec => FinishFreezes
<1>1. [Next]_vars => [stamped => UNCHANGED record]_vars
  <2> SUFFICES ASSUME Next, stamped PROVE UNCHANGED record
    OBVIOUS
  <2>1. CASE HandleKeystroke
    BY <2>1 DEF HandleKeystroke, AcceptKey, Accepts, RefuseKey
  <2>2. CASE HandleCorrection
    BY <2>2 DEF HandleCorrection
  <2>3. QED
    BY <2>1, <2>2 DEF Next, TypeKey, Sends, Backspace, Reload, Pause, EndRace
<1>2. QED
  BY <1>1, PTL DEF Spec, FinishFreezes

-----------------------------------------------------------------------------
(* The frames under way.                                                   *)

\* What the engine makes of a frame that it neither refuses nor, the race being
\* over, ignores, as a change of what it holds of the player.
Views == [pos : 0 .. Length, chars : CharStates, done : BOOLEAN]

TypedInto(v, m) ==
    LET pos == IF m.at > v.pos THEN m.at ELSE v.pos
        chars == [v.chars EXCEPT ![m.at] = Mark(m.right)]
    IN  [pos |-> pos, chars |-> chars,
         done |-> (pos = Length /\ m.right /\ Accurate(chars))]

TakenBack(v) ==
    IF v.pos > 0
    THEN [pos |-> v.pos - 1,
          chars |-> [v.chars EXCEPT ![v.pos] = "pending"], done |-> FALSE]
    ELSE v

Handled(v, m) ==
    IF v.done THEN v
    ELSE IF m.type = "keystroke" THEN TypedInto(v, m)
    ELSE TakenBack(v)

EngineView == [pos |-> progress, chars |-> states, done |-> stamped]
BrowserView == [pos |-> index, chars |-> shown, done |-> finished]

\* The engine's record, with the frames under way handled one after the other,
\* becomes what the browser shows.
Replay(h) ==
    /\ h \in [0 .. Len(channel) -> Views]
    /\ h[0] = EngineView /\ h[Len(channel)] = BrowserView
    /\ \A i \in 1 .. Len(channel) : h[i] = Handled(h[i - 1], channel[i])

Undisturbed == ~refused /\ ~reloaded /\ ~over
CatchesUp == Undisturbed => \E h : Replay(h)

\* Where the browser's cursor was before and after each frame under way. The
\* engine's is never ahead of it, for what is refused is not made up for.
Cursors(q) ==
    /\ q \in [0 .. Len(channel) -> 0 .. Length]
    /\ q[Len(channel)] = index
    /\ ~over /\ ~stamped => progress <= q[0]
    /\ \A i \in 1 .. Len(channel) :
         /\ channel[i].type = "keystroke" =>
              channel[i].at = q[i] /\ q[i] = q[i - 1] + 1
         /\ channel[i].type = "correction" => q[i] = q[i - 1] - 1

Behind == ~reloaded => \E q : Cursors(q)

LEMMA ViewTypes ==
    ASSUME TypeOK PROVE EngineView \in Views /\ BrowserView \in Views
BY DEF TypeOK, EngineView, BrowserView, Views, CharStates

\* The type of a frame tells what it is.
LEMMA FrameKinds ==
    ASSUME NEW m \in Frame
    PROVE  /\ m.type = "keystroke" => m \in KeyFrame
           /\ m.type = "correction" => m \in CorrectionFrame
           /\ m.type \in {"keystroke", "correction"}
BY DEF Frame, KeyFrame, CorrectionFrame

LEMMA ChannelAppend ==
    ASSUME TypeOK, NEW m \in Frame, channel' = Append(channel, m)
    PROVE  /\ Len(channel) \in Nat /\ Len(channel') = Len(channel) + 1
           /\ channel'[Len(channel) + 1] = m
           /\ \A i \in 1 .. Len(channel) : channel'[i] = channel[i]
BY DEF TypeOK

LEMMA ChannelTail ==
    ASSUME TypeOK, channel # <<>>, channel' = Tail(channel)
    PROVE  /\ Len(channel) \in Nat \ {0} /\ Len(channel') = Len(channel) - 1
           /\ channel[1] = Head(channel) /\ channel[1] \in Frame
           /\ \A i \in 1 .. Len(channel') : channel'[i] = channel[i + 1]
BY DEF TypeOK

\* A frame more at the end of the channel, and one less at its front.
LEMMA ReplayMore ==
    ASSUME TypeOK, TypeOK', NEW m \in Frame, channel' = Append(channel, m),
           EngineView' = EngineView, BrowserView' = Handled(BrowserView, m),
           NEW h, Replay(h)
    PROVE  \E g : Replay(g)'
<1> DEFINE n == Len(channel)
           g == [i \in 0 .. n + 1 |-> IF i <= n THEN h[i] ELSE BrowserView']
<1>1. /\ n \in Nat /\ Len(channel') = n + 1 /\ channel'[n + 1] = m
      /\ \A i \in 1 .. n : channel'[i] = channel[i]
  BY ChannelAppend
<1>2. /\ h \in [0 .. n -> Views] /\ h[0] = EngineView /\ h[n] = BrowserView
      /\ \A i \in 1 .. n : h[i] = Handled(h[i - 1], channel[i])
  BY DEF Replay
<1>3. BrowserView' \in Views
  BY DEF TypeOK, BrowserView, Views, CharStates
<1> HIDE DEF n
<1>4. /\ g \in [0 .. n + 1 -> Views]
      /\ \A i \in 0 .. n : g[i] = h[i]
      /\ g[n + 1] = BrowserView'
  BY <1>1, <1>2, <1>3
<1>5. g[0] = EngineView' /\ g[Len(channel')] = BrowserView'
  BY <1>1, <1>2, <1>4
<1>6. ASSUME NEW i \in 1 .. n + 1
      PROVE  g[i] = Handled(g[i - 1], channel'[i])
  <2>1. CASE i = n + 1
    BY <1>1, <1>2, <1>4, <2>1
  <2>2. CASE i # n + 1
    <3>1. i \in 1 .. n /\ i \in 0 .. n /\ i - 1 \in 0 .. n
      BY <1>1, <2>2
    <3>2. QED BY <1>1, <1>2, <1>4, <3>1
  <2>3. QED BY <2>1, <2>2
<1> HIDE DEF g
<1>7. PICK p : p = g
  OBVIOUS
<1>8. Replay(p)'
  BY <1>1, <1>4, <1>5, <1>6, <1>7 DEF Replay
<1>9. QED BY <1>8

LEMMA ReplayLess ==
    ASSUME TypeOK, channel # <<>>, channel' = Tail(channel),
           EngineView' = Handled(EngineView, Head(channel)),
           BrowserView' = BrowserView,
           NEW h, Replay(h)
    PROVE  \E g : Replay(g)'
<1> DEFINE n == Len(channel)
           g == [i \in 0 .. n - 1 |-> h[i + 1]]
<1>1. /\ n \in Nat \ {0} /\ Len(channel') = n - 1
      /\ channel[1] = Head(channel)
      /\ \A i \in 1 .. n - 1 : channel'[i] = channel[i + 1]
  BY ChannelTail
<1>2. /\ h \in [0 .. n -> Views] /\ h[0] = EngineView /\ h[n] = BrowserView
      /\ \A i \in 1 .. n : h[i] = Handled(h[i - 1], channel[i])
  BY DEF Replay
<1> HIDE DEF n
<1>3. /\ g \in [0 .. n - 1 -> Views]
      /\ \A i \in 0 .. n - 1 : g[i] = h[i + 1]
  BY <1>1, <1>2
<1>4. g[0] = EngineView'
  BY <1>1, <1>2, <1>3
<1>5. g[n - 1] = BrowserView'
  BY <1>1, <1>2, <1>3
<1>6. ASSUME NEW i \in 1 .. n - 1
      PROVE  g[i] = Handled(g[i - 1], channel'[i])
  <2>1. i + 1 \in 1 .. n /\ i \in 0 .. n - 1 /\ i - 1 \in 0 .. n - 1
    BY <1>1
  <2>2. h[i + 1] = Handled(h[(i + 1) - 1], channel[i + 1])
    BY <1>2, <2>1
  <2>3. (i + 1) - 1 = i /\ (i - 1) + 1 = i
    OBVIOUS
  <2>4. QED BY <1>1, <1>3, <2>1, <2>2, <2>3
<1> HIDE DEF g
<1>7. PICK p : p = g
  OBVIOUS
<1>8. Replay(p)'
  BY <1>1, <1>3, <1>4, <1>5, <1>6, <1>7 DEF Replay
<1>9. QED BY <1>8

\* The browser does to its own state what it expects of the engine.
LEMMA BrowserExpects ==
    /\ \A right \in BOOLEAN :
         TypeOK /\ TypeKey(right) =>
           \E m \in Frame :
             /\ channel' = Append(channel, m)
             /\ m = [type |-> "keystroke", at |-> index + 1, right |-> right]
             /\ BrowserView' = Handled(BrowserView, m)
    /\ TypeOK /\ Backspace =>
         \E m \in Frame :
           /\ channel' = Append(channel, m)
           /\ m = [type |-> "correction"]
           /\ BrowserView' = Handled(BrowserView, m)
<1>1. ASSUME NEW right \in BOOLEAN, TypeOK, TypeKey(right)
      PROVE  \E m \in Frame :
               /\ channel' = Append(channel, m)
               /\ m = [type |-> "keystroke", at |-> index + 1, right |-> right]
               /\ BrowserView' = Handled(BrowserView, m)
  <2> DEFINE m == [type |-> "keystroke", at |-> index + 1, right |-> right]
  <2>1. index + 1 \in Position
    BY <1>1, PassageAssumption DEF TypeKey, TypeOK, Position
  <2>2. m \in Frame
    BY <2>1 DEF Frame, KeyFrame
  <2>3. channel' = Append(channel, m)
    BY <1>1 DEF TypeKey, Sends
  <2>4. BrowserView' = TypedInto(BrowserView, m)
    <3>1. /\ index' = index + 1 /\ index + 1 > index
          /\ shown' = [shown EXCEPT ![index + 1] = Mark(right)]
          /\ finished' = (index + 1 = Length /\ right /\ Accurate(shown'))
      BY <1>1 DEF TypeKey, TypeOK
    <3>2. m.at = index + 1 /\ m.right = right
      OBVIOUS
    <3>3. BrowserView.pos = index /\ BrowserView.chars = shown
      BY DEF BrowserView
    <3> HIDE DEF m
    <3>4. TypedInto(BrowserView, m) =
            [pos |-> index + 1, chars |-> shown',
             done |-> (index + 1 = Length /\ right /\ Accurate(shown'))]
      BY <3>1, <3>2, <3>3 DEF TypedInto
    <3>5. QED BY <3>1, <3>4, Zenon DEF BrowserView
  <2>5. ~BrowserView.done /\ m.type = "keystroke"
    BY <1>1 DEF TypeKey, BrowserView
  <2>6. BrowserView' = Handled(BrowserView, m)
    BY <2>4, <2>5 DEF Handled
  <2>7. QED BY <2>2, <2>3, <2>6
<1>2. ASSUME TypeOK, Backspace
      PROVE  \E m \in Frame :
               /\ channel' = Append(channel, m)
               /\ m = [type |-> "correction"]
               /\ BrowserView' = Handled(BrowserView, m)
  <2> DEFINE m == [type |-> "correction"]
  <2>1. m \in Frame /\ channel' = Append(channel, m)
    BY <1>2 DEF Backspace, Sends, Frame, CorrectionFrame
  <2>2. BrowserView' = TakenBack(BrowserView)
    BY <1>2 DEF Backspace, TypeOK, BrowserView, TakenBack
  <2>3. ~BrowserView.done /\ m.type # "keystroke"
    BY <1>2 DEF Backspace, BrowserView
  <2>4. BrowserView' = Handled(BrowserView, m)
    BY <2>2, <2>3 DEF Handled
  <2>5. QED BY <2>1, <2>4
<1>3. QED BY <1>1, <1>2

\* So does the engine, with a frame it does not refuse, during the race.
LEMMA EngineComplies ==
    ASSUME TypeOK, ~over, ~refused',
           HandleKeystroke \/ HandleCorrection
    PROVE  EngineView' = Handled(EngineView, Head(channel))
<1> DEFINE m == Head(channel)
<1>1. m \in Frame /\ (m.type = "keystroke" => m \in KeyFrame)
  BY FrameKinds DEF TypeOK, HandleKeystroke, HandleCorrection
<1>2. CASE HandleKeystroke
  <2>1. AcceptKey(m) /\ m.type = "keystroke"
    BY <1>2 DEF HandleKeystroke, RefuseKey
  <2> HIDE DEF m
  <2>2. ~EngineView.done
    BY <2>1 DEF AcceptKey, Accepts, EngineView
  <2>3. /\ progress' = IF m.at > progress THEN m.at ELSE progress
        /\ states' = [states EXCEPT ![m.at] = Mark(m.right)]
        /\ stamped' = (progress' = Length /\ m.right /\ Accurate(states'))
    BY <2>1 DEF AcceptKey
  <2>4. EngineView.pos = progress /\ EngineView.chars = states
    BY DEF EngineView
  <2>5. TypedInto(EngineView, m) =
          [pos |-> progress', chars |-> states',
           done |-> (progress' = Length /\ m.right /\ Accurate(states'))]
    BY <2>3, <2>4 DEF TypedInto
  <2>6. EngineView' = TypedInto(EngineView, m)
    BY <2>3, <2>5, Zenon DEF EngineView
  <2>7. EngineView' = Handled(EngineView, m)
    BY <2>1, <2>2, <2>6 DEF Handled
  <2>8. QED BY <2>7 DEF m
<1>3. CASE HandleCorrection
  <2>1. m.type # "keystroke"
    BY <1>3 DEF HandleCorrection
  <2> HIDE DEF m
  <2>2. CASE stamped
    <3>1. EngineView' = EngineView /\ EngineView.done
      BY <1>3, <2>2 DEF HandleCorrection, record, EngineView
    <3>2. QED BY <3>1 DEF Handled, m
  <2>3. CASE ~stamped
    <3>1. /\ progress' = IF progress > 0 THEN progress - 1 ELSE 0
          /\ states' = TakeBack /\ stamped' = FALSE
      BY <1>3, <2>3 DEF HandleCorrection, TypeOK
    <3>2. EngineView' = TakenBack(EngineView)
      <4>1. /\ EngineView.pos = progress /\ EngineView.chars = states
            /\ stamped = FALSE
        BY <2>3 DEF EngineView, TypeOK
      <4>2. CASE progress > 0
        BY <3>1, <4>1, <4>2 DEF EngineView, TakenBack, TakeBack
      <4>3. CASE ~(progress > 0)
        <5>1. progress' = progress /\ states' = states
          BY <3>1, <4>3 DEF TypeOK, TakeBack
        <5>2. EngineView' = EngineView
          BY <3>1, <4>1, <5>1 DEF EngineView
        <5>3. QED BY <4>1, <4>3, <5>2 DEF TakenBack
      <4>4. QED BY <4>2, <4>3
    <3>3. EngineView.done = stamped
      BY DEF EngineView
    <3>4. EngineView' = Handled(EngineView, m)
      BY <2>1, <2>3, <3>2, <3>3 DEF Handled
    <3>5. QED BY <3>4 DEF m
  <2>4. QED BY <2>2, <2>3
<1>4. QED BY <1>2, <1>3

LEMMA CatchesUpStep == TypeOK /\ CatchesUp /\ [Next]_vars => CatchesUp'
<1> SUFFICES ASSUME TypeOK, CatchesUp, [Next]_vars, Undisturbed'
             PROVE  \E h : Replay(h)'
  BY DEF CatchesUp
<1>1. TypeOK'
  BY TypeStep
<1>2. Undisturbed /\ ~refused'
  <2>1. CASE HandleKeystroke
    BY <2>1 DEF Undisturbed, HandleKeystroke, AcceptKey, RefuseKey
  <2>2. CASE ~HandleKeystroke
    <3>1. ~Reload /\ ~EndRace
      BY DEF Reload, EndRace, Undisturbed
    <3>2. UNCHANGED <<refused, reloaded, over>>
      BY <2>2, <3>1 DEF Next, TypeKey, Backspace, HandleCorrection, Pause,
         vars
    <3>3. QED BY <3>2 DEF Undisturbed
  <2>3. QED BY <2>1, <2>2
<1>3. PICK h : Replay(h)
  BY <1>2 DEF CatchesUp
<1>4. CASE Backspace \/ \E right \in BOOLEAN : TypeKey(right)
  <2>1. PICK m \in Frame : /\ channel' = Append(channel, m)
                           /\ BrowserView' = Handled(BrowserView, m)
    BY <1>4, BrowserExpects
  <2>2. EngineView' = EngineView
    BY <1>4 DEF Backspace, TypeKey, record, EngineView
  <2>3. QED BY <1>1, <1>3, <2>1, <2>2, ReplayMore
<1>5. CASE HandleKeystroke \/ HandleCorrection
  <2>1. channel # <<>> /\ channel' = Tail(channel)
    BY <1>5 DEF HandleKeystroke, HandleCorrection
  <2>2. EngineView' = Handled(EngineView, Head(channel))
    BY <1>2, <1>5, EngineComplies DEF Undisturbed
  <2>3. BrowserView' = BrowserView
    BY <1>5 DEF HandleKeystroke, HandleCorrection, browser, BrowserView
  <2>4. QED BY <1>3, <2>1, <2>2, <2>3, ReplayLess
<1>6. CASE Pause \/ EndRace \/ UNCHANGED vars
  <2>1. UNCHANGED <<channel, EngineView, BrowserView>>
    BY <1>6 DEF Pause, EndRace, vars, browser, record, EngineView, BrowserView
  <2>2. QED BY <1>3, <2>1 DEF Replay
<1>7. CASE Reload
  BY <1>7 DEF Reload, Undisturbed
<1>8. QED BY <1>4, <1>5, <1>6, <1>7 DEF Next

\* While nothing is refused, reloaded or over, browser and engine differ by
\* exactly the frames under way (TypingEngine.handleKeyDown against
\* validateKeystroke and the correction handler).
THEOREM SidesMirror == Spec => []Mirrored
<1>1. Init => TypeOK /\ CatchesUp
  <2> SUFFICES ASSUME Init PROVE CatchesUp
    BY InitType
  <2>1. channel = <<>> /\ EngineView = BrowserView
    BY DEF Init, EngineView, BrowserView
  <2>2. EngineView \in Views
    BY InitType, ViewTypes
  <2>3. PICK h : h = [i \in 0 .. 0 |-> EngineView]
    OBVIOUS
  <2>4. Replay(h)
    BY <2>1, <2>2, <2>3 DEF Replay
  <2>5. QED BY <2>4 DEF CatchesUp
<1>2. TypeOK /\ CatchesUp => Mirrored
  <2> SUFFICES ASSUME CatchesUp, Undisturbed, channel = <<>>
               PROVE  states = shown /\ progress = index /\ stamped = finished
    BY DEF Mirrored, Undisturbed
  <2>1. PICK h : Replay(h)
    BY DEF CatchesUp
  <2>2. EngineView = BrowserView
    BY <2>1 DEF Replay
  <2>3. QED BY <2>2 DEF EngineView, BrowserView
<1>3. TypeOK /\ CatchesUp /\ [Next]_vars => (TypeOK /\ CatchesUp)'
  BY TypeStep, CatchesUpStep
<1>4. QED BY <1>1, <1>2, <1>3, PTL DEF Spec

-----------------------------------------------------------------------------
(* The limit on errors in a row.                                           *)

\* A frame more, and one less.
LEMMA CursorsMore ==
    ASSUME TypeOK, TypeOK', NEW m \in Frame, channel' = Append(channel, m),
           UNCHANGED <<over, stamped, progress>>,
           m.type = "keystroke" => m.at = index' /\ index' = index + 1,
           m.type = "correction" => index' = index - 1,
           NEW q, Cursors(q)
    PROVE  \E p : Cursors(p)'
<1> DEFINE n == Len(channel)
           g == [i \in 0 .. n + 1 |-> IF i <= n THEN q[i] ELSE index']
<1>1. /\ n \in Nat /\ Len(channel') = n + 1 /\ channel'[n + 1] = m
      /\ \A i \in 1 .. n : channel'[i] = channel[i]
  BY ChannelAppend
<1>2. /\ q \in [0 .. n -> 0 .. Length] /\ q[n] = index
      /\ ~over /\ ~stamped => progress <= q[0]
      /\ \A i \in 1 .. n :
           /\ channel[i].type = "keystroke" =>
                channel[i].at = q[i] /\ q[i] = q[i - 1] + 1
           /\ channel[i].type = "correction" => q[i] = q[i - 1] - 1
  BY DEF Cursors
<1>3. index' \in 0 .. Length
  BY DEF TypeOK
<1> HIDE DEF n
<1>4. /\ g \in [0 .. n + 1 -> 0 .. Length]
      /\ \A i \in 0 .. n : g[i] = q[i]
      /\ g[n + 1] = index'
  BY <1>1, <1>2, <1>3
<1> HIDE DEF g
<1>5. ASSUME NEW i \in 1 .. n + 1
      PROVE  /\ channel'[i].type = "keystroke" =>
                  channel'[i].at = g[i] /\ g[i] = g[i - 1] + 1
             /\ channel'[i].type = "correction" => g[i] = g[i - 1] - 1
  <2>1. CASE i = n + 1
    <3>1. g[i] = index' /\ g[i - 1] = index /\ channel'[i] = m
      BY <1>1, <1>2, <1>4, <2>1
    <3>2. QED BY <3>1
  <2>2. CASE i # n + 1
    <3>1. i \in 1 .. n /\ i \in 0 .. n /\ i - 1 \in 0 .. n
      BY <1>1, <2>2
    <3>2. QED BY <1>1, <1>2, <1>4, <3>1
  <2>3. QED BY <2>1, <2>2
<1>6. g[0] = q[0]
  BY <1>1, <1>4
<1>7. PICK p : p = g
  OBVIOUS
<1>8. Cursors(p)'
  BY <1>1, <1>2, <1>4, <1>5, <1>6, <1>7 DEF Cursors
<1>9. QED BY <1>8

LEMMA CursorsLess ==
    ASSUME TypeOK, channel # <<>>, channel' = Tail(channel),
           index' = index,
           NEW q, Cursors(q), ~over' /\ ~stamped' => progress' <= q[1]
    PROVE  \E p : Cursors(p)'
<1> DEFINE n == Len(channel)
           g == [i \in 0 .. n - 1 |-> q[i + 1]]
<1>1. /\ n \in Nat \ {0} /\ Len(channel') = n - 1
      /\ \A i \in 1 .. n - 1 : channel'[i] = channel[i + 1]
  BY ChannelTail
<1>2. /\ q \in [0 .. n -> 0 .. Length] /\ q[n] = index
      /\ \A i \in 1 .. n :
           /\ channel[i].type = "keystroke" =>
                channel[i].at = q[i] /\ q[i] = q[i - 1] + 1
           /\ channel[i].type = "correction" => q[i] = q[i - 1] - 1
  BY DEF Cursors
<1> HIDE DEF n
<1>3. /\ g \in [0 .. n - 1 -> 0 .. Length]
      /\ \A i \in 0 .. n - 1 : g[i] = q[i + 1]
  BY <1>1, <1>2
<1> HIDE DEF g
<1>4. g[0] = q[1] /\ g[n - 1] = index'
  BY <1>1, <1>2, <1>3
<1>5. ASSUME NEW i \in 1 .. n - 1
      PROVE  /\ channel'[i].type = "keystroke" =>
                  channel'[i].at = g[i] /\ g[i] = g[i - 1] + 1
             /\ channel'[i].type = "correction" => g[i] = g[i - 1] - 1
  <2>1. i + 1 \in 1 .. n /\ i \in 0 .. n - 1 /\ i - 1 \in 0 .. n - 1
    BY <1>1
  <2>2. g[i] = q[i + 1] /\ g[i - 1] = q[(i + 1) - 1]
    <3>1. (i - 1) + 1 = i /\ (i + 1) - 1 = i
      OBVIOUS
    <3>2. QED BY <1>3, <2>1, <3>1
  <2>3. QED BY <1>1, <1>2, <2>1, <2>2
<1>6. PICK p : p = g
  OBVIOUS
<1>7. Cursors(p)'
  BY <1>1, <1>3, <1>4, <1>5, <1>6 DEF Cursors
<1>8. QED BY <1>7

\* Where the engine stands when it handles the first frame.
LEMMA FirstCursor ==
    ASSUME TypeOK, channel # <<>>, NEW q, Cursors(q)
    PROVE  /\ q[0] \in 0 .. Length /\ q[1] \in 0 .. Length
           /\ ~over /\ ~stamped => progress <= q[0]
           /\ Head(channel).type = "keystroke" =>
                Head(channel).at = q[1] /\ q[1] = q[0] + 1
           /\ Head(channel).type = "correction" => q[1] = q[0] - 1
<1>1. Len(channel) \in Nat \ {0} /\ channel[1] = Head(channel)
  BY DEF TypeOK
<1>2. 0 \in 0 .. Len(channel) /\ 1 \in 1 .. Len(channel)
      /\ 1 \in 0 .. Len(channel) /\ 1 - 1 = 0
  BY <1>1
<1>3. QED BY <1>1, <1>2 DEF Cursors

LEMMA BehindStep == TypeOK /\ Behind /\ [Next]_vars => Behind'
<1> SUFFICES ASSUME TypeOK, Behind, [Next]_vars, ~reloaded'
             PROVE  \E q : Cursors(q)'
  BY DEF Behind
<1>1. TypeOK'
  BY TypeStep
<1>2. ~Reload
  BY DEF Reload
<1>3. ~reloaded
  BY <1>2 DEF Next, TypeKey, Backspace, HandleKeystroke, HandleCorrection,
     Pause, EndRace, vars
<1>4. PICK q : Cursors(q)
  BY <1>3 DEF Behind
<1>5. ASSUME NEW right \in BOOLEAN, TypeKey(right)
      PROVE  \E p : Cursors(p)'
  <2>1. PICK m \in Frame :
          /\ channel' = Append(channel, m)
          /\ m = [type |-> "keystroke", at |-> index + 1, right |-> right]
    BY <1>5, BrowserExpects
  <2>2. /\ index' = index + 1 /\ m.at = index' /\ m.type = "keystroke"
        /\ UNCHANGED <<over, stamped, progress>>
    BY <1>5, <2>1 DEF TypeKey, record
  <2>3. QED BY <1>1, <1>4, <2>1, <2>2, CursorsMore
<1>6. CASE Backspace
  <2>1. PICK m \in Frame : /\ channel' = Append(channel, m)
                           /\ m = [type |-> "correction"]
    BY <1>6, BrowserExpects
  <2>2. /\ index' = index - 1 /\ m.type = "correction"
        /\ UNCHANGED <<over, stamped, progress>>
    BY <1>6, <2>1 DEF Backspace, record
  <2>3. QED BY <1>1, <1>4, <2>1, <2>2, CursorsMore
<1>7. CASE HandleKeystroke
  <2>1. /\ channel # <<>> /\ channel' = Tail(channel)
        /\ Head(channel).type = "keystroke"
        /\ index' = index /\ over' = over
    BY <1>7 DEF HandleKeystroke, browser
  <2>2. /\ q[0] \in 0 .. Length /\ q[1] = q[0] + 1
        /\ Head(channel).at = q[1]
        /\ ~over /\ ~stamped => progress <= q[0]
    BY <1>4, <2>1, FirstCursor
  <2>3. ~over' /\ ~stamped' => progress' <= q[1]
    <3>1. CASE AcceptKey(Head(channel))
      <4>1. /\ ~stamped
            /\ progress' = IF q[1] > progress THEN q[1] ELSE progress
        BY <2>2, <3>1 DEF AcceptKey, Accepts
      <4>2. progress \in Nat
        BY DEF TypeOK
      <4>3. QED BY <2>1, <2>2, <4>1, <4>2
    <3>2. CASE RefuseKey(Head(channel))
      <4>1. progress' = progress /\ stamped' = stamped /\ progress \in Nat
        BY <3>2 DEF RefuseKey, record, TypeOK
      <4>2. QED BY <2>1, <2>2, <4>1
    <3>3. QED BY <1>7, <3>1, <3>2 DEF HandleKeystroke
  <2>4. QED BY <1>4, <2>1, <2>3, CursorsLess
<1>8. CASE HandleCorrection
  <2>1. /\ channel # <<>> /\ channel' = Tail(channel)
        /\ Head(channel).type = "correction"
        /\ index' = index /\ over' = over
    BY <1>8 DEF HandleCorrection, browser
  <2>2. /\ q[0] \in 0 .. Length /\ q[1] \in 0 .. Length /\ q[1] = q[0] - 1
        /\ ~over /\ ~stamped => progress <= q[0]
    BY <1>4, <2>1, FirstCursor
  <2>3. ~over' /\ ~stamped' => progress' <= q[1]
    <3>1. SUFFICES ASSUME ~over, ~stamped' PROVE progress' <= q[1]
      BY <2>1
    <3>2. ~stamped /\ progress' = IF progress > 0 THEN progress - 1 ELSE 0
      BY <1>8, <3>1 DEF HandleCorrection, record
    <3>3. QED BY <2>2, <3>1, <3>2 DEF TypeOK
  <2>4. QED BY <1>4, <2>1, <2>3, CursorsLess
<1>9. CASE Pause \/ EndRace \/ UNCHANGED vars
  <2>1. UNCHANGED <<channel, index, stamped, progress>>
    BY <1>9 DEF Pause, EndRace, vars, browser, record
  <2>2. ~over' => ~over
    BY <1>9 DEF Pause, EndRace, vars
  <2>3. QED BY <1>4, <2>1, <2>2 DEF Cursors
<1>10. QED BY <1>2, <1>5, <1>6, <1>7, <1>8, <1>9 DEF Next

\* A wrong key is written at the front of what is known, with a character that
\* is not wrong among those before it.
LEMMA OneMoreError ==
    ASSUME NEW st \in CharStates, NEW at \in Position, NEW right \in BOOLEAN,
           \A i \in Position : i > at => st[i] = "pending",
           right \/ ~RunBefore(st, at),
           NEW i \in Position, i + MaxErrors \in Position,
           \E j \in i .. i + MaxErrors : st[j] # "error"
    PROVE  \E j \in i .. i + MaxErrors :
             [st EXCEPT ![at] = Mark(right)][j] # "error"
<1> DEFINE new == [st EXCEPT ![at] = Mark(right)]
<1>1. MaxErrors \in Nat \ {0} /\ Length \in Nat
  BY PassageAssumption
<1>2. /\ new[at] = Mark(right)
      /\ \A j \in Position : j # at => new[j] = st[j]
  BY DEF CharStates
<1>3. i .. i + MaxErrors \subseteq Position /\ at \in Int /\ i \in Int
  BY <1>1 DEF Position
<1> HIDE DEF new
<1>4. CASE at \notin i .. i + MaxErrors
  BY <1>2, <1>3, <1>4
<1>5. CASE at \in i .. i + MaxErrors /\ right
  BY <1>2, <1>5 DEF Mark
<1>6. CASE at \in i .. i + MaxErrors /\ ~right /\ at < i + MaxErrors
  <2>1. at + 1 \in i .. i + MaxErrors /\ at + 1 > at /\ at + 1 # at
    BY <1>1, <1>3, <1>6
  <2>2. at + 1 \in Position
    BY <1>3, <2>1
  <2>3. new[at + 1] = st[at + 1] /\ st[at + 1] = "pending"
    BY <1>2, <2>1, <2>2
  <2>4. QED BY <2>1, <2>3
<1>7. CASE at = i + MaxErrors /\ ~right
  <2>1. at > MaxErrors /\ at - MaxErrors = i
    BY <1>1, <1>7 DEF Position
  <2>2. PICK j \in at - MaxErrors .. at - 1 : st[j] # "error"
    BY <1>7, <2>1 DEF RunBefore
  <2>3. j \in i .. i + MaxErrors /\ j # at
    BY <1>1, <1>3, <1>7, <2>1
  <2>4. QED BY <1>2, <1>3, <2>2, <2>3
<1>8. QED
  <2>1. new = [st EXCEPT ![at] = Mark(right)]
    BY DEF new
  <2>2. at \in i .. i + MaxErrors /\ ~right =>
          at < i + MaxErrors \/ at = i + MaxErrors
    BY <1>1, <1>3
  <2>3. QED BY <1>4, <1>5, <1>6, <1>7, <2>1, <2>2

RunInv == IInv /\ Behind /\ RunBounded

LEMMA RunStep == RunInv /\ [Next]_vars => RunInv'
<1> SUFFICES ASSUME RunInv, [Next]_vars PROVE RunInv'
  OBVIOUS
<1>1. IInv' /\ Behind'
  BY InvStep, BehindStep DEF RunInv, IInv
<1>2. RunBounded'
  <2> SUFFICES ASSUME ~reloaded', ~over', NEW i \in Position,
                      i + MaxErrors \in Position
               PROVE  \E j \in i .. i + MaxErrors : states'[j] # "error"
    BY DEF RunBounded
  <2>1. ~Reload /\ ~EndRace
    BY DEF Reload, EndRace
  <2>2. ~reloaded /\ ~over
    <3>1. UNCHANGED <<reloaded, over>>
      BY <2>1 DEF Next, TypeKey, Backspace, HandleKeystroke,
         HandleCorrection, Pause, vars
    <3>2. QED BY <3>1
  <2>3. PICK j \in i .. i + MaxErrors : states[j] # "error"
    BY <2>2 DEF RunInv, RunBounded
  <2>4. CASE states' = states
    BY <2>3, <2>4
  <2>5. CASE HandleKeystroke /\ AcceptKey(Head(channel))
    <3> DEFINE m == Head(channel)
    <3>1. PICK q : Cursors(q)
      BY <2>2 DEF RunInv, Behind
    <3>2. /\ channel # <<>> /\ m.type = "keystroke" /\ m \in Frame
      BY <2>5 DEF HandleKeystroke, RunInv, IInv, TypeOK
    <3>3. m.at \in Position /\ m.right \in BOOLEAN
      BY <3>2, FrameKinds DEF KeyFrame
    <3>4. /\ ~stamped /\ (m.right \/ ~RunBefore(states, m.at))
          /\ states' = [states EXCEPT ![m.at] = Mark(m.right)]
      BY <2>5 DEF AcceptKey, Accepts
    <3>5. /\ m.at = q[1] /\ q[1] = q[0] + 1 /\ q[0] \in Nat
          /\ progress <= q[0] /\ progress \in Nat
      BY <2>2, <3>1, <3>2, <3>4, FirstCursor DEF RunInv, IInv, TypeOK
    <3>6. \A k \in Position : k > m.at => states[k] = "pending"
      BY <3>5 DEF RunInv, IInv, NothingAhead, Position
    <3>7. states \in CharStates
      BY DEF RunInv, IInv, TypeOK, CharStates
    <3> HIDE DEF m
    <3>8. QED BY <2>3, <3>3, <3>4, <3>6, <3>7, OneMoreError
  <2>6. CASE HandleCorrection
    <3>1. \/ states' = states
          \/ states' = [states EXCEPT ![progress] = "pending"]
      BY <2>6 DEF HandleCorrection, TakeBack, record
    <3>2. states \in CharStates
      BY DEF RunInv, IInv, TypeOK, CharStates
    <3>3. j \in Position
      BY PassageAssumption DEF Position
    <3>4. states'[j] # "error"
      BY <2>3, <3>1, <3>2, <3>3 DEF CharStates
    <3>5. QED BY <3>4
  <2>7. QED
    BY <2>1, <2>4, <2>5, <2>6 DEF Next, TypeKey, Backspace, HandleKeystroke,
       RefuseKey, Pause, vars, record
<1>3. QED BY <1>1, <1>2 DEF RunInv

\* Before a reload and during the race the engine never holds more wrong
\* characters in a row than allowed, although validateKeystroke looks only at
\* what precedes the key: nothing follows it.
THEOREM RunsBounded == Spec => []RunBounded
<1>1. Init => RunInv
  <2> SUFFICES ASSUME Init PROVE RunInv
    OBVIOUS
  <2>1. TypeOK
    BY InitType
  <2>2. IInv
    BY InitInv
  <2>3. Behind
    <3>1. PICK q : q = [i \in 0 .. 0 |-> index]
      OBVIOUS
    <3>2. channel = <<>> /\ index = 0 /\ progress = 0
      BY DEF Init
    <3>3. Cursors(q)
      BY <2>1, <3>1, <3>2 DEF Cursors, TypeOK
    <3>4. QED BY <3>3 DEF Behind
  <2>4. RunBounded
    <3> SUFFICES ASSUME NEW i \in Position, i + MaxErrors \in Position
                 PROVE  \E j \in i .. i + MaxErrors : states[j] # "error"
      BY DEF RunBounded
    <3>1. i \in i .. i + MaxErrors
      BY PassageAssumption DEF Position
    <3>2. states[i] = "pending"
      BY DEF Init, Blank
    <3>3. QED BY <3>1, <3>2
  <2>5. QED BY <2>2, <2>3, <2>4 DEF RunInv
<1>2. RunInv => RunBounded
  BY DEF RunInv
<1>3. QED BY <1>1, <1>2, RunStep, PTL DEF Spec
=============================================================================
