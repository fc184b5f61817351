----------------------------- MODULE Parts_proofs -----------------------------
(***************************************************************************)
(* Proofs about the small parts, each under its own specification and for   *)
(* any values of its constants: the loopback link, the cursors, the limit   *)
(* on rooms created, the clock sync and the standings.                     *)
(***************************************************************************)
EXTENDS MCParts, Solo_proofs, SequenceTheorems, FiniteSetTheorems,
        WellFoundedInduction, TLAPS

-----------------------------------------------------------------------------
(* EventLink: events are read in the order they were published.            *)

Rising(s) == \A i, j \in 1 .. Len(s) : i < j => s[i] < s[j]
Before(s, t) == \A i \in 1 .. Len(s), j \in 1 .. Len(t) : s[i] < t[j]
UpTo(s, n) == \A i \in 1 .. Len(s) : s[i] <= n

\* Read, under way and queued are one rising sequence of what was published, and
\* an open link has nothing queued.
OneStream ==
    /\ Rising(got) /\ Rising(wire) /\ Rising(pending)
    /\ Before(got, wire) /\ Before(got, pending) /\ Before(wire, pending)
    /\ UpTo(got, sent) /\ UpTo(wire, sent) /\ UpTo(pending, sent)
    /\ link = "open" => pending = <<>>

LinkInv == LinkTypeOK /\ (~threw => OneStream)

Numbers == Seq(1 .. Events)

LEMMA NumberFacts ==
    ASSUME NEW s \in Numbers
    PROVE  /\ Len(s) \in Nat /\ Events \in Nat
           /\ \A i \in 1 .. Len(s) : s[i] \in 1 .. Events /\ s[i] \in Int
BY LinkAssumption DEF Numbers

\* The next event at the end of a stream.
LEMMA NextNumber ==
    ASSUME NEW s \in Numbers, NEW n \in 0 .. Events - 1, Rising(s), UpTo(s, n)
    PROVE  /\ Append(s, n + 1) \in Numbers /\ Rising(Append(s, n + 1))
           /\ UpTo(Append(s, n + 1), n + 1)
           /\ \A r \in Numbers :
                 UpTo(r, n) /\ Before(r, s) => Before(r, Append(s, n + 1))
<1>1. /\ Append(s, n + 1) \in Numbers
      /\ Len(s) \in Nat /\ Len(Append(s, n + 1)) = Len(s) + 1
      /\ \A i \in 1 .. Len(s) : Append(s, n + 1)[i] = s[i]
      /\ Append(s, n + 1)[Len(s) + 1] = n + 1
  BY LinkAssumption DEF Numbers
<1>2. \A i \in 1 .. Len(s) + 1 : i \in 1 .. Len(s) \/ i = Len(s) + 1
  BY <1>1
<1>3. Rising(Append(s, n + 1)) /\ UpTo(Append(s, n + 1), n + 1)
  BY <1>1, <1>2, NumberFacts DEF Rising, UpTo
<1>4. ASSUME NEW r \in Numbers, UpTo(r, n), Before(r, s)
      PROVE  Before(r, Append(s, n + 1))
  BY <1>1, <1>2, <1>4, NumberFacts DEF Before, UpTo
<1>5. QED BY <1>1, <1>3, <1>4

LEMMA LaterBound ==
    ASSUME NEW s \in Numbers, NEW n \in Int, UpTo(s, n)
    PROVE  UpTo(s, n + 1)
BY NumberFacts DEF UpTo

\* A part of a stream is as ordered as the stream.
LEMMA Shorter ==
    ASSUME NEW s \in Numbers, NEW m \in 1 .. Len(s) + 1, NEW n \in 0 .. Len(s)
    PROVE  /\ SubSeq(s, m, n) \in Numbers
           /\ Rising(s) => Rising(SubSeq(s, m, n))
           /\ \A k : UpTo(s, k) => UpTo(SubSeq(s, m, n), k)
           /\ \A r \in Numbers :
                 /\ Before(r, s) => Before(r, SubSeq(s, m, n))
                 /\ Before(s, r) => Before(SubSeq(s, m, n), r)
<1> DEFINE t == SubSeq(s, m, n)
<1>1. \A i \in m .. n : s[i] \in 1 .. Events
  BY NumberFacts
<1>2. /\ t \in Numbers
      /\ Len(t) = IF m <= n THEN n - m + 1 ELSE 0
      /\ \A i \in 1 .. n - m + 1 : t[i] = s[m + i - 1]
  BY <1>1, SubSeqProperties, NumberFacts DEF Numbers
<1> HIDE DEF t
<1>3. \A i \in 1 .. Len(t) :
        /\ m + i - 1 \in 1 .. Len(s) /\ t[i] = s[m + i - 1]
  BY <1>2, NumberFacts
<1>4. Rising(s) => Rising(t)
  <2> SUFFICES ASSUME Rising(s), NEW i \in 1 .. Len(t), NEW j \in 1 .. Len(t),
                      i < j
               PROVE  t[i] < t[j]
    BY DEF Rising
  <2>1. m + i - 1 < m + j - 1
    BY <1>2, NumberFacts
  <2>2. QED BY <1>3, <2>1 DEF Rising
<1>5. /\ \A k : UpTo(s, k) => UpTo(t, k)
      /\ \A r \in Numbers : /\ Before(r, s) => Before(r, t)
                            /\ Before(s, r) => Before(t, r)
  BY <1>3 DEF UpTo, Before
<1>6. QED BY <1>2, <1>4, <1>5 DEF t

LEMMA Nothing ==
    /\ << >> \in Numbers /\ Rising(<< >>)
    /\ \A n : UpTo(<< >>, n)
    /\ \A r : Before(r, << >>) /\ Before(<< >>, r)
BY DEF Numbers, Rising, UpTo, Before

\* One stream behind another.
LEMMA Joined ==
    ASSUME NEW s \in Numbers, NEW t \in Numbers, NEW n,
           Rising(s), Rising(t), Before(s, t), UpTo(s, n), UpTo(t, n)
    PROVE  /\ s \o t \in Numbers /\ Rising(s \o t) /\ UpTo(s \o t, n)
           /\ \A r \in Numbers :
                 Before(r, s) /\ Before(r, t) => Before(r, s \o t)
<1> DEFINE u == s \o t
<1>1. /\ u \in Numbers /\ Len(u) = Len(s) + Len(t)
      /\ \A i \in 1 .. Len(s) + Len(t) :
           u[i] = IF i <= Len(s) THEN s[i] ELSE t[i - Len(s)]
  BY ConcatProperties DEF Numbers
<1> HIDE DEF u
<1>2. \A i \in 1 .. Len(u) :
        \/ i \in 1 .. Len(s) /\ u[i] = s[i]
        \/ i - Len(s) \in 1 .. Len(t) /\ u[i] = t[i - Len(s)]
  BY <1>1, NumberFacts
<1>3. Rising(u)
  <2> SUFFICES ASSUME NEW i \in 1 .. Len(u), NEW j \in 1 .. Len(u), i < j
               PROVE  u[i] < u[j]
    BY DEF Rising
  <2>1. CASE i \in 1 .. Len(s) /\ j \in 1 .. Len(s)
    BY <1>1, <2>1 DEF Rising
  <2>2. CASE i \in 1 .. Len(s) /\ j \notin 1 .. Len(s)
    <3>1. u[i] = s[i] /\ j - Len(s) \in 1 .. Len(t) /\ u[j] = t[j - Len(s)]
      BY <1>2, <2>2
    <3>2. QED BY <2>2, <3>1 DEF Before
  <2>3. CASE i \notin 1 .. Len(s)
    <3>1. /\ i - Len(s) \in 1 .. Len(t) /\ u[i] = t[i - Len(s)]
          /\ j - Len(s) \in 1 .. Len(t) /\ u[j] = t[j - Len(s)]
          /\ i - Len(s) < j - Len(s)
      BY <1>2, <2>3, NumberFacts
    <3>2. QED BY <3>1 DEF Rising
  <2>4. QED BY <2>1, <2>2, <2>3
<1>4. UpTo(u, n)
  BY <1>2 DEF UpTo
<1>5. \A r \in Numbers : Before(r, s) /\ Before(r, t) => Before(r, u)
  BY <1>2 DEF Before
<1>6. QED BY <1>1, <1>3, <1>4, <1>5 DEF u

LEMMA LinkInitially == LinkInit => LinkInv
<1> SUFFICES ASSUME LinkInit PROVE LinkInv
  OBVIOUS
<1>1. LinkTypeOK
  <2>1. << >> \in Seq(1 .. Events) /\ 0 \in 0 .. Events
    BY LinkAssumption
  <2>2. QED BY Zenon, <2>1 DEF LinkInit, LinkTypeOK
<1>2. OneStream
  BY Nothing DEF LinkInit, OneStream
<1>3. QED BY <1>1, <1>2 DEF LinkInv

LEMMA LinkKept == LinkInv /\ [LinkNext]_linkVars => LinkInv'
<1> SUFFICES ASSUME LinkInv, [LinkNext]_linkVars PROVE LinkInv'
  OBVIOUS
<1>0. /\ got \in Numbers /\ wire \in Numbers /\ pending \in Numbers
      /\ sent \in 0 .. Events /\ Events \in Nat
      /\ link \in {"off", "connecting", "open", "broken"}
      /\ retry \in BOOLEAN /\ stopped \in BOOLEAN /\ threw \in BOOLEAN
  BY LinkAssumption DEF LinkInv, LinkTypeOK, Numbers
<1>1. CASE Publish
  <2>1. /\ sent \in 0 .. Events - 1 /\ sent' = sent + 1
        /\ UNCHANGED <<link, retry, stopped, got>>
    BY <1>0, <1>1 DEF Publish
  <2>2. CASE /\ link = "open" /\ wire' = Append(wire, sent')
             /\ UNCHANGED <<pending, threw>>
    <3>1. LinkTypeOK'
      BY <1>0, <2>1, <2>2 DEF LinkTypeOK, Numbers
    <3>2. ASSUME OneStream PROVE OneStream'
      BY <1>0, <2>1, <2>2, <3>2, NextNumber, LaterBound, Nothing DEF OneStream
    <3>3. QED BY <2>2, <3>1, <3>2 DEF LinkInv
  <2>3. CASE UNCHANGED <<wire, pending, threw>>
    <3>1. LinkTypeOK'
      BY <1>0, <2>1, <2>3 DEF LinkTypeOK, Numbers
    <3>2. ASSUME OneStream PROVE OneStream'
      BY <1>0, <2>1, <2>3, <3>2, LaterBound DEF OneStream
    <3>3. QED BY <2>3, <3>1, <3>2 DEF LinkInv
  <2>4. CASE pending' = Append(pending, sent') /\ threw' = TRUE
             /\ UNCHANGED wire
    BY <1>0, <2>1, <2>4 DEF LinkInv, LinkTypeOK, Numbers
  <2>5. CASE /\ link \in {"off", "connecting"}
             /\ pending' = Append(pending, sent') /\ UNCHANGED <<wire, threw>>
    <3>1. LinkTypeOK'
      BY <1>0, <2>1, <2>5 DEF LinkTypeOK, Numbers
    <3>2. ASSUME OneStream PROVE OneStream'
      BY <1>0, <2>1, <2>5, <3>2, NextNumber, LaterBound DEF OneStream
    <3>3. QED BY <2>5, <3>1, <3>2 DEF LinkInv
  <2>6. QED BY <1>1, <2>2, <2>3, <2>4, <2>5 DEF Publish
<1>2. CASE LinkOpens
  <2>1. PICK n \in 0 .. Len(pending) :
          /\ wire' = wire \o SubSeq(pending, 1, n)
          /\ pending' = SubSeq(pending, n + 1, Len(pending))
          /\ threw' = (threw \/ n < Len(pending))
    BY <1>2 DEF LinkOpens, Flushed
  <2>2. link' = "open" /\ UNCHANGED <<retry, stopped, sent, got>>
    BY <1>2 DEF LinkOpens
  <2>3. PICK front \in Numbers :
          /\ front = SubSeq(pending, 1, n)
          /\ Rising(pending) => Rising(front)
          /\ \A k : UpTo(pending, k) => UpTo(front, k)
          /\ \A r \in Numbers : Before(r, pending) => Before(r, front)
    <3>1. Len(pending) \in Nat /\ 1 \in 1 .. Len(pending) + 1
      BY <1>0, NumberFacts
    <3>2. QED BY <1>0, <3>1, Shorter
  <2>4. pending' \in Numbers /\ wire' \in Numbers
    <3>1. /\ Len(pending) \in Nat /\ n + 1 \in 1 .. Len(pending) + 1
          /\ Len(pending) \in 0 .. Len(pending)
      BY <1>0, NumberFacts
    <3>2. pending' \in Numbers
      BY <1>0, <2>1, <3>1, Shorter
    <3>3. wire' = wire \o front
      BY <2>1, <2>3
    <3>4. QED BY <1>0, <2>3, <3>2, <3>3 DEF Numbers
  <2>5. LinkTypeOK'
    BY <1>0, <2>1, <2>2, <2>4 DEF LinkTypeOK, Numbers
  <2>6. ASSUME OneStream, ~threw' PROVE OneStream'
    <3>1. pending' = << >>
      <4>1. Len(pending) \in Nat /\ n = Len(pending)
        <5>1. ~(n < Len(pending))
          BY Zenon, <2>1, <2>6
        <5>2. QED BY <1>0, <5>1, NumberFacts
      <4>2. QED BY <2>1, <4>1, SubSeqEmpty
    <3>2. wire' \in Numbers /\ Rising(wire') /\ UpTo(wire', sent)
          /\ Before(got, wire')
      <4>1. /\ Rising(wire) /\ Rising(front) /\ Before(wire, front)
            /\ UpTo(wire, sent) /\ UpTo(front, sent)
            /\ Before(got, wire) /\ Before(got, front)
        BY <1>0, <2>1, <2>3, <2>6 DEF OneStream
      <4>2. wire' = wire \o front
        BY <2>1, <2>3
      <4>3. QED BY <1>0, <2>3, <4>1, <4>2, Joined
    <3>3. QED BY <2>2, <2>6, <3>1, <3>2, Nothing DEF OneStream
  <2>7. QED BY <1>0, <2>1, <2>5, <2>6 DEF LinkInv
<1>3. CASE LinkBreaks
  <2>1. PICK n \in 0 .. Len(wire) : wire' = SubSeq(wire, 1, n)
    BY <1>3 DEF LinkBreaks
  <2>2. link' = "broken" /\ UNCHANGED <<retry, stopped, pending, sent, got, threw>>
    BY <1>3 DEF LinkBreaks
  <2>3. /\ wire' \in Numbers
        /\ Rising(wire) => Rising(wire')
        /\ \A k : UpTo(wire, k) => UpTo(wire', k)
        /\ \A r \in Numbers : /\ Before(r, wire) => Before(r, wire')
                              /\ Before(wire, r) => Before(wire', r)
    <3>1. Len(wire) \in Nat /\ 1 \in 1 .. Len(wire) + 1
      BY <1>0, NumberFacts
    <3>2. QED BY <1>0, <2>1, <3>1, Shorter
  <2>4. QED BY <1>0, <2>2, <2>3 DEF LinkInv, LinkTypeOK, OneStream, Numbers
<1>4. CASE LinkClosed \/ LinkRetries
  BY <1>0, <1>4
     DEF LinkClosed, LinkRetries, Reschedules, LinkInv, LinkTypeOK, OneStream
<1>5. CASE EngineReads
  <2>1. /\ wire # << >> /\ wire' = Tail(wire) /\ got' = Append(got, Head(wire))
        /\ UNCHANGED <<link, retry, stopped, pending, sent, threw>>
    BY <1>5 DEF EngineReads
  <2>2. /\ Len(wire) \in Nat \ {0} /\ Head(wire) = wire[1]
        /\ Tail(wire) = SubSeq(wire, 2, Len(wire)) /\ wire[1] \in 1 .. Events
        /\ <<wire[1]>> \in Numbers
        /\ Len(<<wire[1]>>) = 1 /\ <<wire[1]>>[1] = wire[1]
        /\ got' = got \o <<wire[1]>>
    <3>1. /\ Len(wire) \in Nat \ {0} /\ Head(wire) = wire[1]
          /\ wire[1] \in 1 .. Events
      BY <1>0, <2>1 DEF Numbers
    <3>2. Tail(wire) = SubSeq(wire, 2, Len(wire))
      BY <1>0, <2>1 DEF Numbers
    <3>3. /\ <<wire[1]>> \in Numbers
          /\ Len(<<wire[1]>>) = 1 /\ <<wire[1]>>[1] = wire[1]
      BY <3>1 DEF Numbers
    <3>4. got' = got \o <<wire[1]>>
      <4>1. got' = Append(got, wire[1]) /\ got \in Seq(1 .. Events)
        BY <1>0, <2>1, <3>1 DEF Numbers
      <4>2. QED BY <3>1, <4>1, AppendIsConcat
    <3>5. QED BY <3>1, <3>2, <3>3, <3>4
  <2>3. PICK next \in Numbers :
          /\ next = <<wire[1]>> /\ Len(next) = 1 /\ next[1] = wire[1]
    BY <2>2
  <2>4. /\ wire' \in Numbers
        /\ Rising(wire) => Rising(wire')
        /\ \A k : UpTo(wire, k) => UpTo(wire', k)
        /\ \A r \in Numbers : /\ Before(r, wire) => Before(r, wire')
                              /\ Before(wire, r) => Before(wire', r)
    <3>1. 2 \in 1 .. Len(wire) + 1 /\ Len(wire) \in 0 .. Len(wire)
      BY <2>2
    <3>2. wire \in Numbers /\ wire' = SubSeq(wire, 2, Len(wire))
      BY <1>0, <2>1, <2>2
    <3>3. QED BY ONLY <3>1, <3>2, Shorter
  <2>5. LinkTypeOK'
    BY <1>0, <2>1, <2>2, <2>4 DEF LinkTypeOK, Numbers
  <2>6. ASSUME OneStream PROVE OneStream'
    <3>1. \A i \in 1 .. Len(wire') : wire'[i] = wire[i + 1]
                                     /\ i + 1 \in 1 .. Len(wire)
      BY <1>0, <2>1, <2>2 DEF Numbers
    <3>2. 1 \in 1 .. Len(wire)
      BY <2>2
    <3>3. /\ Rising(next) /\ Before(got, next) /\ UpTo(next, sent)
          /\ Before(next, wire') /\ Before(next, pending)
      BY <2>2, <2>3, <2>6, <3>1, <3>2 DEF OneStream, Rising, Before, UpTo
    <3>4. Rising(got') /\ UpTo(got', sent)
      <4>1. Rising(got) /\ Before(got, next) /\ UpTo(got, sent)
        BY <2>6, <3>3 DEF OneStream
      <4>2. got' = got \o next
        BY <2>2, <2>3
      <4>3. QED BY <1>0, <2>3, <3>3, <4>1, <4>2, Joined
    <3>5. Before(got', wire') /\ Before(got', pending)
      <4>1. \A i \in 1 .. Len(got') :
              \/ i \in 1 .. Len(got) /\ got'[i] = got[i]
              \/ got'[i] = wire[1]
        <5>1. got' = Append(got, wire[1]) /\ got \in Seq(1 .. Events)
          BY <1>0, <2>1, <2>2 DEF Numbers
        <5>2. /\ Len(got') = Len(got) + 1 /\ got'[Len(got) + 1] = wire[1]
              /\ \A i \in 1 .. Len(got) : got'[i] = got[i]
          BY <2>2, <5>1, AppendProperties
        <5>3. Len(got) \in Nat
          BY <5>1, LenProperties
        <5>4. \A i \in 1 .. Len(got') : i \in 1 .. Len(got) \/ i = Len(got) + 1
          BY <5>2, <5>3
        <5>5. QED BY <5>2, <5>4
      <4>2. Before(got, wire') /\ Before(got, pending)
        BY <1>0, <2>4, <2>6 DEF OneStream
      <4>3. ASSUME NEW r, Before(got, r), Before(next, r)
            PROVE  Before(got', r)
        BY <2>3, <4>1, <4>3 DEF Before
      <4>4. QED BY <3>3, <4>2, <4>3
    <3>6. QED BY <1>0, <2>1, <2>4, <2>6, <3>4, <3>5 DEF OneStream
  <2>7. QED BY <2>1, <2>5, <2>6 DEF LinkInv
<1>6. CASE LinkStops
  BY <1>0, <1>6, Nothing DEF LinkStops, LinkInv, LinkTypeOK, OneStream, Numbers
<1>7. CASE UNCHANGED linkVars
  BY <1>7 DEF linkVars, LinkInv, LinkTypeOK, OneStream
<1>8. QED BY <1>1, <1>2, <1>3, <1>4, <1>5, <1>6, <1>7 DEF LinkNext

\* Through any number of breaks, flushes and reconnects, and queues of any
\* length: unless a send threw, the engine reads events in the order they were
\* published, each at most once (publishToEngine, flushPending).
THEOREM LinkOrdered == LinkSpec => []LinkInOrder
<1>1. LinkInv => LinkInOrder
  BY DEF LinkInv, LinkTypeOK, LinkInOrder, OneStream, Rising
<1>2. QED BY LinkInitially, LinkKept, <1>1, PTL DEF LinkSpec

-----------------------------------------------------------------------------
(* CursorBuffer: an opponent is drawn where the opponent was.              *)

\* What is known of the opponent goes forward in time and in place.
Forward(s) ==
    \A i, j \in 1 .. Len(s) :
        i <= j => s[i].at <= s[j].at /\ s[i].index <= s[j].index
Past(s, now_) == \A i \in 1 .. Len(s) : s[i].at <= now_

CursorInv == CursorTypeOK /\ Forward(buf) /\ Past(buf, moment)

LEMMA CursorInitially == CursorInit => CursorInv
<1>1. CursorInit => CursorTypeOK
  BY CursorAssumption DEF CursorInit, CursorTypeOK
<1>2. CursorInit => Forward(buf) /\ Past(buf, moment)
  BY DEF CursorInit, Forward, Past
<1>3. QED BY <1>1, <1>2 DEF CursorInv

LEMMA SnapshotFacts ==
    \A s \in Snapshot : s.index \in Nat /\ s.at \in Nat
<1>1. Horizon \in Nat /\ Positions \subseteq Nat
  BY CursorAssumption
<1>2. \A s \in Snapshot : s.index \in Positions /\ s.at \in 0 .. Horizon
  BY DEF Snapshot
<1>3. \A n \in 0 .. Horizon : n \in Nat
  BY <1>1
<1>4. QED BY <1>1, <1>2, <1>3

LEMMA Least ==
    ASSUME NEW T \in SUBSET Nat, T # {}
    PROVE  \E m \in T : \A k \in T : m <= k
<1>1. PICK m \in T : \A k \in T : ~(<<k, m>> \in OpToRel(<, Nat))
  BY NatLessThanWellFounded, WFMin
<1>2. \A k \in T : ~(k < m)
  BY <1>1 DEF OpToRel
<1>3. QED BY <1>2

\* A position not behind the last one, as of now, goes on what is known.
LEMMA OneFurther ==
    ASSUME NEW s \in Seq(Snapshot), NEW t \in Nat, Forward(s), Past(s, t),
           NEW f \in Snapshot, f.at = t,
           s # << >> => s[Len(s)].index <= f.index
    PROVE  /\ Append(s, f) \in Seq(Snapshot)
           /\ Len(Append(s, f)) = Len(s) + 1
           /\ Forward(Append(s, f)) /\ Past(Append(s, f), t)
<1> DEFINE u == Append(s, f)
<1>1. /\ u \in Seq(Snapshot) /\ Len(s) \in Nat /\ Len(u) = Len(s) + 1
      /\ \A i \in 1 .. Len(s) : u[i] = s[i]
      /\ u[Len(s) + 1] = f
  OBVIOUS
<1> HIDE DEF u
<1>2. \A i \in 1 .. Len(u) : i \in 1 .. Len(s) \/ i = Len(s) + 1
  BY <1>1
<1>3. Past(u, t)
  BY <1>1, <1>2 DEF Past
<1>4. Forward(u)
  <2> SUFFICES ASSUME NEW i \in 1 .. Len(u), NEW j \in 1 .. Len(u), i <= j
               PROVE  u[i].at <= u[j].at /\ u[i].index <= u[j].index
    BY DEF Forward
  <2>1. CASE j \in 1 .. Len(s)
    <3>1. i \in 1 .. Len(s)
      BY <1>1, <2>1
    <3>2. QED BY <1>1, <2>1, <3>1 DEF Forward
  <2>2. CASE j = Len(s) + 1 /\ i \in 1 .. Len(s)
    <3>1. Len(s) \in 1 .. Len(s) /\ i <= Len(s) /\ s # << >>
      BY <1>1, <2>2
    <3>2. /\ s[i] \in Snapshot /\ s[Len(s)] \in Snapshot
          /\ s[i].index <= s[Len(s)].index /\ s[i].at <= t
      BY <2>2, <3>1 DEF Forward, Past
    <3>3. s[i].index \in Nat /\ s[Len(s)].index \in Nat /\ f.index \in Nat
      BY <3>2, SnapshotFacts
    <3>4. QED BY <1>1, <2>2, <3>1, <3>2, <3>3
  <2>3. CASE j = Len(s) + 1 /\ i = Len(s) + 1
    BY <1>1, <2>3, SnapshotFacts
  <2>4. QED BY <1>2, <2>1, <2>2, <2>3
<1>5. QED BY <1>1, <1>3, <1>4 DEF u

LEMMA OldestGone ==
    ASSUME NEW s \in Seq(Snapshot), s # << >>, NEW t, Forward(s), Past(s, t)
    PROVE  /\ Tail(s) \in Seq(Snapshot) /\ Len(Tail(s)) = Len(s) - 1
           /\ Forward(Tail(s)) /\ Past(Tail(s), t)
<1>1. /\ Tail(s) \in Seq(Snapshot)
      /\ Len(s) \in Nat \ {0} /\ Len(Tail(s)) = Len(s) - 1
      /\ \A i \in 1 .. Len(Tail(s)) : Tail(s)[i] = s[i + 1]
      /\ \A i \in 1 .. Len(Tail(s)) : i + 1 \in 1 .. Len(s)
  OBVIOUS
<1>2. Past(Tail(s), t)
  BY <1>1 DEF Past
<1>3. Forward(Tail(s))
  <2> SUFFICES ASSUME NEW i \in 1 .. Len(Tail(s)), NEW j \in 1 .. Len(Tail(s)),
                      i <= j
               PROVE  /\ Tail(s)[i].at <= Tail(s)[j].at
                      /\ Tail(s)[i].index <= Tail(s)[j].index
    BY DEF Forward
  <2>1. i + 1 <= j + 1
    BY <1>1
  <2>2. QED BY <1>1, <2>1 DEF Forward
<1>4. QED BY <1>1, <1>2, <1>3

LEMMA CursorKept == CursorInv /\ [CursorNext]_cursorVars => CursorInv'
<1> SUFFICES ASSUME CursorInv, [CursorNext]_cursorVars PROVE CursorInv'
  OBVIOUS
<1>0. /\ buf \in Seq(Snapshot) /\ Len(buf) \in Nat /\ Len(buf) <= BufferSize
      /\ moment \in 0 .. Horizon /\ moment \in Nat
      /\ BufferSize \in Nat \ {0} /\ Horizon \in Nat
      /\ Forward(buf) /\ Past(buf, moment)
  BY CursorAssumption DEF CursorInv, CursorTypeOK
<1>1. ASSUME NEW i \in Positions, OnCursorUpdate(i) PROVE CursorInv'
  <2>1. PICK f \in Snapshot : f = [index |-> i, at |-> moment]
    BY <1>0 DEF Snapshot
  <2> DEFINE s == Known(i)
  <2>2. /\ s \in Seq(Snapshot) /\ Len(s) \in Nat /\ Len(s) <= Len(buf)
        /\ Forward(s) /\ Past(s, moment)
        /\ s # << >> => s[Len(s)].index <= f.index
    <3>1. CASE buf # << >> /\ i < buf[Len(buf)].index
      <4>1. << >> \in Seq(Snapshot) /\ Len(<< >>) = 0
            /\ Forward(<< >>) /\ Past(<< >>, moment)
        BY DEF Forward, Past
      <4>2. Known(i) = << >>
        BY <3>1 DEF Known
      <4>3. QED BY <1>0, <4>1, <4>2
    <3>2. CASE ~(buf # << >> /\ i < buf[Len(buf)].index)
      <4>1. buf # << >> => buf[Len(buf)] \in Snapshot
        BY <1>0
      <4>2. buf # << >> => buf[Len(buf)].index <= i
        BY <3>2, <4>1, SnapshotFacts, CursorAssumption
      <4>3. QED BY <1>0, <2>1, <3>2, <4>2 DEF Known
    <3>3. QED BY <3>1, <3>2
  <2> DEFINE u == Append(s, f)
  <2>3. /\ u \in Seq(Snapshot) /\ Len(u) = Len(s) + 1
        /\ Forward(u) /\ Past(u, moment)
    <3>1. f.at = moment
      BY <2>1
    <3>2. QED BY <1>0, <2>2, <3>1, OneFurther
  <2>4. /\ buf' = IF Len(u) > BufferSize THEN Tail(u) ELSE u
        /\ moment' = moment
    BY <1>1, <2>1 DEF OnCursorUpdate
  <2> HIDE DEF s, u
  <2>5. u # << >> /\ Len(s) \in Nat
    BY <2>2, <2>3
  <2>6. /\ buf' \in Seq(Snapshot) /\ Len(buf') <= BufferSize
        /\ Forward(buf') /\ Past(buf', moment)
    <3>1. CASE Len(u) > BufferSize
      <4>1. buf' = Tail(u)
        BY <2>4, <3>1
      <4>2. Len(Tail(u)) = Len(u) - 1 /\ Len(u) - 1 <= BufferSize
        BY <1>0, <2>2, <2>3, <2>5
      <4>3. QED BY <2>3, <2>5, <4>1, <4>2, OldestGone
    <3>2. CASE ~(Len(u) > BufferSize)
      BY <1>0, <2>3, <2>4, <2>5, <3>2
    <3>3. QED BY <3>1, <3>2
  <2>7. QED BY <1>0, <2>4, <2>6 DEF CursorInv, CursorTypeOK
<1>2. CASE Repeated
  <2>1. buf # << >> /\ buf[Len(buf)] \in Snapshot
    BY <1>0, <1>2 DEF Repeated
  <2>2. buf[Len(buf)].index \in Positions
    BY <2>1 DEF Snapshot
  <2>3. QED BY <1>1, <1>2, <2>2 DEF Repeated
<1>3. CASE MomentPasses
  <2>1. moment' = moment + 1 /\ moment' \in 0 .. Horizon /\ buf' = buf
    BY <1>0, <1>3 DEF MomentPasses
  <2>2. \A i \in 1 .. Len(buf) : buf[i] \in Snapshot
    BY <1>0
  <2>3. Past(buf, moment + 1)
    BY <1>0, <2>2, SnapshotFacts DEF Past
  <2>4. QED BY <1>0, <2>1, <2>3 DEF CursorInv, CursorTypeOK
<1>4. CASE UNCHANGED cursorVars
  BY <1>4 DEF cursorVars, CursorInv, CursorTypeOK
<1>5. QED BY <1>1, <1>2, <1>3, <1>4 DEF CursorNext, Received

\* Somewhere on the way from s to t, spans apart, and beyond t.
LEMMA OnTheWay ==
    ASSUME NEW s \in Nat, NEW t \in Nat, s <= t,
           NEW span \in Nat \ {0}, NEW d \in 0 .. span
    PROVE  /\ s * span <= s * span + d * (t - s)
           /\ s * span + d * (t - s) <= t * span
<1>1. t - s \in Nat /\ d * (t - s) \in Nat /\ s * span \in Nat
  OBVIOUS
<1>2. d * (t - s) <= span * (t - s)
  BY <1>1
<1>3. s * span + span * (t - s) = t * span
  OBVIOUS
<1>4. QED BY <1>1, <1>2, <1>3

LEMMA NoLess ==
    ASSUME NEW a \in Nat, NEW b \in Nat, a <= b, NEW k \in Nat
    PROVE  a * k <= b * k
OBVIOUS

LEMMA ProductType == \A a, b \in Nat : a * b \in Nat
OBVIOUS

\* Between the first and the last snapshot there is a step that takes us there.
Through(s, t) ==
    {i \in 1 .. Len(s) - 1 : s[i].at <= t /\ t <= s[i + 1].at}

LEMMA StepThere ==
    ASSUME NEW s \in Seq(Snapshot), Len(s) > 1, NEW t \in Int,
           s[1].at < t, t < s[Len(s)].at
    PROVE  \E i \in Through(s, t) : \A j \in Through(s, t) : i <= j
<1> DEFINE later == {i \in 1 .. Len(s) : t < s[i].at}
<1>1. Len(s) \in Nat /\ \A i \in 1 .. Len(s) : s[i].at \in Nat
  BY SnapshotFacts
<1>2. later \in SUBSET Nat /\ Len(s) \in later
  BY <1>1
<1>3. PICK m \in later : \A k \in later : m <= k
  BY <1>2, Least
<1>4. m \in 2 .. Len(s) /\ m - 1 \notin later
  BY <1>1, <1>3
<1>5. m - 1 \in Through(s, t)
  BY <1>1, <1>3, <1>4 DEF Through
<1>6. Through(s, t) \in SUBSET Nat /\ Through(s, t) # {}
  <2>1. \A i \in 1 .. Len(s) - 1 : i \in Nat
    BY <1>1
  <2>2. Through(s, t) \subseteq 1 .. Len(s) - 1
    BY DEF Through
  <2>3. QED BY <1>5, <2>1, <2>2
<1>7. QED BY <1>6, Least

LEMMA DrawnOnTheWay == CursorInv => CursorOnTheWay
<1> SUFFICES ASSUME CursorInv, buf # << >>, NEW i \in DOMAIN buf
             PROVE  /\ buf[i].at < moment - BufferTime =>
                         Drawn[1] >= buf[i].index * Drawn[2]
                    /\ moment - BufferTime < buf[i].at /\ Len(buf) > 1 =>
                         Drawn[1] <= buf[i].index * Drawn[2]
  BY DEF CursorOnTheWay
<1> DEFINE n == Len(buf)
           target == moment - BufferTime
<1>0. /\ buf \in Seq(Snapshot) /\ n \in Nat \ {0} /\ i \in 1 .. n
      /\ moment \in Nat /\ target \in Int
      /\ Forward(buf)
      /\ BufferTime \in Nat /\ ExtrapolateMax \in Nat
  <2>1. BufferTime \in Nat /\ ExtrapolateMax \in Nat /\ Horizon \in Nat
    BY CursorAssumption
  <2>2. buf \in Seq(Snapshot) /\ moment \in 0 .. Horizon /\ Forward(buf)
    BY DEF CursorInv, CursorTypeOK
  <2>3. moment \in Nat
    BY <2>1, <2>2
  <2>4. QED BY <2>1, <2>2, <2>3
<1>1. \A j \in 1 .. n : /\ buf[j] \in Snapshot
                        /\ buf[j].index \in Nat /\ buf[j].at \in Nat
  BY <1>0, SnapshotFacts
<1>2. \A j, k \in 1 .. n :
        /\ j <= k => buf[j].at <= buf[k].at /\ buf[j].index <= buf[k].index
        /\ buf[j].at < buf[k].at => j < k
  BY <1>0, <1>1 DEF Forward
<1>3. CASE n = 1 \/ target <= buf[1].at
  <2>1. Drawn = <<buf[1].index, 1>>
    BY <1>3 DEF Drawn
  <2>2. Drawn[1] = buf[1].index /\ Drawn[2] = 1
    BY <2>1
  <2>3. 1 \in 1 .. n /\ 1 <= i
    BY <1>0
  <2>4. buf[1].at <= buf[i].at /\ buf[1].index <= buf[i].index
    BY <1>0, <1>2, <2>3
  <2>5. n = 1 => i = 1
    BY <1>0
  <2>6. buf[i].index \in Nat /\ buf[1].index \in Nat
        /\ buf[i].at \in Nat /\ buf[1].at \in Nat
    BY <1>0, <1>1, <2>3
  <2>7. QED BY <1>0, <1>3, <2>2, <2>4, <2>5, <2>6
<1>4. CASE ~(n = 1 \/ target <= buf[1].at) /\ target >= buf[n].at
  <2>1. Drawn = Beyond(buf[n - 1], buf[n], target)
    BY <1>4 DEF Drawn
  <2>2. n - 1 \in 1 .. n /\ n \in 1 .. n /\ i <= n
    <3>1. n # 1
      BY <1>4
    <3> HIDE DEF n, target
    <3>2. QED BY <1>0, <3>1
  <2>3. /\ buf[i].at <= buf[n].at /\ buf[i].index <= buf[n].index
        /\ buf[n - 1].at <= buf[n].at /\ buf[n - 1].index <= buf[n].index
    BY <1>0, <1>2, <2>2
  <2>4. /\ buf[i].index \in Nat /\ buf[n].index \in Nat
        /\ buf[n - 1].index \in Nat /\ buf[i].at \in Nat
        /\ buf[n].at \in Nat /\ buf[n - 1].at \in Nat
    BY <1>0, <1>1, <2>2
  <2>5. ~(target < buf[i].at)
    BY <1>0, <1>4, <2>3, <2>4
  <2>6. Drawn[1] >= buf[i].index * Drawn[2]
    <3> DEFINE dt == target - buf[n].at
               delta == Larger(1, buf[n].at - buf[n - 1].at)
               far == buf[n].index - buf[n - 1].index
    <3>1. dt \in Nat /\ delta \in Nat /\ far \in Nat
      <4>1. target >= buf[n].at
        BY <1>4
      <4> HIDE DEF n, target
      <4>n. \A a \in Int, b \in Nat : b <= a => a - b \in Nat
        OBVIOUS
      <4>a. dt \in Nat
        BY <1>0, <2>4, <4>1, <4>n
      <4>b. far \in Nat
        BY <2>3, <2>4, <4>n
      <4>c. buf[n].at - buf[n - 1].at \in Nat
        BY <2>3, <2>4, <4>n
      <4>2. dt \in Nat /\ far \in Nat /\ buf[n].at - buf[n - 1].at \in Nat
        BY <4>a, <4>b, <4>c
      <4>3. \A k \in Nat : Larger(1, k) \in Nat
        BY DEF Larger
      <4>4. QED BY <4>2, <4>3
    <3>2. CASE dt <= ExtrapolateMax
      <4>1. Drawn = <<buf[n].index * delta + far * dt, delta>>
        BY <2>1, <3>2 DEF Beyond
      <4>2. Drawn[1] = buf[n].index * delta + far * dt /\ Drawn[2] = delta
        BY <4>1
      <4>3. far * dt \in Nat /\ buf[n].index * delta \in Nat
            /\ buf[i].index * delta \in Nat
        <5> HIDE DEF n, dt, delta, far
        <5>1. QED BY <2>4, <3>1, ProductType
      <4>4. buf[i].index * delta <= buf[n].index * delta
        BY <2>3, <2>4, <3>1, NoLess
      <4> HIDE DEF dt, delta, far
      <4>5. QED BY <4>2, <4>3, <4>4
    <3>3. CASE ~(dt <= ExtrapolateMax)
      <4>1. Drawn = <<buf[n].index, 1>>
        BY <2>1, <3>3 DEF Beyond
      <4>2. Drawn[1] = buf[n].index /\ Drawn[2] = 1
        BY <4>1
      <4>3. QED BY <2>3, <2>4, <4>2
    <3>4. QED BY <3>2, <3>3
  <2>7. QED BY <2>5, <2>6
<1>5. CASE ~(n = 1 \/ target <= buf[1].at) /\ ~(target >= buf[n].at)
  <2>1. PICK m \in {j \in 1 .. n - 1 :
                      buf[j].at <= target /\ target <= buf[j + 1].at} :
          Drawn = Between(buf[m], buf[m + 1], target)
    <3> DEFINE steps == {j \in 1 .. n - 1 :
                           buf[j].at <= target /\ target <= buf[j + 1].at}
               m == CHOOSE j \in steps : \A k \in steps : j <= k
    <3>1. /\ n > 1 /\ 1 \in 1 .. n /\ n \in 1 .. n
          /\ buf[1].at < target /\ target < buf[n].at
      BY <1>0, <1>1, <1>5
    <3>2. m \in steps
      <4>1. \E j \in steps : \A k \in steps : j <= k
        BY <1>0, <3>1, StepThere DEF Through
      <4> HIDE DEF steps
      <4>2. QED BY <4>1
    <3>3. Drawn = Between(buf[m], buf[m + 1], target)
      BY <1>5 DEF Drawn
    <3>4. QED BY <3>2, <3>3
  <2>2. /\ m \in 1 .. n - 1 /\ m \in 1 .. n /\ m + 1 \in 1 .. n
        /\ buf[m].at <= target /\ target <= buf[m + 1].at
    BY <1>0
  <2>3. /\ buf[m].index \in Nat /\ buf[m].at \in Nat
        /\ buf[m + 1].index \in Nat /\ buf[m + 1].at \in Nat
        /\ buf[m].at <= buf[m + 1].at /\ buf[m].index <= buf[m + 1].index
    BY <1>0, <1>1, <1>2, <2>2
  <2>4. /\ buf[i].index \in Nat /\ buf[i].at \in Nat
        /\ buf[i].at < target => i <= m \/ i = m + 1
        /\ target < buf[i].at => m + 1 <= i
    <3>1. buf[i].index \in Nat /\ buf[i].at \in Nat
      BY <1>0, <1>1
    <3>2. buf[i].at < target => buf[i].at < buf[m + 1].at
      BY <1>0, <2>2, <2>3, <3>1
    <3>3. target < buf[i].at => buf[m].at < buf[i].at
      BY <1>0, <2>2, <2>3, <3>1
    <3>4. QED BY <1>0, <1>2, <2>2, <3>1, <3>2, <3>3
  <2>5. /\ buf[i].at < target => buf[i].index <= buf[m + 1].index
        /\ target < buf[i].at => buf[m + 1].index <= buf[i].index
    BY <1>0, <1>2, <2>2, <2>4
  <2> DEFINE span == buf[m + 1].at - buf[m].at
  <2>6. CASE span <= 0
    <3>1. Drawn = <<buf[m + 1].index, 1>>
      BY <2>1, <2>6 DEF Between
    <3>2. Drawn[1] = buf[m + 1].index /\ Drawn[2] = 1
      BY <3>1
    <3>3. QED BY <2>3, <2>4, <2>5, <3>2
  <2>7. CASE ~(span <= 0)
    <3> DEFINE d == target - buf[m].at
               place == buf[m].index * span
                          + d * (buf[m + 1].index - buf[m].index)
    <3>1. Drawn = <<place, span>>
      BY <2>1, <2>7 DEF Between
    <3>2. Drawn[1] = place /\ Drawn[2] = span
      BY <3>1
    <3>3. span \in Nat \ {0} /\ d \in 0 .. span
      <4>1. \A a, b \in Nat : \A c \in Int :
              a <= b /\ ~(b - a <= 0) /\ a <= c /\ c <= b =>
                b - a \in Nat \ {0} /\ c - a \in 0 .. b - a
        OBVIOUS
      <4>2. target \in Int /\ buf[m].at <= target /\ target <= buf[m + 1].at
        BY <1>0, <2>2
      <4> HIDE DEF target
      <4>3. QED BY <2>3, <2>7, <4>1, <4>2
    <3>4. buf[m].index * span <= place /\ place <= buf[m + 1].index * span
      <4> HIDE DEF span, d
      <4>1. QED BY <2>3, <3>3, OnTheWay
    <3>5. /\ buf[i].index * span \in Nat /\ buf[m].index * span \in Nat
          /\ buf[m + 1].index * span \in Nat /\ place \in Int
      <4>1. d \in Nat /\ buf[m + 1].index - buf[m].index \in Nat
        BY <2>3, <3>3
      <4> HIDE DEF span, d
      <4>2. d * (buf[m + 1].index - buf[m].index) \in Nat
        BY <4>1, ProductType
      <4>3. /\ buf[i].index * span \in Nat /\ buf[m].index * span \in Nat
            /\ buf[m + 1].index * span \in Nat
        BY <2>3, <2>4, <3>3, ProductType
      <4>4. QED BY <4>2, <4>3
    <3>6. ASSUME buf[i].at < target PROVE buf[i].index * span <= place
      <4>1. buf[i].at < buf[m + 1].at
        BY <1>0, <2>2, <2>3, <2>4, <3>6
      <4>2. i <= m
        BY <1>0, <1>2, <2>2, <4>1
      <4>3. buf[i].index <= buf[m].index
        BY <1>0, <1>2, <2>2, <4>2
      <4>4. buf[i].index * span <= buf[m].index * span
        <5> HIDE DEF span
        <5>1. QED BY <2>3, <2>4, <3>3, <4>3, NoLess
      <4> HIDE DEF place, span
      <4>5. QED BY <3>4, <3>5, <4>4
    <3>7. ASSUME target < buf[i].at PROVE place <= buf[i].index * span
      <4>1. buf[m + 1].index * span <= buf[i].index * span
        <5>1. buf[m + 1].index <= buf[i].index
          BY <2>5, <3>7
        <5> HIDE DEF span
        <5>2. QED BY <2>3, <2>4, <3>3, <5>1, NoLess
      <4> HIDE DEF place, span
      <4>2. QED BY <3>4, <3>5, <4>1
    <3> HIDE DEF place, span
    <3>8. QED BY <3>2, <3>5, <3>6, <3>7
  <2>8. QED BY <2>6, <2>7
<1>6. QED BY <1>3, <1>4, <1>5

\* Whatever updates come when, at any buffer size and delay: an opponent whose
\* place is known is not drawn behind a place passed BufferTime ago, nor, but
\* while the last step is carried on, ahead of one reached only later
\* (CursorManager.onCursorUpdate, calculateInterpolatedIndex).
THEOREM CursorTrue == CursorSpec => []CursorOnTheWay
<1>1. QED
  BY CursorInitially, CursorKept, DrawnOnTheWay, PTL DEF CursorSpec

-----------------------------------------------------------------------------
(* RateLimiter: no window sees more creations than allowed.                 *)

\* What was allowed within the window is in the record, whatever else it holds
\* still, and the record never outgrows the limit.
Recorded ==
    /\ IsFiniteSet(stamps) /\ Cardinality(stamps) <= MaxCreations
    /\ allowed \subseteq stamps
    /\ \A c \in allowed : age[c] < Window

LimitInv == LimitTypeOK /\ Recorded

LEMMA LimitInitially == LimitInit => LimitInv
BY LimitAssumption, FS_EmptySet
   DEF LimitInit, LimitInv, LimitTypeOK, Recorded

\* Pruning leaves a part of the record, with all that was allowed.
LEMMA ValidFacts ==
    LimitInv => /\ Valid \subseteq stamps /\ allowed \subseteq Valid
                /\ IsFiniteSet(Valid) /\ Cardinality(Valid) \in Nat
                /\ Cardinality(Valid) <= MaxCreations
<1> SUFFICES ASSUME LimitInv
             PROVE  /\ Valid \subseteq stamps /\ allowed \subseteq Valid
                    /\ IsFiniteSet(Valid) /\ Cardinality(Valid) \in Nat
                    /\ Cardinality(Valid) <= MaxCreations
  OBVIOUS
<1>1. Valid \subseteq stamps /\ allowed \subseteq Valid
  BY DEF LimitInv, Recorded, Valid
<1>2. IsFiniteSet(stamps) /\ Cardinality(stamps) <= MaxCreations
  BY DEF LimitInv, Recorded
<1>3. IsFiniteSet(Valid) /\ Cardinality(Valid) <= Cardinality(stamps)
  BY <1>1, <1>2, FS_Subset
<1>4. Cardinality(Valid) \in Nat /\ Cardinality(stamps) \in Nat
  BY <1>2, <1>3, FS_CardinalityType
<1>5. QED BY LimitAssumption, <1>1, <1>2, <1>3, <1>4

LEMMA LimitKept == LimitInv /\ [LimitNext]_limitVars => LimitInv'
<1> SUFFICES ASSUME LimitInv, [LimitNext]_limitVars PROVE LimitInv'
  OBVIOUS
<1>t. /\ stamps \subseteq Creations /\ allowed \subseteq Creations
      /\ age \in [Creations -> 0 .. Window]
      /\ MaxCreations \in Nat /\ Window \in Nat \ {0}
  BY LimitAssumption DEF LimitInv, LimitTypeOK
<1>v. /\ Valid \subseteq stamps /\ allowed \subseteq Valid
      /\ IsFiniteSet(Valid) /\ Cardinality(Valid) \in Nat
      /\ Cardinality(Valid) <= MaxCreations
  BY ValidFacts
<1>y. \A c \in allowed : age[c] < Window
  BY DEF LimitInv, Recorded
<1>1. CASE stamps' = Valid /\ UNCHANGED <<age, allowed>>
  BY <1>1, <1>t, <1>v, <1>y DEF LimitInv, LimitTypeOK, Recorded
<1>2. ASSUME Cardinality(Valid) < MaxCreations,
             NEW c \in Creations \ (Valid \union allowed),
             stamps' = Valid \union {c},
             age' = [age EXCEPT ![c] = 0],
             allowed' = allowed \union {c}
      PROVE  LimitInv'
  <2>1. /\ IsFiniteSet(Valid \union {c})
        /\ Cardinality(Valid \union {c}) = Cardinality(Valid) + 1
    BY <1>2, <1>v, FS_AddElement
  <2>2. IsFiniteSet(stamps') /\ Cardinality(stamps') <= MaxCreations
    BY <1>t, <1>v, <1>2, <2>1
  <2>3. allowed' \subseteq stamps' /\ stamps' \subseteq Creations
    BY <1>t, <1>v, <1>2
  <2>4. age' \in [Creations -> 0 .. Window]
    BY <1>t, <1>2
  <2>5. \A d \in allowed' : age'[d] < Window
    BY <1>t, <1>y, <1>2
  <2>6. QED BY <2>2, <2>3, <2>4, <2>5 DEF LimitInv, LimitTypeOK, Recorded
<1>3. CASE Ages
  <2>1. /\ stamps' = stamps
        /\ allowed' \subseteq allowed
        /\ \A c \in allowed' : age'[c] < Window
    BY <1>3 DEF Ages
  <2>2. age' \in [Creations -> 0 .. Window]
    BY <1>3, <1>t DEF Ages
  <2>3. QED BY <1>t, <2>1, <2>2 DEF LimitInv, LimitTypeOK, Recorded
<1>4. CASE UNCHANGED limitVars
  BY <1>4 DEF limitVars, LimitInv, LimitTypeOK, Recorded
<1>5. QED
  BY <1>1, <1>2, <1>3, <1>4 DEF LimitNext, CheckAndConsume

\* In no window are more rooms created from one address than allowed, whatever
\* the limit and the window (ip-limiter.ts).
THEOREM LimitHolds == LimitSpec => []WindowKept
<1>1. LimitInv => WindowKept
  <2> SUFFICES ASSUME LimitInv PROVE WindowKept
    OBVIOUS
  <2>1. IsFiniteSet(Valid) /\ allowed \subseteq Valid
    BY ValidFacts
  <2>2. Cardinality(allowed) <= Cardinality(Valid) /\ IsFiniteSet(allowed)
    BY <2>1, FS_Subset
  <2>3. Cardinality(allowed) \in Nat
    BY <2>2, FS_CardinalityType
  <2>4. QED BY LimitAssumption, ValidFacts, <2>2, <2>3 DEF WindowKept
<1>2. QED BY LimitInitially, LimitKept, <1>1, PTL DEF LimitSpec

-----------------------------------------------------------------------------
(* ClockSync: what is measured is off by half a round trip at most.        *)

\* The answer was stamped between the request and now.
StampedBetween ==
    stage = "back" => t0 + skew <= t1 /\ t1 <= now + skew

ClockInv == ClockTypeOK /\ StampedBetween /\ SyncIsClose

LEMMA ClockInitially == ClockInit => ClockInv
BY ClockAssumption
   DEF ClockInit, ClockInv, ClockTypeOK, StampedBetween, SyncIsClose,
       Unmeasured

\* The offset of one exchange is off by the difference of the two ways.
LEMMA OffsetClose ==
    ASSUME NEW asked \in Int, NEW stamp \in Int, NEW heard \in Int,
           NEW ahead \in Int,
           asked + ahead <= stamp, stamp <= heard + ahead
    PROVE  Apart((stamp - asked) + (stamp - heard), 2 * ahead) <= heard - asked
BY DEF Apart

LEMMA ClockKept == ClockInv /\ [ClockNext]_clockVars => ClockInv'
<1>. SUFFICES ASSUME ClockInv, [ClockNext]_clockVars PROVE ClockInv'
  OBVIOUS
<1>t. /\ skew \in Int /\ skew \in Skews /\ now \in Nat /\ t0 \in 0 .. now
      /\ t1 \in Int /\ measured \in Int /\ offset \in Int
      /\ MaxRoundTrip \in Nat
  BY ClockAssumption DEF ClockInv, ClockTypeOK
<1>. USE DEF ClockInv, ClockTypeOK, StampedBetween, SyncIsClose
<1>1. CASE Served
  BY <1>1, <1>t DEF Served
<1>2. CASE Answered
  <2>1. CASE RoundTrip <= MaxRoundTrip
    <3>1. /\ stage' = "done" /\ roundTrip' = now - t0 /\ skew' = skew
          /\ measured' = (t1 - t0) + (t1 - now) /\ offset' = measured'
          /\ UNCHANGED <<now, attempt, t0, t1>>
      BY <1>2, <1>t, <2>1 DEF Answered, RoundTrip, Offset
    <3>2. t0 + skew <= t1 /\ t1 <= now + skew
      BY <1>2 DEF Answered
    <3>3. Apart(measured', 2 * skew) <= roundTrip'
      BY <1>t, <3>1, <3>2, OffsetClose
    <3>4. roundTrip' \in 0 .. MaxRoundTrip
      BY <1>t, <2>1, <3>1 DEF RoundTrip
    <3>5. ClockTypeOK'
      BY <1>t, <3>1, <3>4
    <3>. QED BY <3>1, <3>3, <3>5
  <2>2. CASE ~(RoundTrip <= MaxRoundTrip)
    BY <1>2, <1>t, <2>2 DEF Answered, RoundTrip
  <2>. QED BY <2>1, <2>2
<1>3. CASE SyncFails
  BY <1>3, <1>t DEF SyncFails
<1>4. CASE EntersRoom
  BY <1>4, <1>t DEF EntersRoom, ClientOffset
<1>5. CASE ReloadsPage
  BY <1>5, <1>t DEF ReloadsPage, Unmeasured
<1>6. CASE ClockTicks
  BY <1>6, <1>t DEF ClockTicks
<1>7. CASE UNCHANGED clockVars
  BY <1>7 DEF clockVars
<1>. QED
  BY <1>1, <1>2, <1>3, <1>4, <1>5, <1>6, <1>7 DEF ClockNext

\* Whatever the clocks and the delays, what syncClock measures is off by at
\* most half of the round trip it measured along (clock.ts).
THEOREM SyncAccurate == ClockSpec => []SyncIsClose
<1>1. ClockInv => SyncIsClose
  BY DEF ClockInv
<1>. QED BY ClockInitially, ClockKept, <1>1, PTL DEF ClockSpec

-----------------------------------------------------------------------------
(* Standings: who finishes is placed before who does not.                  *)

\* A speed noted at time t that counts at most n characters.
Noted(s, t, n) ==
    /\ s \in Nat \X Nat /\ s[2] # 0
    /\ s[1] <= 12000 * n
    /\ s[1] = 0 \/ s[2] = t

\* What keeps a score below the bonus: keystrokes take their time, and no more
\* is right or wrong than was typed.
Pace ==
    /\ total > 0 => at > MinInterval * total
    /\ total = 0 => at = 0
    /\ right + wrong <= total
    /\ Noted(speed, at, total)

PaceInv == StandTypeOK /\ Pace

LEMMA NetWpmNoted ==
    \A r, w, t, n \in Nat : r + w <= n => Noted(NetWpm(r, w, t), t, n)
<1>. SUFFICES ASSUME NEW r \in Nat, NEW w \in Nat, NEW t \in Nat,
                     NEW n \in Nat, r + w <= n
              PROVE  Noted(NetWpm(r, w, t), t, n)
  OBVIOUS
<1>1. CASE t = 0 \/ r <= w
  <2>1. NetWpm(r, w, t) = <<0, 1>>
    BY <1>1 DEF NetWpm
  <2>. QED BY <2>1 DEF Noted
<1>2. CASE ~(t = 0 \/ r <= w)
  <2>1. NetWpm(r, w, t) = <<12000 * (r - w), t>>
    BY <1>2 DEF NetWpm
  <2>2. r - w \in Nat /\ r - w <= n /\ t \in Nat \ {0}
    BY <1>2
  <2>. QED BY <2>1, <2>2 DEF Noted
<1>. QED BY <1>1, <1>2

LEMMA PaceInitially == StandInit => PaceInv
BY StandingsAssumption DEF StandInit, PaceInv, StandTypeOK, Pace, Noted

LEMMA PaceKept == PaceInv /\ [StandNext]_standVars => PaceInv'
<1>. SUFFICES ASSUME PaceInv, [StandNext]_standVars PROVE PaceInv'
  OBVIOUS
<1>t. /\ at \in Nat /\ total \in Nat /\ right \in Nat /\ wrong \in Nat
      /\ right + wrong <= total
  BY DEF PaceInv, StandTypeOK, Pace
<1>c. MinInterval \in Nat /\ PreStart \in Nat /\ PreStart > MinInterval
      /\ MinInterval > 0 /\ Slack \in Nat
  BY StandingsAssumption
<1>1. CASE Take
  <2>1. total' = total + 1 /\ total' \in Nat
    BY <1>1, <1>t DEF Take
  <2>2. right' \in Nat /\ wrong' \in Nat /\ right' + wrong' <= total'
    BY <1>1, <1>t, <2>1 DEF Take
  <2>3. at' \in Nat /\ at' > MinInterval * total'
    <3>1. Earliest \in Nat /\ Earliest > MinInterval * (total + 1)
      <4>1. CASE total = 0
        <5>1. MinInterval * (total + 1) = MinInterval
          BY <1>c, <4>1
        <5>. QED BY <1>c, <4>1, <5>1 DEF Earliest
      <4>2. CASE total # 0
        <5>1. MinInterval * (total + 1) = MinInterval * total + MinInterval
          BY <1>c, <1>t
        <5>2. MinInterval * total \in Nat /\ at > MinInterval * total
          BY <1>c, <1>t, <4>2 DEF PaceInv, Pace
        <5>. QED BY <1>c, <1>t, <4>2, <5>1, <5>2 DEF Earliest
      <4>. QED BY <4>1, <4>2
    <3>2. at' \in Earliest .. Earliest + Slack
      BY <1>1 DEF Take
    <3>3. MinInterval * total' \in Nat
      BY <1>c, <2>1
    <3>. QED BY <1>c, <2>1, <3>1, <3>2, <3>3
  <2>4. speed' = NetWpm(right', wrong', at')
    BY <1>1 DEF Take
  <2>5. Noted(speed', at', total')
    BY <2>1, <2>2, <2>3, <2>4, NetWpmNoted
  <2>6. total' # 0
    BY <1>t, <2>1
  <2>7. StandTypeOK'
    BY <2>1, <2>2, <2>3, <2>5 DEF StandTypeOK, Noted
  <2>8. Pace'
    BY <2>2, <2>3, <2>5, <2>6 DEF Pace
  <2>. QED BY <2>7, <2>8 DEF PaceInv
<1>2. CASE Untake
  <2>1. at' = at /\ total' = total /\ speed' = speed
    BY <1>2 DEF Untake
  <2>2. right' \in Nat /\ wrong' \in Nat /\ right' + wrong' <= total
    BY <1>2, <1>t DEF Untake
  <2>3. StandTypeOK'
    BY <2>1, <2>2 DEF PaceInv, StandTypeOK
  <2>4. Pace'
    BY <2>1, <2>2 DEF PaceInv, Pace
  <2>. QED BY <2>1, <2>3, <2>4 DEF PaceInv
<1>3. CASE NewRace
  BY <1>3 DEF NewRace, PaceInv, StandTypeOK, Pace, Noted
<1>4. CASE UNCHANGED standVars
  BY <1>4 DEF standVars, PaceInv, StandTypeOK, Pace
<1>. QED BY <1>1, <1>2, <1>3, <1>4 DEF StandNext

LEMMA PaceSuffices == PaceInv => FinishersFirst
<1>. SUFFICES ASSUME PaceInv, total > 0
              PROVE  speed[1] * right < FinishBonus * speed[2] * total
  BY DEF FinishersFirst
<1>. USE DEF PaceInv, StandTypeOK, Pace, Noted
<1>1. /\ MinInterval \in Nat /\ FinishBonus \in Nat /\ FinishBonus > 0
      /\ 12000 <= FinishBonus * MinInterval
  BY StandingsAssumption, BonusAssumption
<1>2. speed[1] \in Nat /\ speed[2] \in Nat \ {0} /\ right <= total
  OBVIOUS
<1>3. CASE speed[1] = 0
  <2>1. FinishBonus * speed[2] \in Nat \ {0}
    BY <1>1, <1>2
  <2>2. FinishBonus * speed[2] * total > 0
    BY <2>1
  <2>. QED BY <1>2, <1>3, <2>2
<1>4. CASE speed[2] = at
  <2>1. speed[1] * right <= speed[1] * total
    BY <1>2
  <2>2. 12000 * total <= FinishBonus * MinInterval * total
    BY <1>1
  <2>3. FinishBonus * (MinInterval * total) < FinishBonus * at
    <3>1. MinInterval * total \in Nat /\ MinInterval * total < at
      BY <1>1
    <3>. QED BY <1>1, <3>1
  <2>4. FinishBonus * MinInterval * total = FinishBonus * (MinInterval * total)
    BY <1>1
  <2>5. speed[1] < FinishBonus * at
    BY <1>1, <1>2, <2>2, <2>3, <2>4
  <2>6. speed[1] * total < FinishBonus * at * total
    <3>1. FinishBonus * at \in Nat
      BY <1>1
    <3>. QED BY <1>2, <2>5, <3>1
  <2>. QED BY <1>1, <1>2, <1>4, <2>1, <2>6
<1>. QED BY <1>3, <1>4

\* Who does not finish is placed behind everybody who does, whatever the text,
\* the pace and the corrections (ResultsBoard.tsx).
THEOREM FinishersPlacedFirst == StandSpec => []FinishersFirst
<1>. QED BY PaceInitially, PaceKept, PaceSuffices, PTL DEF StandSpec

-----------------------------------------------------------------------------
(* Toasts: no two alike, no more than the cap, and only a shown one is timed,*)
(* under the pointer or in focus.                                           *)

LEMMA ToastInitially == ToastInit => ToastTypeOK
BY ToastAssumption DEF ToastInit, ToastTypeOK, IsInjective, Shown

\* One more at the end, and one less at the front.
LEMMA ToastAdded ==
    ASSUME ToastTypeOK, NEW t \in Notices \ Shown
    PROVE  /\ Capped(Append(toasts, t)) \in Seq(Notices)
           /\ IsInjective(Capped(Append(toasts, t)))
           /\ Len(Capped(Append(toasts, t))) <= ToastCap
<1> DEFINE longer == Append(toasts, t)
<1>1. /\ toasts \in Seq(Notices) /\ Len(toasts) \in Nat
      /\ Len(toasts) <= ToastCap /\ ToastCap \in Nat
      /\ \A i, j \in 1 .. Len(toasts) : toasts[i] = toasts[j] => i = j
      /\ \A i \in 1 .. Len(toasts) : toasts[i] # t
  BY ToastAssumption DEF ToastTypeOK, IsInjective, Shown, ToSet
<1>2. /\ longer \in Seq(Notices) /\ Len(longer) = Len(toasts) + 1
      /\ \A i \in 1 .. Len(toasts) : longer[i] = toasts[i]
      /\ longer[Len(toasts) + 1] = t
  BY <1>1
<1>3. \A i, j \in 1 .. Len(longer) : longer[i] = longer[j] => i = j
  <2>1. \A i \in 1 .. Len(longer) :
          i \in 1 .. Len(toasts) \/ i = Len(toasts) + 1
    BY <1>1, <1>2
  <2>2. QED BY <1>1, <1>2, <2>1
<1> HIDE DEF longer
<1>4. CASE Len(longer) > ToastCap
  <2>1. Capped(longer) = Tail(longer)
    BY <1>4 DEF Capped
  <2>2. longer # << >>
    BY <1>1, <1>2
  <2>3. /\ Tail(longer) \in Seq(Notices)
        /\ Len(Tail(longer)) = Len(longer) - 1
        /\ \A i \in 1 .. Len(Tail(longer)) : Tail(longer)[i] = longer[i + 1]
    BY <1>2, <2>2, HeadTailProperties
  <2>4. \A i \in 1 .. Len(Tail(longer)) : i + 1 \in 1 .. Len(longer)
    BY <1>1, <1>2, <2>3
  <2>5. \A i, j \in 1 .. Len(Tail(longer)) :
          Tail(longer)[i] = Tail(longer)[j] => i = j
    BY <1>3, <2>3, <2>4
  <2>6. IsInjective(Tail(longer))
    BY <2>3, <2>5 DEF IsInjective
  <2>7. QED BY <1>1, <1>2, <2>1, <2>3, <2>6 DEF longer
<1>5. CASE ~(Len(longer) > ToastCap)
  <2>1. Capped(longer) = longer
    BY <1>5 DEF Capped
  <2>2. IsInjective(longer)
    BY <1>2, <1>3 DEF IsInjective
  <2>3. QED BY <1>1, <1>2, <1>5, <2>1, <2>2 DEF longer
<1>6. QED BY <1>4, <1>5

\* What comes before and after the i-th of n elements.
LEMMA AroundOne ==
    ASSUME NEW S, NEW s \in Seq(S), NEW i \in 1 .. Len(s)
    PROVE  /\ SubSeq(s, 1, i - 1) \in Seq(S)
           /\ Len(SubSeq(s, 1, i - 1)) = i - 1
           /\ \A j \in 1 .. i - 1 : SubSeq(s, 1, i - 1)[j] = s[j]
           /\ SubSeq(s, i + 1, Len(s)) \in Seq(S)
           /\ Len(SubSeq(s, i + 1, Len(s))) = Len(s) - i
           /\ \A j \in 1 .. Len(s) - i :
                SubSeq(s, i + 1, Len(s))[j] = s[i + j]
<1> DEFINE n == Len(s)
           a == SubSeq(s, 1, i - 1)
           b == SubSeq(s, i + 1, n)
<1>1. n \in Nat /\ i \in 1 .. n /\ i - 1 \in Int /\ i + 1 \in Int
      /\ i \in Int
  OBVIOUS
<1>2. /\ \A j \in 1 .. i - 1 : s[j] \in S
      /\ \A j \in i + 1 .. n : s[j] \in S
  OBVIOUS
<1>3. /\ a \in Seq(S)
      /\ Len(a) = IF 1 <= i - 1 THEN (i - 1) - 1 + 1 ELSE 0
      /\ \A j \in 1 .. (i - 1) - 1 + 1 : a[j] = s[1 + j - 1]
  BY <1>1, <1>2, SubSeqProperties
<1>4. /\ b \in Seq(S)
      /\ Len(b) = IF i + 1 <= n THEN n - (i + 1) + 1 ELSE 0
      /\ \A j \in 1 .. n - (i + 1) + 1 : b[j] = s[(i + 1) + j - 1]
  BY <1>1, <1>2, SubSeqProperties
<1> HIDE DEF a, b, n
<1>5. Len(a) = i - 1 /\ Len(b) = n - i
  BY <1>1, <1>3, <1>4
<1>6. \A j \in 1 .. i - 1 : j \in 1 .. (i - 1) - 1 + 1 /\ 1 + j - 1 = j
  BY <1>1
<1>7. \A j \in 1 .. n - i : j \in 1 .. n - (i + 1) + 1
                            /\ (i + 1) + j - 1 = i + j
  BY <1>1
<1>8. /\ \A j \in 1 .. i - 1 : a[j] = s[j]
      /\ \A j \in 1 .. n - i : b[j] = s[i + j]
  BY <1>3, <1>4, <1>6, <1>7
<1>9. QED BY <1>3, <1>4, <1>5, <1>8 DEF a, b, n

\* One less somewhere: all others stay, in a place each.
LEMMA ToastRemoved ==
    ASSUME ToastTypeOK, NEW i \in DOMAIN toasts
    PROVE  /\ RemoveAt(toasts, i) \in Seq(Notices)
           /\ IsInjective(RemoveAt(toasts, i))
           /\ Len(RemoveAt(toasts, i)) <= ToastCap
           /\ \A t \in Shown \ {toasts[i]} : t \in ToSet(RemoveAt(toasts, i))
<1> DEFINE shorter == RemoveAt(toasts, i)
           n == Len(toasts)
<1>1. /\ toasts \in Seq(Notices) /\ n \in Nat /\ i \in 1 .. n
      /\ n <= ToastCap /\ ToastCap \in Nat
      /\ \A j, k \in 1 .. n : toasts[j] = toasts[k] => j = k
  BY ToastAssumption DEF ToastTypeOK, IsInjective
<1>2. shorter = SubSeq(toasts, 1, i - 1) \o SubSeq(toasts, i + 1, n)
  BY DEF RemoveAt
<1>r. /\ SubSeq(toasts, 1, i - 1) \in Seq(Notices)
      /\ Len(SubSeq(toasts, 1, i - 1)) = i - 1
      /\ \A j \in 1 .. i - 1 : SubSeq(toasts, 1, i - 1)[j] = toasts[j]
      /\ SubSeq(toasts, i + 1, Len(toasts)) \in Seq(Notices)
      /\ Len(SubSeq(toasts, i + 1, Len(toasts))) = Len(toasts) - i
      /\ \A j \in 1 .. Len(toasts) - i :
           SubSeq(toasts, i + 1, Len(toasts))[j] = toasts[i + j]
  <2>1. toasts \in Seq(Notices) /\ i \in 1 .. Len(toasts)
    BY <1>1
  <2>2. QED BY ONLY <2>1, AroundOne, Zenon
<1>3. PICK a \in Seq(Notices) :
        /\ a = SubSeq(toasts, 1, i - 1) /\ Len(a) = i - 1
        /\ \A j \in 1 .. i - 1 : a[j] = toasts[j]
  BY <1>r
<1>4. PICK b \in Seq(Notices) :
        /\ b = SubSeq(toasts, i + 1, n) /\ Len(b) = n - i
        /\ \A j \in 1 .. n - i : b[j] = toasts[i + j]
  BY <1>r
<1>5. /\ shorter \in Seq(Notices) /\ Len(shorter) = n - 1
      /\ \A j \in 1 .. i - 1 : shorter[j] = toasts[j]
      /\ \A j \in i .. n - 1 : shorter[j] = toasts[j + 1]
  <2>1. /\ shorter \in Seq(Notices)
        /\ Len(shorter) = (i - 1) + (n - i)
        /\ \A j \in 1 .. Len(shorter) : shorter[j] =
             IF j <= i - 1 THEN a[j] ELSE b[j - (i - 1)]
    <3>1. shorter = a \o b
      BY <1>2, <1>3, <1>4
    <3>2. /\ a \o b \in Seq(Notices) /\ Len(a \o b) = Len(a) + Len(b)
          /\ \A j \in 1 .. Len(a) + Len(b) : (a \o b)[j] =
               IF j <= Len(a) THEN a[j] ELSE b[j - Len(a)]
      BY ConcatProperties
    <3> HIDE DEF shorter, n
    <3>3. QED BY <1>3, <1>4, <3>1, <3>2
  <2>2. Len(shorter) = n - 1
    BY <1>1, <2>1
  <2>3. \A j \in 1 .. i - 1 : j \in 1 .. Len(shorter) /\ j <= i - 1
    BY <1>1, <2>2
  <2>4. \A j \in i .. n - 1 :
          /\ j \in 1 .. Len(shorter) /\ ~(j <= i - 1)
          /\ j - (i - 1) \in 1 .. n - i /\ i + (j - (i - 1)) = j + 1
    BY <1>1, <2>2
  <2> HIDE DEF shorter, n
  <2>5. \A j \in 1 .. i - 1 : shorter[j] = toasts[j]
    BY <1>3, <2>1, <2>3
  <2>6. \A j \in i .. n - 1 : shorter[j] = toasts[j + 1]
    <3>1. \A j \in i .. n - 1 : shorter[j] = b[j - (i - 1)]
      BY <2>1, <2>4
    <3>2. QED BY <1>4, <2>4, <3>1
  <2>7. QED BY <2>1, <2>2, <2>5, <2>6
<1>n. DOMAIN shorter = 1 .. n - 1 /\ DOMAIN toasts = 1 .. n
  BY <1>1, <1>5
<1> HIDE DEF shorter, n
<1>m. \A j \in 1 .. n - 1 :
        \/ j < i /\ j \in 1 .. n /\ shorter[j] = toasts[j]
        \/ i <= j /\ j + 1 \in 1 .. n /\ shorter[j] = toasts[j + 1]
  <2> SUFFICES ASSUME NEW j \in 1 .. n - 1
               PROVE  \/ j < i /\ j \in 1 .. n /\ shorter[j] = toasts[j]
                      \/ /\ i <= j /\ j + 1 \in 1 .. n
                         /\ shorter[j] = toasts[j + 1]
    OBVIOUS
  <2>1. \/ j < i /\ j \in 1 .. n /\ j \in 1 .. i - 1
        \/ i <= j /\ j + 1 \in 1 .. n /\ j \in i .. n - 1
    BY <1>1
  <2>2. QED BY <1>5, <2>1
<1>6. IsInjective(shorter)
  <2>1. ASSUME NEW j \in 1 .. n - 1, NEW k \in 1 .. n - 1,
               shorter[j] = shorter[k]
        PROVE  j = k
    <3>1. PICK x \in 1 .. n : /\ shorter[j] = toasts[x]
                              /\ (j < i /\ x = j) \/ (i <= j /\ x = j + 1)
      BY <1>m
    <3>2. PICK y \in 1 .. n : /\ shorter[k] = toasts[y]
                              /\ (k < i /\ y = k) \/ (i <= k /\ y = k + 1)
      BY <1>m
    <3>3. x = y
      BY <1>1, <2>1, <3>1, <3>2
    <3>4. QED BY <1>1, <3>1, <3>2, <3>3
  <2>2. QED BY <1>n, <2>1 DEF IsInjective
<1>7. ASSUME NEW t \in Shown \ {toasts[i]} PROVE t \in ToSet(shorter)
  <2>1. PICK j \in 1 .. n : t = toasts[j] /\ j # i
    BY <1>n DEF Shown, ToSet
  <2>2. CASE j < i
    <3>1. j \in 1 .. n - 1 /\ j \in 1 .. i - 1
      BY <1>1, <2>1, <2>2
    <3>2. QED BY <1>5, <1>n, <2>1, <3>1 DEF ToSet
  <2>3. CASE ~(j < i)
    <3>1. j - 1 \in 1 .. n - 1 /\ j - 1 \in i .. n - 1 /\ (j - 1) + 1 = j
      BY <1>1, <2>1, <2>3
    <3>2. shorter[j - 1] = toasts[j]
      BY <1>5, <3>1
    <3>3. QED BY <1>n, <2>1, <3>1, <3>2 DEF ToSet
  <2>4. QED BY <2>2, <2>3
<1>8. Len(shorter) <= ToastCap
  BY <1>1, <1>5
<1>9. QED BY <1>5, <1>6, <1>7, <1>8 DEF shorter

LEMMA ToastKept == ToastTypeOK /\ [ToastNext]_toastVars => ToastTypeOK'
<1> SUFFICES ASSUME ToastTypeOK, [ToastNext]_toastVars PROVE ToastTypeOK'
  OBVIOUS
<1>t. timed \subseteq Shown /\ hovered \subseteq Shown /\ focused \subseteq Shown
  BY DEF ToastTypeOK
<1>u. ASSUME UNCHANGED toasts,
             timed' \cup hovered' \cup focused' \subseteq Shown
      PROVE  ToastTypeOK'
  BY <1>u DEF ToastTypeOK, Shown
<1>1. ASSUME NEW t \in Notices, AddToast(t) PROVE ToastTypeOK'
  <2>1. CASE UNCHANGED toastVars
    BY <2>1, <1>t, <1>u DEF toastVars
  <2>2. CASE t \notin Shown /\ toasts' = Capped(Append(toasts, t))
    <3>1. /\ toasts' \in Seq(Notices) /\ IsInjective(toasts')
          /\ Len(toasts') <= ToastCap
      BY <2>2, ToastAdded
    <3>2. CASE UNCHANGED toastVars
      BY <3>2, <2>1
    <3>3. CASE timed' \cup hovered' \cup focused' \subseteq ToSet(toasts')
      BY <3>1, <3>3 DEF ToastTypeOK, Shown
    <3>4. QED BY <1>1, <2>2, <3>2, <3>3 DEF AddToast
  <2>3. QED BY <1>1, <2>1, <2>2 DEF AddToast
<1>2. ASSUME NEW t \in Notices, DismissToast(t) PROVE ToastTypeOK'
  <2>1. PICK i \in DOMAIN toasts : toasts[i] = t /\ toasts' = RemoveAt(toasts, i)
    BY <1>2 DEF DismissToast
  <2>2. /\ toasts' \in Seq(Notices) /\ IsInjective(toasts')
        /\ Len(toasts') <= ToastCap
        /\ \A s \in Shown \ {t} : s \in ToSet(toasts')
    BY <2>1, ToastRemoved
  <2>3. timed' \cup hovered' \cup focused' \subseteq Shown \ {t}
    BY <1>2, <1>t DEF DismissToast
  <2>4. QED BY <2>2, <2>3 DEF ToastTypeOK, Shown
<1>3. ASSUME NEW t \in Notices, Enters(t) PROVE ToastTypeOK'
  BY <1>3, <1>t, <1>u DEF Enters
<1>4. ASSUME NEW t \in Notices, Leaves(t) PROVE ToastTypeOK'
  BY <1>4, <1>t, <1>u DEF Leaves, Resumed
<1>5. CASE UNCHANGED toastVars
  BY <1>5, <1>t, <1>u DEF toastVars
<1>6. QED BY <1>1, <1>2, <1>3, <1>4, <1>5 DEF ToastNext, ToastExpires

-----------------------------------------------------------------------------
(* All parts together.                                                      *)

PartsInv ==
    /\ part \in Parts
    /\ LinkInv /\ ToastTypeOK /\ LimitInv /\ CursorInv /\ SoloInv /\ ClockInv
    /\ PaceInv

LEMMA PartsInitially == Init => PartsInv
BY LinkInitially, ToastInitially, LimitInitially, CursorInitially,
   Initially, ClockInitially, PaceInitially
   DEF Init, PartsInv

LEMMA PartsKept == PartsInv /\ [Next /\ part' = part]_vars => PartsInv'
<1> SUFFICES ASSUME PartsInv, [Next /\ part' = part]_vars PROVE PartsInv'
  OBVIOUS
<1>1. /\ part' = part
      /\ [LinkNext]_linkVars /\ [ToastNext]_toastVars
      /\ [LimitNext]_limitVars /\ [CursorNext]_cursorVars
      /\ [SoloNext]_soloVars /\ [ClockNext]_clockVars
      /\ [StandNext]_standVars
  BY DEF Next, vars
<1>2. QED
  BY <1>1, LinkKept, ToastKept, LimitKept, CursorKept, Kept, ClockKept,
     PaceKept
     DEF PartsInv

\* Each part keeps its types at work and at rest, whatever the constants: among
\* them that the toasts are never more than the cap nor two alike, and that
\* only a shown one has a timer, the pointer or the focus (toast.ts).
THEOREM PartsTyped == Spec => []PartsTypeOK
<1>1. PartsInv => PartsTypeOK
  BY DEF PartsInv, PartsTypeOK, LinkInv, LimitInv, CursorInv, SoloInv,
         ClockInv, PaceInv
<1>2. QED BY PartsInitially, PartsKept, <1>1, PTL DEF Spec
=============================================================================
