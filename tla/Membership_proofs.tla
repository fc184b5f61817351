--------------------------- MODULE Membership_proofs ---------------------------
(***************************************************************************)
(* Proofs about Membership, for any sockets, rooms and streams.            *)
(***************************************************************************)
EXTENDS Membership, SequenceTheorems, TLAPS

\* The type invariant in two parts: the two processes and the two streams.
StateTypes ==
    /\ sockets \subseteq Ids
    /\ roomOf \in [Ids -> Rooms \cup {None}]
    /\ audience \in [Rooms -> SUBSET Ids]
    /\ players \in [Rooms -> SUBSET Ids]
    /\ absent \in [Rooms -> SUBSET Ids]
    /\ \A r \in Rooms : absent[r] \subseteq players[r]
    /\ stale \subseteq Ids \X Rooms

StreamTypes == up \in Seq(UpEvent) /\ down \in Seq(DownEvent)

LEMMA TypeParts ==
    /\ TypeOK <=> StateTypes /\ StreamTypes
    /\ TypeOK' <=> StateTypes' /\ StreamTypes'
BY DEF TypeOK, StateTypes, StreamTypes

\* What a stream to the gateway d says of player p in room r: nothing, or, as
\* the last word, that p was assigned to it or cleared from it. A disconnect of
\* p in d makes all that void.
About(e, p, r) ==
    e.type \in {"assigned", "cleared"} /\ e.id = p /\ e.room = r
Silent(d, p, r) == \A i \in 1 .. Len(d) : ~About(d[i], p, r)
LastWord(d, p, r, ty) ==
    \E i \in 1 .. Len(d) :
        /\ About(d[i], p, r) /\ d[i].type = ty
        /\ \A j \in i + 1 .. Len(d) : ~About(d[j], p, r)
Cuts(e, p) == e.type = "disconnect" /\ e.id = p
Ended(d, p) == \E i \in 1 .. Len(d) : Cuts(d[i], p)

\* The last word about an open socket is what the room has; without a word, the
\* gateway has it already. Not so if the last word was lost.
Agreed(p, r) ==
    /\ LastWord(down, p, r, "assigned") => p \in players[r]
    /\ LastWord(down, p, r, "cleared") => p \notin players[r]
    /\ Silent(down, p, r) => (p \in audience[r] <=> p \in players[r])
Agreement ==
    \A p \in Ids, r \in Rooms :
        /\ p \in sockets /\ players[r] # {}
        /\ <<p, r>> \notin stale /\ ~Ended(down, p)
        => Agreed(p, r)

\* The gateway's two records of a socket's room agree.
TwoRecords ==
    \A p \in Ids :
        /\ p \notin sockets => roomOf[p] = None
        /\ roomOf[p] # None => p \in audience[roomOf[p]]

IInv == TypeOK /\ TwoRecords /\ Agreement

-----------------------------------------------------------------------------
(* The stream to the gateway.                                              *)

LEMMA OneMore ==
    ASSUME NEW d \in Seq(DownEvent), NEW e \in DownEvent, NEW p, NEW r
    PROVE  /\ Append(d, e) \in Seq(DownEvent)
           /\ Ended(d, p) \/ Cuts(e, p) => Ended(Append(d, e), p)
           /\ About(e, p, r) =>
                /\ ~Silent(Append(d, e), p, r)
                /\ \A ty : LastWord(Append(d, e), p, r, ty) => e.type = ty
           /\ ~About(e, p, r) =>
                /\ Silent(Append(d, e), p, r) => Silent(d, p, r)
                /\ \A ty : LastWord(Append(d, e), p, r, ty) =>
                             LastWord(d, p, r, ty)
<1> DEFINE f == Append(d, e)
<1>1. /\ f \in Seq(DownEvent)
      /\ Len(d) \in Nat /\ Len(f) = Len(d) + 1
      /\ \A i \in 1 .. Len(d) : f[i] = d[i]
      /\ f[Len(d) + 1] = e
  OBVIOUS
<1> HIDE DEF f
<1>2. Ended(d, p) \/ Cuts(e, p) => Ended(f, p)
  <2>1. Len(d) + 1 \in 1 .. Len(f) /\ 1 .. Len(d) \subseteq 1 .. Len(f)
    BY <1>1
  <2>2. QED BY <1>1, <2>1 DEF Ended
<1>3. ASSUME About(e, p, r) PROVE ~Silent(f, p, r)
  <2>1. Len(d) + 1 \in 1 .. Len(f)
    BY <1>1
  <2>2. QED BY <1>1, <1>3, <2>1 DEF Silent
<1>4. ASSUME About(e, p, r), NEW ty, LastWord(f, p, r, ty) PROVE e.type = ty
  <2>1. PICK i \in 1 .. Len(f) :
          /\ f[i].type = ty
          /\ \A j \in i + 1 .. Len(f) : ~About(f[j], p, r)
    BY <1>4 DEF LastWord
  <2>2. i = Len(d) + 1
    <3>1. i # Len(d) + 1 => Len(d) + 1 \in i + 1 .. Len(f)
      BY <1>1
    <3>2. QED BY <1>1, <1>4, <2>1, <3>1
  <2>3. QED BY <1>1, <2>1, <2>2
<1>5. Silent(f, p, r) => Silent(d, p, r)
  <2>1. 1 .. Len(d) \subseteq 1 .. Len(f)
    BY <1>1
  <2>2. QED BY <1>1, <2>1 DEF Silent
<1>6. ASSUME ~About(e, p, r), NEW ty, LastWord(f, p, r, ty)
      PROVE  LastWord(d, p, r, ty)
  <2>1. PICK i \in 1 .. Len(f) :
          /\ About(f[i], p, r) /\ f[i].type = ty
          /\ \A j \in i + 1 .. Len(f) : ~About(f[j], p, r)
    BY <1>6 DEF LastWord
  <2>2. i \in 1 .. Len(d)
    BY <1>1, <1>6, <2>1
  <2>3. \A j \in i + 1 .. Len(d) : ~About(d[j], p, r)
    <3> SUFFICES ASSUME NEW j \in i + 1 .. Len(d) PROVE ~About(d[j], p, r)
      OBVIOUS
    <3>1. j \in 1 .. Len(d) /\ j \in i + 1 .. Len(f)
      BY <1>1, <2>2
    <3>2. QED BY <1>1, <2>1, <3>1
  <2>4. About(d[i], p, r) /\ d[i].type = ty
    BY <1>1, <2>1, <2>2
  <2>5. QED BY <2>2, <2>3, <2>4 DEF LastWord
<1>7. QED BY <1>1, <1>2, <1>3, <1>4, <1>5, <1>6 DEF f

LEMMA OneLess ==
    ASSUME NEW d \in Seq(DownEvent), d # <<>>, NEW p, NEW r
    PROVE  /\ Tail(d) \in Seq(DownEvent) /\ Head(d) \in DownEvent
           /\ Ended(d, p) /\ ~Cuts(Head(d), p) => Ended(Tail(d), p)
           /\ \A ty : LastWord(Tail(d), p, r, ty) => LastWord(d, p, r, ty)
           /\ Silent(Tail(d), p, r) =>
                IF About(Head(d), p, r) THEN LastWord(d, p, r, Head(d).type)
                ELSE Silent(d, p, r)
<1> DEFINE f == Tail(d)
<1>1. /\ f \in Seq(DownEvent) /\ Head(d) \in DownEvent
      /\ Len(d) \in Nat \ {0} /\ Len(f) = Len(d) - 1
      /\ \A i \in 1 .. Len(f) : f[i] = d[i + 1]
      /\ \A i \in 2 .. Len(d) : i - 1 \in 1 .. Len(f) /\ d[i] = f[i - 1]
      /\ Head(d) = d[1]
  OBVIOUS
<1> HIDE DEF f
<1>2. ASSUME Ended(d, p), ~Cuts(d[1], p) PROVE Ended(f, p)
  <2>1. PICK i \in 1 .. Len(d) : Cuts(d[i], p)
    BY <1>2 DEF Ended
  <2>2. i \in 2 .. Len(d)
    BY <1>2, <2>1
  <2>3. QED BY <1>1, <2>1, <2>2 DEF Ended
<1>3. ASSUME NEW ty, LastWord(f, p, r, ty) PROVE LastWord(d, p, r, ty)
  <2>1. PICK i \in 1 .. Len(f) :
          /\ About(f[i], p, r) /\ f[i].type = ty
          /\ \A j \in i + 1 .. Len(f) : ~About(f[j], p, r)
    BY <1>3 DEF LastWord
  <2>2. i + 1 \in 1 .. Len(d) /\ d[i + 1] = f[i]
    BY <1>1
  <2>3. \A j \in (i + 1) + 1 .. Len(d) : ~About(d[j], p, r)
    <3> SUFFICES ASSUME NEW j \in (i + 1) + 1 .. Len(d)
                 PROVE  ~About(d[j], p, r)
      OBVIOUS
    <3>1. j \in 2 .. Len(d) /\ j - 1 \in i + 1 .. Len(f)
      BY <1>1
    <3>2. QED BY <1>1, <2>1, <3>1
  <2>4. QED BY <2>1, <2>2, <2>3 DEF LastWord
<1>4. ASSUME Silent(f, p, r), About(d[1], p, r)
      PROVE  LastWord(d, p, r, d[1].type)
  <2>1. 1 \in 1 .. Len(d)
    BY <1>1
  <2>2. \A j \in 1 + 1 .. Len(d) : ~About(d[j], p, r)
    <3> SUFFICES ASSUME NEW j \in 1 + 1 .. Len(d) PROVE ~About(d[j], p, r)
      OBVIOUS
    <3>1. j \in 2 .. Len(d)
      OBVIOUS
    <3>2. QED BY <1>1, <1>4, <3>1 DEF Silent
  <2>3. QED BY <1>4, <2>1, <2>2 DEF LastWord
<1>5. ASSUME Silent(f, p, r), ~About(d[1], p, r) PROVE Silent(d, p, r)
  <2> SUFFICES ASSUME NEW i \in 1 .. Len(d) PROVE ~About(d[i], p, r)
    BY DEF Silent
  <2>1. CASE i = 1
    BY <1>5, <2>1
  <2>2. CASE i # 1
    <3>1. i \in 2 .. Len(d)
      BY <2>2
    <3>2. QED BY <1>1, <1>5, <3>1 DEF Silent
  <2>3. QED BY <2>1, <2>2
<1>6. QED BY <1>1, <1>2, <1>3, <1>4, <1>5 DEF f

\* What is left when an end is lost that says nothing of p in r.
LEMMA EndLost ==
    ASSUME NEW d \in Seq(DownEvent), NEW n \in 0 .. Len(d), NEW p, NEW r,
           \A i \in n + 1 .. Len(d) : ~Cuts(d[i], p) /\ ~About(d[i], p, r)
    PROVE  /\ Ended(d, p) => Ended(SubSeq(d, 1, n), p)
           /\ \A ty : LastWord(SubSeq(d, 1, n), p, r, ty) =>
                        LastWord(d, p, r, ty)
           /\ Silent(SubSeq(d, 1, n), p, r) => Silent(d, p, r)
<1> DEFINE f == SubSeq(d, 1, n)
<1>1. /\ Len(d) \in Nat /\ n \in Nat /\ n <= Len(d) /\ Len(f) = n
      /\ \A i \in 1 .. n : f[i] = d[i]
  OBVIOUS
<1> HIDE DEF f
<1>2. Ended(d, p) => Ended(f, p)
  BY <1>1 DEF Ended
<1>3. ASSUME NEW ty, LastWord(f, p, r, ty) PROVE LastWord(d, p, r, ty)
  <2>1. PICK i \in 1 .. Len(f) :
          /\ About(f[i], p, r) /\ f[i].type = ty
          /\ \A j \in i + 1 .. Len(f) : ~About(f[j], p, r)
    BY <1>3 DEF LastWord
  <2>2. i \in 1 .. Len(d) /\ f[i] = d[i]
    BY <1>1
  <2>3. \A j \in i + 1 .. Len(d) : ~About(d[j], p, r)
    <3> SUFFICES ASSUME NEW j \in i + 1 .. Len(d) PROVE ~About(d[j], p, r)
      OBVIOUS
    <3>1. CASE j <= n
      BY <1>1, <2>1, <3>1
    <3>2. CASE n < j
      BY <1>1, <3>2
    <3>3. QED BY <1>1, <3>1, <3>2
  <2>4. QED BY <2>1, <2>2, <2>3 DEF LastWord
<1>4. Silent(f, p, r) => Silent(d, p, r)
  <2> SUFFICES ASSUME Silent(f, p, r), NEW i \in 1 .. Len(d)
               PROVE  ~About(d[i], p, r)
    BY DEF Silent
  <2>1. CASE i <= n
    BY <1>1, <2>1 DEF Silent
  <2>2. CASE n < i
    BY <1>1, <2>2
  <2>3. QED BY <1>1, <2>1, <2>2
<1>5. QED BY <1>2, <1>3, <1>4 DEF f

\* A stream in which nothing refers to p and r, or one without any event.
LEMMA Nothing ==
    ASSUME NEW d \in Seq(DownEvent), NEW p, NEW r, Silent(d, p, r)
    PROVE  \A ty : ~LastWord(d, p, r, ty)
BY DEF Silent, LastWord

LEMMA Delivered ==
    \A p, r : ~Ended(<<>>, p) /\ Silent(<<>>, p, r)
BY DEF Ended, Silent

\* The engine's events.
LEMMA EventTypes ==
    /\ \A p \in Ids, r \in Rooms :
         /\ Event("assigned", p, r) \in DownEvent
         /\ Event("cleared", p, r) \in DownEvent
         /\ \A q, s :
              /\ About(Event("assigned", p, r), q, s) <=> q = p /\ s = r
              /\ About(Event("cleared", p, r), q, s) <=> q = p /\ s = r
    /\ \A p \in Ids :
         /\ [type |-> "disconnect", id |-> p] \in DownEvent
         /\ Cuts([type |-> "disconnect", id |-> p], p)
         /\ \A q, s : ~About([type |-> "disconnect", id |-> p], q, s)
    /\ \A p, r : /\ Event("assigned", p, r).type = "assigned"
                 /\ Event("cleared", p, r).type = "cleared"
BY DEF Event, DownEvent, About, Cuts

-----------------------------------------------------------------------------
(* Types.                                                                  *)

LEMMA SentTypes ==
    \A p \in Ids, r \in Rooms \cup {None} :
        /\ Event("create", p, r) \in UpEvent
        /\ Event("closed", p, r) \in UpEvent
        /\ Event("leave", p, r) \in UpEvent
        /\ r \in Rooms => \A t \in {"join", "rejoin"} :
                            Event(t, p, r) \in UpEvent
BY DEF Event, UpEvent

\* The room code of a rejoin, a join or a member event is one.
LEMMA EventParts ==
    /\ \A e \in UpEvent :
         /\ e.id \in Ids /\ e.room \in Rooms \cup {None}
         /\ e.type \in {"join", "rejoin"} => e.room \in Rooms
    /\ \A e \in DownEvent :
         /\ e.id \in Ids
         /\ e.type \in {"assigned", "cleared", "disconnect"}
         /\ e.type # "disconnect" => e.room \in Rooms
BY DEF UpEvent, DownEvent

LEMMA GatewayTypes ==
    ASSUME TypeOK,
           GatewayHears \/ \E p \in Ids : Open(p) \/ Close(p) \/ Send(p)
    PROVE  TypeOK'
<1> USE TypeParts DEF rooms, gateway
<1>1. ASSUME NEW p \in Ids, RemoveSocket(p), UNCHANGED rooms,
             down' \in Seq(DownEvent)
      PROVE  TypeOK'
  <2> USE <1>1 DEF RemoveSocket
  <2>1. StateTypes'
    BY DEF StateTypes
  <2>2. up' \in Seq(UpEvent)
    BY SentTypes DEF StateTypes, StreamTypes
  <2>3. QED BY <2>1, <2>2 DEF StreamTypes
<1>2. ASSUME NEW p \in Ids, Open(p) PROVE TypeOK'
  BY <1>2 DEF Open, StateTypes, StreamTypes
<1>3. ASSUME NEW p \in Ids, Close(p) PROVE TypeOK'
  BY <1>1, <1>3 DEF Close, StreamTypes
<1>4. ASSUME NEW p \in Ids, Send(p) PROVE TypeOK'
  <2>1. up' \in Seq(UpEvent)
    <3>1. roomOf[p] \in Rooms \cup {None}
      BY DEF StateTypes
    <3>2. PICK e \in UpEvent : up' = Append(up, e)
      BY <1>4, <3>1, SentTypes DEF Send
    <3>3. QED BY <3>2 DEF StreamTypes
  <2>2. QED BY <1>4, <2>1 DEF Send, StateTypes, StreamTypes
<1>5. CASE GatewayHears
  <2>1. /\ down # <<>> /\ down' = Tail(down)
        /\ down' \in Seq(DownEvent) /\ Head(down) \in DownEvent
        /\ UNCHANGED rooms
    BY <1>5, OneLess DEF GatewayHears, StreamTypes
  <2>2. PICK e \in DownEvent : e = Head(down)
    BY <2>1
  <2>3. CASE e.type = "assigned" /\ AssignRoom(e.id, e.room)
    BY <2>1, <2>3, EventParts DEF AssignRoom, StateTypes, StreamTypes
  <2>4. CASE e.type = "cleared" /\ ClearRoom(e.id, e.room)
    BY <2>1, <2>4, EventParts DEF ClearRoom, StateTypes, StreamTypes
  <2>5. CASE RemoveSocket(e.id)
    BY <1>1, <2>1, <2>5, EventParts
  <2>6. CASE UNCHANGED <<gateway, up, stale>>
    BY <2>1, <2>6 DEF StateTypes, StreamTypes
  <2>7. QED BY <1>5, <2>2, <2>3, <2>4, <2>5, <2>6 DEF GatewayHears
<1>6. QED BY <1>2, <1>3, <1>4, <1>5

\* What a room's record becomes when players enter and leave it.
LEMMA RemoveTypes ==
    ASSUME TypeOK, NEW p \in Ids, NEW r \in Rooms, RemovePlayer(p, r)
    PROVE  /\ players' \in [Rooms -> SUBSET Ids]
           /\ absent' \in [Rooms -> SUBSET Ids]
           /\ \A s \in Rooms : absent'[s] \subseteq players'[s]
           /\ stale' \subseteq Ids \X Rooms
           /\ down' \in Seq(DownEvent)
<1>1. down' \in Seq(DownEvent)
  BY TypeParts, OneMore, EventTypes DEF RemovePlayer, StreamTypes
<1>2. QED BY <1>1, TypeParts DEF RemovePlayer, StateTypes, Told

LEMMA EngineTypes ==
    ASSUME TypeOK,
           \/ EngineHears \/ LinkBreaks \/ EngineRestart
           \/ \E p \in Ids, r \in Rooms : Evict(p, r)
    PROVE  TypeOK'
<1> USE TypeParts DEF gateway, rooms
<1>1. CASE EngineRestart
  <2>1. PICK n \in 0 .. Len(up) : up' = SubSeq(up, n + 1, Len(up))
    BY <1>1 DEF EngineRestart
  <2>2. PICK m \in 0 .. Len(down) : down' = SubSeq(down, 1, m)
    BY <1>1 DEF EngineRestart
  <2>3. StreamTypes'
    BY <2>1, <2>2, SubSeqProperties DEF StreamTypes
  <2>4. StateTypes'
    BY <1>1 DEF EngineRestart, StateTypes
  <2>5. QED BY <2>3, <2>4
<1>2. ASSUME NEW p \in Ids, NEW r \in Rooms, Evict(p, r) PROVE TypeOK'
  BY <1>2, RemoveTypes DEF Evict, StateTypes, StreamTypes
<1>3. CASE EngineHears
  <2>1. /\ up # <<>> /\ up' = Tail(up) /\ UNCHANGED gateway
        /\ up' \in Seq(UpEvent) /\ Head(up) \in UpEvent
    BY <1>3 DEF EngineHears, StreamTypes
  <2>2. PICK e \in UpEvent : e = Head(up)
    BY <2>1
  <2>3. SUFFICES /\ players' \in [Rooms -> SUBSET Ids]
                 /\ absent' \in [Rooms -> SUBSET Ids]
                 /\ \A s \in Rooms : absent'[s] \subseteq players'[s]
                 /\ stale' \subseteq Ids \X Rooms
                 /\ down' \in Seq(DownEvent)
    BY <2>1 DEF StateTypes, StreamTypes
  <2> DEFINE seated == e.room # None /\ e.id \in players[e.room]
  <2>4. CASE CreateRoom(e.id)
    <3>1. PICK r \in Rooms :
            /\ Unused(r) /\ absent' = absent
            /\ players' = [players EXCEPT ![r] = {e.id}]
            /\ down' = Append(down, Event("assigned", e.id, r))
            /\ Told(e.id, r)
      BY <2>4 DEF CreateRoom
    <3>2. down' \in Seq(DownEvent)
      BY <3>1, OneMore, EventTypes, EventParts DEF StreamTypes
    <3>3. absent[r] = {}
      BY <3>1 DEF Unused, StateTypes
    <3>4. QED BY <3>1, <3>2, <3>3, EventParts DEF StateTypes, Told
  <2>5. CASE e.type = "join" /\ AddPlayer(e.id, e.room)
    <3>1. e.id \in Ids /\ e.room \in Rooms
      BY <2>5, EventParts
    <3>2. CASE UNCHANGED <<rooms, down, stale>>
      BY <3>2 DEF StateTypes, StreamTypes
    <3>3. CASE /\ players' = [players EXCEPT ![e.room] = @ \cup {e.id}]
               /\ absent' = [absent EXCEPT ![e.room] = @ \ {e.id}]
               /\ down' = Append(down, Event("assigned", e.id, e.room))
               /\ Told(e.id, e.room)
      <4>1. down' \in Seq(DownEvent)
        BY <3>1, <3>3, OneMore, EventTypes DEF StreamTypes
      <4>2. QED BY <3>1, <3>3, <4>1 DEF StateTypes, Told
    <3>4. QED BY <2>5, <3>2, <3>3 DEF AddPlayer
  <2>6. CASE e.type = "rejoin" /\ RejoinPlayer(e.id, e.room)
    <3>1. e.id \in Ids /\ e.room \in Rooms
      BY <2>6, EventParts
    <3>2. CASE UNCHANGED <<rooms, down, stale>>
      BY <3>2 DEF StateTypes, StreamTypes
    <3>3. ASSUME NEW old \in players[e.room],
                 players' = [players EXCEPT
                               ![e.room] = (@ \ {old}) \cup {e.id}],
                 absent' = [absent EXCEPT ![e.room] = @ \ {old, e.id}],
                 down' = down \o Takeover(old, e.id, e.room),
                 Told(e.id, e.room)
          PROVE  /\ players' \in [Rooms -> SUBSET Ids]
                 /\ absent' \in [Rooms -> SUBSET Ids]
                 /\ \A s \in Rooms : absent'[s] \subseteq players'[s]
                 /\ stale' \subseteq Ids \X Rooms
                 /\ down' \in Seq(DownEvent)
      <4>1. Takeover(old, e.id, e.room) \in Seq(DownEvent)
        <5>1. PICK a \in DownEvent : a = Event("assigned", e.id, e.room)
          BY <3>1, EventTypes
        <5>2. old \in Ids
          BY <3>1 DEF StateTypes
        <5>3. PICK b \in DownEvent : b = [type |-> "disconnect", id |-> old]
          BY <5>2, EventTypes
        <5>4. <<a>> \in Seq(DownEvent) /\ <<b, a>> \in Seq(DownEvent)
          OBVIOUS
        <5>5. QED BY <5>1, <5>3, <5>4 DEF Takeover
      <4>2. QED BY <3>1, <3>3, <4>1 DEF StateTypes, StreamTypes, Told
    <3>4. QED BY <2>6, <3>2, <3>3 DEF RejoinPlayer
  <2>7. CASE seated /\ RemovePlayer(e.id, e.room)
    BY <2>7, RemoveTypes, EventParts
  <2>8. CASE seated /\ PlayerDisconnect(e.id, e.room)
    BY <2>8, EventParts DEF PlayerDisconnect, StateTypes, StreamTypes
  <2>9. CASE UNCHANGED <<rooms, down, stale>>
    BY <2>9 DEF StateTypes, StreamTypes
  <2>10. QED BY <1>3, <2>2, <2>4, <2>5, <2>6, <2>7, <2>8, <2>9
             DEF EngineHears
<1>4. CASE LinkBreaks
  <2>1. PICK n \in 0 .. Len(up), m \in 0 .. Len(up) :
          up' = SubSeq(up, 1, n) \o SubSeq(up, m + 1, Len(up))
    BY <1>4 DEF LinkBreaks
  <2>2. PICK n2 \in 0 .. Len(down) :
          /\ down' = SubSeq(down, 1, n2)
          /\ stale' = stale \cup Missed(SubSeq(down, n2 + 1, Len(down)))
    BY <1>4 DEF LinkBreaks
  <2>3. SubSeq(up, 1, n) \in Seq(UpEvent)
        /\ SubSeq(up, m + 1, Len(up)) \in Seq(UpEvent)
    BY SubSeqProperties DEF StreamTypes
  <2>4. StreamTypes'
    BY <2>1, <2>2, <2>3, SubSeqProperties DEF StreamTypes
  <2>5. Missed(SubSeq(down, n2 + 1, Len(down))) \subseteq Ids \X Rooms
    BY DEF Missed, StateTypes
  <2>6. StateTypes'
    BY <1>4, <2>2, <2>5 DEF LinkBreaks, StateTypes
  <2>7. QED BY <2>4, <2>6
<1>5. QED BY <1>1, <1>2, <1>3, <1>4

LEMMA TypeInit == Init => TypeOK
<1> SUFFICES ASSUME Init PROVE TypeOK
  OBVIOUS
<1>1. StateTypes /\ StreamTypes
  BY DEF Init, StateTypes, StreamTypes
<1>2. QED BY <1>1, TypeParts

LEMMA TypeNext == TypeOK /\ [Next]_vars => TypeOK'
<1> SUFFICES ASSUME TypeOK, [Next]_vars PROVE TypeOK'
  OBVIOUS
<1>1. CASE UNCHANGED vars
  BY <1>1, TypeParts DEF vars, StateTypes, StreamTypes
<1>2. CASE Next
  BY <1>2, GatewayTypes, EngineTypes DEF Next
<1>3. QED BY <1>1, <1>2

-----------------------------------------------------------------------------
(* The gateway's two records.                                              *)

LEMMA RecordsNext == TypeOK /\ TwoRecords /\ [Next]_vars => TwoRecords'
<1> SUFFICES ASSUME TypeOK, TwoRecords, [Next]_vars PROVE TwoRecords'
  OBVIOUS
<1> USE TypeParts, NoneAssumption
<1>1. ASSUME NEW p \in Ids, RemoveSocket(p) PROVE TwoRecords'
  BY <1>1 DEF RemoveSocket, TwoRecords, StateTypes
<1>2. ASSUME NEW p \in Ids, Open(p) PROVE TwoRecords'
  BY <1>2 DEF Open, TwoRecords
<1>3. ASSUME NEW p \in Ids, Close(p) PROVE TwoRecords'
  BY <1>1, <1>3 DEF Close
<1>4. CASE UNCHANGED gateway
  BY <1>4 DEF gateway, TwoRecords
<1>5. CASE GatewayHears
  <2>1. PICK e \in DownEvent : e = Head(down)
    BY <1>5, OneLess DEF GatewayHears, StreamTypes
  <2>2. CASE e.type = "assigned" /\ AssignRoom(e.id, e.room)
    <3>1. e.id \in Ids /\ e.room \in Rooms
      BY <2>2, EventParts
    <3>2. QED BY <2>2, <3>1 DEF AssignRoom, TwoRecords, StateTypes
  <2>3. CASE e.type = "cleared" /\ ClearRoom(e.id, e.room)
    <3>1. e.id \in Ids /\ e.room \in Rooms
      BY <2>3, EventParts
    <3>2. QED BY <2>3, <3>1 DEF ClearRoom, TwoRecords, StateTypes
  <2>4. CASE RemoveSocket(e.id)
    BY <1>1, <2>4, EventParts
  <2>5. QED BY <1>4, <1>5, <2>1, <2>2, <2>3, <2>4 DEF GatewayHears
<1>6. QED BY <1>2, <1>3, <1>4, <1>5
         DEF Next, vars, gateway, Send, Evict, EngineHears, LinkBreaks,
             EngineRestart

-----------------------------------------------------------------------------
(* Agreement.                                                              *)

\* A step that neither says anything of p in r nor changes that record.
LEMMA Carried ==
    ASSUME Agreement, NEW p \in Ids, NEW r \in Rooms,
           p \in sockets, players[r] # {}, <<p, r>> \notin stale,
           ~Ended(down, p),
           p \in audience'[r] <=> p \in audience[r],
           p \in players'[r] <=> p \in players[r],
           \A ty : LastWord(down', p, r, ty) => LastWord(down, p, r, ty),
           Silent(down', p, r) => Silent(down, p, r)
    PROVE  Agreed(p, r)'
BY DEF Agreement, Agreed

\* A step of the gateway's clients: no stream to the gateway, no room changes.
LEMMA ClientsAgree ==
    ASSUME TypeOK, Agreement, NEW p \in Ids, Open(p) \/ Close(p) \/ Send(p)
    PROVE  Agreement'
<1> USE TypeParts DEF rooms, gateway
<1> SUFFICES ASSUME NEW q \in Ids, NEW s \in Rooms,
                    q \in sockets', players'[s] # {}, <<q, s>> \notin stale',
                    ~Ended(down', q)
             PROVE  Agreed(q, s)'
  BY DEF Agreement
<1>1. down' = down /\ players' = players
  BY DEF Open, Close, RemoveSocket, Send
<1>2. CASE q \in sockets
  <2>1. q \in audience'[s] <=> q \in audience[s]
    BY <1>2 DEF Open, Close, RemoveSocket, Send, StateTypes
  <2>2. <<q, s>> \notin stale
    BY <1>2 DEF Open, Close, RemoveSocket, Send
  <2>3. QED BY <1>1, <1>2, <2>1, <2>2, Carried
<1>3. CASE q \notin sockets
  <2>1. Open(q)
    BY <1>3 DEF Open, Close, RemoveSocket, Send
  <2>2. q \notin audience'[s] /\ q \notin players'[s]
    BY <1>1, <2>1 DEF Open
  <2>3. PICK d \in Seq(DownEvent) : d = down
    BY DEF StreamTypes
  <2>4. Silent(d, q, s)
    BY <2>1, <2>3 DEF Silent, About, Open, Heard
  <2>5. \A ty : ~LastWord(d, q, s, ty)
    BY <2>4, Nothing
  <2>6. QED BY <1>1, <2>2, <2>3, <2>5 DEF Agreed
<1>4. QED BY <1>2, <1>3

LEMMA GatewayAgrees ==
    ASSUME TypeOK, Agreement, GatewayHears
    PROVE  Agreement'
<1> USE TypeParts DEF rooms, gateway
<1> SUFFICES ASSUME NEW q \in Ids, NEW s \in Rooms,
                    q \in sockets', players'[s] # {}, <<q, s>> \notin stale',
                    ~Ended(down', q)
             PROVE  Agreed(q, s)'
  BY DEF Agreement
<1>1. PICK d \in Seq(DownEvent) : d = down
  BY DEF StreamTypes
<1>2. d # <<>> /\ down' = Tail(d) /\ players' = players
  BY <1>1 DEF GatewayHears
<1>3. PICK e \in DownEvent : e = Head(d)
  BY <1>2, OneLess
<1>4. /\ Ended(d, q) /\ ~Cuts(e, q) => Ended(Tail(d), q)
      /\ \A ty : LastWord(Tail(d), q, s, ty) => LastWord(d, q, s, ty)
      /\ Silent(Tail(d), q, s) =>
           IF About(e, q, s) THEN LastWord(d, q, s, e.type)
           ELSE Silent(d, q, s)
  BY <1>2, <1>3, OneLess
<1>5. \/ e.type = "assigned" /\ AssignRoom(e.id, e.room)
      \/ e.type = "cleared" /\ ClearRoom(e.id, e.room)
      \/ e.type = "disconnect" /\ RemoveSocket(e.id)
      \/ e.type = "disconnect" /\ e.id \notin sockets
         /\ UNCHANGED <<gateway, stale>>
  BY <1>1, <1>3 DEF GatewayHears
<1>6. q \in sockets /\ ~Cuts(e, q) /\ <<q, s>> \notin stale
  BY <1>5 DEF AssignRoom, ClearRoom, RemoveSocket, Cuts
<1>7. ~Ended(down, q)
  BY <1>1, <1>2, <1>4, <1>6
<1>8. CASE About(e, q, s)
  <2>1. /\ e.type = "assigned" => q \in audience'[s]
        /\ e.type = "cleared" => q \notin audience'[s]
    BY <1>5, <1>8 DEF About, AssignRoom, ClearRoom, StateTypes
  <2>2. Agreed(q, s)
    BY <1>2, <1>6, <1>7 DEF Agreement
  <2>3. e.type \in {"assigned", "cleared"}
    BY <1>8 DEF About
  <2>4. Silent(Tail(d), q, s) => LastWord(d, q, s, e.type)
    BY <1>4, <1>8
  <2>5. Silent(Tail(d), q, s) => (q \in audience'[s] <=> q \in players'[s])
    BY <1>1, <1>2, <2>1, <2>2, <2>3, <2>4 DEF Agreed
  <2>6. QED BY <1>1, <1>2, <1>4, <2>2, <2>5 DEF Agreed
<1>9. CASE ~About(e, q, s)
  <2>1. q \in audience'[s] <=> q \in audience[s]
    <3>1. e.type # "disconnect" => e.room \in Rooms
      BY EventParts
    <3>2. QED BY <1>5, <1>6, <1>9, <3>1
             DEF About, Cuts, AssignRoom, ClearRoom, RemoveSocket, StateTypes
  <2>2. QED BY <1>1, <1>2, <1>4, <1>6, <1>7, <1>9, <2>1, Carried
<1>10. QED BY <1>8, <1>9

\* The engine assigns p to r or clears it from r, as its record has it, and the
\* other records stay; a room it has just made is one nothing refers to.
LEMMA OneSaid ==
    ASSUME TypeOK, Agreement, NEW p \in Ids, NEW r \in Rooms,
           NEW e \in DownEvent, About(e, p, r),
           \A q, s : About(e, q, s) => q = p /\ s = r,
           down' = Append(down, e), Told(p, r), UNCHANGED gateway,
           e.type = "assigned" => p \in players'[r],
           e.type = "cleared" => p \notin players'[r],
           \A q \in Ids, s \in Rooms :
               q # p \/ s # r => (q \in players'[s] <=> q \in players[s]),
           \A s \in Rooms :
               players'[s] # {} /\ players[s] = {} =>
                   audience[s] = {} /\ \A q : Silent(down, q, s)
    PROVE  Agreement'
<1> USE TypeParts DEF gateway
<1> SUFFICES ASSUME NEW q \in Ids, NEW s \in Rooms,
                    q \in sockets', players'[s] # {}, <<q, s>> \notin stale',
                    ~Ended(down', q)
             PROVE  Agreed(q, s)'
  BY DEF Agreement
<1>1. PICK d \in Seq(DownEvent) : d = down
  BY DEF StreamTypes
<1>2. down' = Append(d, e) /\ q \in sockets /\ audience' = audience
  BY <1>1
<1>3. /\ Ended(d, q) => Ended(Append(d, e), q)
      /\ About(e, q, s) =>
           /\ ~Silent(Append(d, e), q, s)
           /\ \A ty : LastWord(Append(d, e), q, s, ty) => e.type = ty
      /\ ~About(e, q, s) =>
           /\ Silent(Append(d, e), q, s) => Silent(d, q, s)
           /\ \A ty : LastWord(Append(d, e), q, s, ty) =>
                        LastWord(d, q, s, ty)
  BY OneMore
<1>4. CASE q = p /\ s = r
  BY <1>2, <1>3, <1>4 DEF Agreed
<1>5. CASE q # p \/ s # r
  <2>1. /\ ~About(e, q, s) /\ (q \in players'[s] <=> q \in players[s])
        /\ <<q, s>> \notin stale
    BY <1>5 DEF Told
  <2>2. CASE players[s] # {}
    BY <1>1, <1>2, <1>3, <2>1, <2>2, Carried
  <2>3. CASE players[s] = {}
    <3>1. audience[s] = {} /\ Silent(d, q, s)
      BY <1>1, <2>3
    <3>2. \A ty : ~LastWord(d, q, s, ty)
      BY <3>1, Nothing
    <3>3. QED BY <1>2, <1>3, <2>1, <2>3, <3>1, <3>2 DEF Agreed
  <2>4. QED BY <2>2, <2>3
<1>6. QED BY <1>4, <1>5

LEMMA RemoveAgrees ==
    ASSUME TypeOK, Agreement, NEW p \in Ids, NEW r \in Rooms,
           RemovePlayer(p, r), UNCHANGED gateway
    PROVE  Agreement'
<1> USE TypeParts
<1>1. PICK e \in DownEvent :
        /\ e = Event("cleared", p, r) /\ e.type = "cleared" /\ About(e, p, r)
        /\ \A q, s : About(e, q, s) => q = p /\ s = r
  BY EventTypes
<1>2. /\ down' = Append(down, e) /\ Told(p, r)
      /\ players' = [players EXCEPT ![r] = @ \ {p}]
  BY <1>1 DEF RemovePlayer
<1>3. /\ p \notin players'[r]
      /\ \A q \in Ids, s \in Rooms :
           q # p \/ s # r => (q \in players'[s] <=> q \in players[s])
      /\ \A s \in Rooms : players'[s] # {} => players[s] # {}
  BY <1>2 DEF StateTypes
<1>4. QED BY <1>1, <1>2, <1>3, OneSaid

\* The old socket is told to go, so that nothing said of it matters.
LEMMA TakeoverAgrees ==
    ASSUME TypeOK, Agreement, NEW p \in Ids, NEW r \in Rooms,
           NEW old \in players[r], UNCHANGED gateway,
           players' = [players EXCEPT ![r] = (@ \ {old}) \cup {p}],
           down' = down \o Takeover(old, p, r), Told(p, r)
    PROVE  Agreement'
<1> USE TypeParts
<1>1. PICK e \in DownEvent :
        /\ e = Event("assigned", p, r) /\ e.type = "assigned"
        /\ About(e, p, r)
        /\ \A q, s : About(e, q, s) => q = p /\ s = r
  BY EventTypes
<1>2. PICK d \in Seq(DownEvent) : d = down
  BY DEF StreamTypes
<1>3. /\ p \in players'[r] /\ old \in Ids
      /\ \A q \in Ids \ {old}, s \in Rooms :
           q # p \/ s # r => (q \in players'[s] <=> q \in players[s])
      /\ \A s \in Rooms : players'[s] # {} => players[s] # {}
  BY DEF StateTypes
<1>4. CASE old = p
  <2>1. down' = Append(down, e)
    BY <1>1, <1>2, <1>4 DEF Takeover
  <2>2. \A q \in Ids, s \in Rooms :
          q # p \/ s # r => (q \in players'[s] <=> q \in players[s])
    BY <1>4 DEF StateTypes
  <2>3. QED BY <1>1, <1>3, <2>1, <2>2, OneSaid
<1>5. CASE old # p
  <2>1. PICK c \in DownEvent :
          /\ c = [type |-> "disconnect", id |-> old] /\ Cuts(c, old)
          /\ \A q, s : ~About(c, q, s)
    BY <1>3, EventTypes
  <2>2. PICK f \in Seq(DownEvent) : f = Append(d, c)
    BY OneMore
  <2>3. down' = Append(f, e)
    <3>1. down' = d \o <<c, e>>
      BY <1>1, <1>2, <1>5, <2>1 DEF Takeover
    <3>2. QED BY <2>2, <3>1
  <2> SUFFICES ASSUME NEW q \in Ids, NEW s \in Rooms,
                      q \in sockets', players'[s] # {},
                      <<q, s>> \notin stale', ~Ended(down', q)
               PROVE  Agreed(q, s)'
    BY DEF Agreement
  <2>4. /\ Ended(d, q) \/ Cuts(c, q) => Ended(f, q)
        /\ Silent(f, q, s) => Silent(d, q, s)
        /\ \A ty : LastWord(f, q, s, ty) => LastWord(d, q, s, ty)
    <3>1. ~About(c, q, s)
      BY <2>1
    <3>2. /\ Ended(d, q) \/ Cuts(c, q) => Ended(Append(d, c), q)
          /\ ~About(c, q, s) =>
               /\ Silent(Append(d, c), q, s) => Silent(d, q, s)
               /\ \A ty : LastWord(Append(d, c), q, s, ty) =>
                            LastWord(d, q, s, ty)
      BY OneMore
    <3>3. QED BY <2>2, <3>1, <3>2
  <2>5. /\ Ended(f, q) => Ended(Append(f, e), q)
        /\ About(e, q, s) =>
             /\ ~Silent(Append(f, e), q, s)
             /\ \A ty : LastWord(Append(f, e), q, s, ty) => e.type = ty
        /\ ~About(e, q, s) =>
             /\ Silent(Append(f, e), q, s) => Silent(f, q, s)
             /\ \A ty : LastWord(Append(f, e), q, s, ty) =>
                          LastWord(f, q, s, ty)
    BY OneMore
  <2>6. q # old /\ ~Ended(d, q)
    BY <2>1, <2>3, <2>4, <2>5
  <2>7. CASE q = p /\ s = r
    BY <1>1, <1>3, <2>3, <2>5, <2>7 DEF Agreed
  <2>8. CASE q # p \/ s # r
    <3>1. ~About(e, q, s) /\ (q \in players'[s] <=> q \in players[s])
      BY <1>1, <1>3, <2>6, <2>8
    <3>2. /\ q \in sockets /\ audience' = audience /\ players[s] # {}
          /\ <<q, s>> \notin stale
      BY <1>3, <2>8 DEF gateway, Told
    <3>3. QED BY <1>2, <2>3, <2>4, <2>5, <2>6, <3>1, <3>2, Carried
  <2>9. QED BY <2>7, <2>8
<1>6. QED BY <1>4, <1>5

\* What the link loses, the gateway is excused from.
LEMMA LinkAgrees ==
    ASSUME TypeOK, Agreement, LinkBreaks
    PROVE  Agreement'
<1> USE TypeParts DEF gateway, rooms
<1> SUFFICES ASSUME NEW q \in Ids, NEW s \in Rooms,
                    q \in sockets', players'[s] # {}, <<q, s>> \notin stale',
                    ~Ended(down', q)
             PROVE  Agreed(q, s)'
  BY DEF Agreement
<1>1. PICK d \in Seq(DownEvent) : d = down
  BY DEF StreamTypes
<1>2. PICK n \in 0 .. Len(d) :
        /\ down' = SubSeq(d, 1, n)
        /\ stale' = stale \cup Missed(SubSeq(d, n + 1, Len(d)))
  BY <1>1 DEF LinkBreaks
<1>3. UNCHANGED <<gateway, rooms>>
  BY DEF LinkBreaks
<1>4. \A i \in n + 1 .. Len(d) : ~Cuts(d[i], q) /\ ~About(d[i], q, s)
  <2> SUFFICES ASSUME NEW i \in n + 1 .. Len(d)
               PROVE  ~Cuts(d[i], q) /\ ~About(d[i], q, s)
    OBVIOUS
  <2>1. PICK c : c = SubSeq(d, n + 1, Len(d))
    OBVIOUS
  <2>2. i - n \in DOMAIN c /\ c[i - n] = d[i]
    BY <2>1
  <2>3. d[i] \in Heard(c)
    BY <2>2 DEF Heard
  <2>4. <<q, s>> \in sockets \X Rooms /\ <<q, s>> \notin Missed(c)
    BY <1>2, <1>3, <2>1
  <2>5. ~(d[i].id = q /\ (d[i].type = "disconnect" \/ d[i].room = s))
    BY <2>3, <2>4 DEF Missed
  <2>6. QED BY <2>5 DEF Cuts, About
<1>5. /\ Ended(d, q) => Ended(SubSeq(d, 1, n), q)
      /\ \A ty : LastWord(SubSeq(d, 1, n), q, s, ty) => LastWord(d, q, s, ty)
      /\ Silent(SubSeq(d, 1, n), q, s) => Silent(d, q, s)
  BY <1>4, EndLost
<1>6. QED BY <1>1, <1>2, <1>3, <1>5, Carried

LEMMA EngineAgrees ==
    ASSUME TypeOK, Agreement,
           \/ EngineHears \/ LinkBreaks \/ EngineRestart
           \/ \E p \in Ids, r \in Rooms : Evict(p, r)
    PROVE  Agreement'
<1> USE TypeParts
<1>1. CASE EngineRestart
  BY <1>1 DEF EngineRestart, Agreement
<1>2. ASSUME NEW p \in Ids, NEW r \in Rooms, Evict(p, r) PROVE Agreement'
  BY <1>2, RemoveAgrees DEF Evict
<1>3. CASE EngineHears
  <2>1. PICK e \in UpEvent : e = Head(up) /\ UNCHANGED gateway
    BY <1>3 DEF EngineHears, StreamTypes
  <2> DEFINE seated == e.room # None /\ e.id \in players[e.room]
  <2>2. CASE players' = players /\ down' = down /\ stale' = stale
    BY <2>1, <2>2 DEF Agreement, Agreed, gateway
  <2>3. CASE CreateRoom(e.id)
    <3>1. PICK r \in Rooms :
            /\ Unused(r)
            /\ players' = [players EXCEPT ![r] = {e.id}]
            /\ down' = Append(down, Event("assigned", e.id, r))
            /\ Told(e.id, r)
      BY <2>3 DEF CreateRoom
    <3>2. e.id \in Ids
      BY EventParts
    <3>3. PICK a \in DownEvent :
            /\ a = Event("assigned", e.id, r) /\ a.type = "assigned"
            /\ About(a, e.id, r)
            /\ \A q, s : About(a, q, s) => q = e.id /\ s = r
      BY <3>2, EventTypes
    <3>4. audience[r] = {} /\ \A q : Silent(down, q, r)
      BY <3>1 DEF Unused, Silent, About, Heard, StreamTypes
    <3>5. /\ e.id \in players'[r]
          /\ \A q \in Ids, s \in Rooms :
               q # e.id \/ s # r => (q \in players'[s] <=> q \in players[s])
          /\ \A s \in Rooms : players'[s] # {} /\ players[s] = {} => s = r
      BY <3>1 DEF Unused, StateTypes
    <3>6. QED BY <2>1, <3>1, <3>2, <3>3, <3>4, <3>5, OneSaid
  <2>4. CASE e.type = "join" /\ AddPlayer(e.id, e.room)
    <3>1. e.id \in Ids /\ e.room \in Rooms
      BY <2>4, EventParts
    <3>2. CASE UNCHANGED <<rooms, down, stale>>
      BY <2>2, <3>2 DEF rooms
    <3>3. CASE /\ players[e.room] # {}
               /\ players' = [players EXCEPT ![e.room] = @ \cup {e.id}]
               /\ down' = Append(down, Event("assigned", e.id, e.room))
               /\ Told(e.id, e.room)
      <4>1. PICK a \in DownEvent :
              /\ a = Event("assigned", e.id, e.room) /\ a.type = "assigned"
              /\ About(a, e.id, e.room)
              /\ \A q, s : About(a, q, s) => q = e.id /\ s = e.room
        BY <3>1, EventTypes
      <4>2. /\ e.id \in players'[e.room]
            /\ \A q \in Ids, s \in Rooms :
                 q # e.id \/ s # e.room =>
                     (q \in players'[s] <=> q \in players[s])
            /\ \A s \in Rooms : players'[s] # {} => players[s] # {}
        BY <3>1, <3>3 DEF StateTypes
      <4>3. QED BY <2>1, <3>1, <3>3, <4>1, <4>2, OneSaid
    <3>4. QED BY <2>4, <3>2, <3>3 DEF AddPlayer
  <2>5. CASE e.type = "rejoin" /\ RejoinPlayer(e.id, e.room)
    <3>1. e.id \in Ids /\ e.room \in Rooms
      BY <2>5, EventParts
    <3>2. CASE UNCHANGED <<rooms, down, stale>>
      BY <2>2, <3>2 DEF rooms
    <3>3. QED BY <2>1, <2>5, <3>1, <3>2, TakeoverAgrees DEF RejoinPlayer
  <2>6. CASE seated /\ RemovePlayer(e.id, e.room)
    BY <2>1, <2>6, RemoveAgrees, EventParts
  <2>7. CASE seated /\ PlayerDisconnect(e.id, e.room)
    BY <2>2, <2>7 DEF PlayerDisconnect
  <2>8. QED BY <1>3, <2>1, <2>2, <2>3, <2>4, <2>5, <2>6, <2>7
           DEF EngineHears, rooms
<1>4. QED BY <1>1, <1>2, <1>3, LinkAgrees

-----------------------------------------------------------------------------
(* The theorems.                                                           *)

LEMMA IInvInit == Init => IInv
<1> SUFFICES ASSUME Init PROVE IInv
  OBVIOUS
<1>1. TwoRecords /\ Agreement
  BY DEF Init, TwoRecords, Agreement
<1>2. QED BY <1>1, TypeInit DEF IInv

LEMMA IInvNext == IInv /\ [Next]_vars => IInv'
<1> SUFFICES ASSUME IInv, [Next]_vars PROVE IInv'
  OBVIOUS
<1>1. TypeOK /\ Agreement
  BY DEF IInv
<1>2. CASE Next
  <2>1. Agreement'
    BY <1>1, <1>2, ClientsAgree, GatewayAgrees, EngineAgrees DEF Next
  <2>2. QED BY <1>2, <2>1, TypeNext, RecordsNext DEF IInv
<1>3. CASE UNCHANGED vars
  <2>1. Agreement'
    BY <1>1, <1>3 DEF vars, Agreement, Agreed
  <2>2. QED BY <1>3, <2>1, TypeNext, RecordsNext DEF IInv
<1>4. QED BY <1>2, <1>3

LEMMA Inductive == Spec => []IInv
BY IInvInit, IInvNext, PTL DEF Spec

\* Engine, gateway and the streams keep their types, and only players of a room
\* count as absent from it (RoomManager, ClientManager).
THEOREM TypeCorrect == Spec => []TypeOK
BY Inductive, PTL DEF IInv

LEMMA InStep == IInv => AudienceInStep
<1> SUFFICES ASSUME IInv, down = <<>>, NEW p \in sockets, NEW r \in Rooms,
                    <<p, r>> \notin stale
             PROVE  /\ p \in players[r] => p \in audience[r]
                    /\ p \in audience[r] =>
                         p \in players[r] \/ players[r] = {}
  BY DEF AudienceInStep
<1>1. p \in Ids
  BY TypeParts DEF IInv, StateTypes
<1>2. players[r] # {} => (p \in audience[r] <=> p \in players[r])
  BY <1>1, Delivered DEF IInv, Agreement, Agreed
<1>3. QED BY <1>2

\* However joins, takeovers, leaves, evictions, closes, breaks of the link and
\* restarts of the engine cross on the streams: once the gateway has handled the
\* engine's events, a room's broadcasts reach the open sockets of its players and
\* no others, except those whose last word the link lost (assignRoom, clearRoom,
\* removeSocket, bindBridgeToGateway).
THEOREM AudienceSafe == Spec => []AudienceInStep
BY Inductive, InStep, PTL

\* The room the gateway stamps on a client's messages is then one it is in, so
\* that a leave or a close reaches the right record.
THEOREM RoomCodeSafe == Spec => []RoomCodeTrue
<1>1. IInv => RoomCodeTrue
  <2> SUFFICES ASSUME IInv, down = <<>>, NEW p \in sockets,
                      roomOf[p] # None, <<p, roomOf[p]>> \notin stale
               PROVE  p \in players[roomOf[p]] \/ players[roomOf[p]] = {}
    BY DEF RoomCodeTrue
  <2>1. p \in Ids /\ roomOf[p] \in Rooms
    BY TypeParts DEF IInv, StateTypes
  <2>2. p \in audience[roomOf[p]]
    BY <2>1 DEF IInv, TwoRecords
  <2>3. QED BY <2>1, <2>2, InStep DEF AudienceInStep
<1>2. QED BY <1>1, Inductive, PTL
=============================================================================
