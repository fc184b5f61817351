------------------------------ MODULE Tabs_proofs ------------------------------
(***************************************************************************)
(* Proofs about Tabs, for any number of tabs and frames under way, with    *)
(* engine and gateway in one process or in two.                            *)
(***************************************************************************)
EXTENDS Tabs, TLAPS

\* The type invariant in three parts: client, page and server; the channels.
ClientTypes ==
    /\ conn \in [Tabs -> {"off", "connecting", "open", "closed"}]
    /\ retry \subseteq Tabs /\ rejoining \subseteq Tabs
    /\ relax \subseteq Tabs /\ taken \subseteq Tabs
    /\ pend \in [Tabs -> {"nobody", "mount", "reclaim"}]

PageTypes ==
    /\ banner \subseteq Tabs /\ hash \subseteq Tabs /\ cookie \in BOOLEAN
    /\ shown \in [Tabs -> SUBSET {"room", "passage", "countdown", "results"}]

ServerTypes ==
    /\ late \in BOOLEAN
    /\ phase \in Phases
    /\ seat \in Tabs \cup {"empty", "absent"}
    /\ joined \subseteq Tabs /\ loose \subseteq joined

Clear(s) == \A i \in 1 .. Len(s) : s[i].type \notin Closing
Ordered(s) == \A i \in 1 .. Len(s) - 1 : s[i].type \notin Closing

Channels ==
    /\ down \in [Tabs -> Seq(Frames)]
    /\ \A t \in Tabs : conn[t] # "open" => down[t] = << >>
    /\ \A t \in Tabs : Ordered(down[t])

LEMMA TypeParts ==
    /\ TypeOK <=> ClientTypes /\ PageTypes /\ ServerTypes /\ Channels
    /\ TypeOK' <=> ClientTypes' /\ PageTypes' /\ ServerTypes' /\ Channels'
BY Zenon DEF TypeOK, ClientTypes, PageTypes, ServerTypes, Channels, Ordered

\* The tab that has the seat has it over a socket nothing is about to close.
SeatReached == \A t \in Tabs : seat = t => Reaches(t)

\* Only an open socket counts as given the seat.
NotYet == \A t \in joined : conn[t] = "open"

\* Who was told of a takeover says so, and waits for a click.
TakenTold == taken \subseteq banner \ rejoining

\* A page without a socket is about to reconnect, or was told of a takeover.
ClosedWaits == \A t \in Tabs : conn[t] = "closed" => t \in retry \cup taken

Seating == SeatReached /\ OneHolder
Waiting == TakenTold /\ ClosedWaits

IInv == TypeOK /\ Seating /\ NotYet /\ Waiting

-----------------------------------------------------------------------------
(* Channels.                                                               *)

LEMMA FrameType ==
    \A ty \in FrameTypes : Frame(ty) \in Frames /\ Frame(ty).type = ty
BY DEF Frame, Frames, Phases

LEMMA EmptyChannel == Clear(<< >>) /\ Ordered(<< >>) /\ << >> \in Seq(Frames)
BY DEF Clear, Ordered

\* A frame other than one that closes leaves a channel clear; such a one ends it.
LEMMA SendOne ==
    ASSUME NEW s \in Seq(Frames), NEW f \in Frames, Clear(s)
    PROVE  /\ s \o <<f>> \in Seq(Frames)
           /\ Ordered(s \o <<f>>)
           /\ Clear(s \o <<f>>) <=> f.type \notin Closing
<1>1. /\ s \o <<f>> \in Seq(Frames)
      /\ Len(s \o <<f>>) = Len(s) + 1
      /\ Len(s) \in Nat
      /\ \A i \in 1 .. Len(s) : (s \o <<f>>)[i] = s[i]
      /\ (s \o <<f>>)[Len(s) + 1] = f
  OBVIOUS
<1>2. QED BY <1>1 DEF Clear, Ordered

LEMMA SendEvicted ==
    ASSUME NEW s \in Seq(Frames), Clear(s)
    PROVE  /\ s \o Evicted \in Seq(Frames)
           /\ Ordered(s \o Evicted)
           /\ ~Clear(s \o Evicted)
<1> DEFINE a == Frame("taken")
           b == Frame("disconnect")
<1>1. /\ a \in Frames /\ a.type \notin Closing
      /\ b \in Frames /\ b.type \in Closing
  BY FrameType DEF FrameTypes, Closing
<1> HIDE DEF a, b
<1>2. Evicted = <<a, b>>
  BY DEF a, b, Evicted
<1>3. /\ s \o <<a, b>> \in Seq(Frames)
      /\ Len(s \o <<a, b>>) = Len(s) + 2
      /\ Len(s) \in Nat
      /\ \A i \in 1 .. Len(s) : (s \o <<a, b>>)[i] = s[i]
      /\ (s \o <<a, b>>)[Len(s) + 1] = a
      /\ (s \o <<a, b>>)[Len(s) + 2] = b
  BY <1>1
<1>4. QED BY <1>1, <1>2, <1>3 DEF Clear, Ordered

\* Receiving anything but a closing frame keeps the rest as clear as it was.
LEMMA ReceiveOne ==
    ASSUME NEW s \in Seq(Frames), s # << >>, Ordered(s),
           Head(s).type \notin Closing
    PROVE  Tail(s) \in Seq(Frames) /\ Ordered(Tail(s))
           /\ (Clear(Tail(s)) <=> Clear(s))
<1>1. /\ Tail(s) \in Seq(Frames)
      /\ Len(s) \in Nat /\ Len(s) > 0
      /\ Len(Tail(s)) = Len(s) - 1
      /\ \A i \in 1 .. Len(s) - 1 : Tail(s)[i] = s[i + 1]
      /\ Head(s) = s[1]
  OBVIOUS
<1>2. Ordered(Tail(s))
  BY <1>1 DEF Ordered
<1>3. ASSUME Clear(s) PROVE Clear(Tail(s))
  BY <1>1, <1>3 DEF Clear
<1>4. ASSUME Clear(Tail(s)) PROVE Clear(s)
  <2> SUFFICES ASSUME NEW i \in 1 .. Len(s) PROVE s[i].type \notin Closing
    BY DEF Clear
  <2>1. CASE i = 1
    BY <1>1, <2>1
  <2>2. CASE i # 1
    <3>1. i - 1 \in 1 .. Len(Tail(s)) /\ Tail(s)[i - 1] = s[i]
      BY <1>1, <2>2
    <3>2. QED BY <3>1, <1>4 DEF Clear
  <2>3. QED BY <2>1, <2>2
<1>5. QED BY <1>1, <1>2, <1>3, <1>4

\* What is left when the end of a channel is lost.
LEMMA LoseEnd ==
    ASSUME NEW s \in Seq(Frames), NEW n \in 1 .. Len(s), Ordered(s)
    PROVE  /\ SubSeq(s, 1, n - 1) \in Seq(Frames)
           /\ Ordered(SubSeq(s, 1, n - 1))
           /\ Clear(SubSeq(s, 1, n - 1))
<1>1. /\ SubSeq(s, 1, n - 1) \in Seq(Frames)
      /\ Len(SubSeq(s, 1, n - 1)) = n - 1
      /\ \A i \in 1 .. n - 1 : SubSeq(s, 1, n - 1)[i] = s[i]
  OBVIOUS
<1>2. \A i \in 1 .. n - 1 : s[i].type \notin Closing
  BY DEF Ordered
<1>3. QED BY <1>1, <1>2 DEF Ordered, Clear

LEMMA ReachesClear ==
    /\ \A t \in Tabs : Reaches(t) <=> conn[t] = "open" /\ Clear(down[t])
    /\ \A t \in Tabs : Reaches(t)' <=> conn'[t] = "open" /\ Clear(down'[t])
BY DEF Reaches, Awaits, Clear

\* What one entry of conn and of down becomes, and that the others stay.
LEMMA ConnSet ==
    ASSUME ClientTypes, NEW t \in Tabs, NEW c, conn' = [conn EXCEPT ![t] = c]
    PROVE  conn'[t] = c /\ \A u \in Tabs \ {t} : conn'[u] = conn[u]
BY DEF ClientTypes

LEMMA DownSet ==
    ASSUME Channels, NEW t \in Tabs, NEW s, down' = [down EXCEPT ![t] = s]
    PROVE  /\ down'[t] = s /\ \A u \in Tabs \ {t} : down'[u] = down[u]
           /\ down' = [u \in Tabs |-> down'[u]]
BY DEF Channels

-----------------------------------------------------------------------------
(* The seat.                                                               *)

\* A step that serves no tab anew keeps the holder, if the seat stays or goes.
LEMMA HolderKept ==
    ASSUME TypeOK, Seating,
           \A u \in Tabs : Served(u)' => Served(u),
           \A u \in Tabs : Served(u)' /\ seat = u => seat' \in {u, "absent"},
           seat = "absent" => seat' = "absent"
    PROVE  OneHolder'
<1> SUFFICES ASSUME NEW u \in Tabs, Served(u)'
             PROVE  /\ seat' \in {u, "absent"}
                    /\ \A v \in Tabs : Served(v)' => v = u
  BY DEF OneHolder
<1>1. seat \in {u, "absent"} /\ \A v \in Tabs : Served(v) => v = u
  BY DEF Seating, OneHolder
<1>2. QED BY <1>1

\* The socket of a tab is gone or about to close, and with it the seat.
LEMMA VanishInv ==
    ASSUME TypeOK, Seating, NEW t \in Tabs, Vanish(t),
           joined' \subseteq joined, ~Served(t)',
           \A u \in Tabs \ {t} : Reaches(u)' <=> Reaches(u)
    PROVE  Seating'
<1> USE TabsAssumption
<1>1. SeatReached'
  BY DEF Vanish, Seating, SeatReached
<1>2. OneHolder'
  <2>1. \A u \in Tabs : Served(u)' => Served(u) /\ u # t
    BY DEF Served
  <2>2. seat' = IF seat = t THEN "empty" ELSE seat
    BY DEF Vanish
  <2>3. seat = "absent" => seat' = "absent"
    BY <2>2
  <2>4. QED BY <2>1, <2>2, <2>3, HolderKept
<1>3. QED BY <1>1, <1>2 DEF Seating

\* The player is gone; no socket is served anew.
LEMMA GiveUpInv ==
    ASSUME TypeOK, Seating, GiveUpSeat,
           \A u \in Tabs : Served(u)' => Served(u)
    PROVE  Seating'
<1>1. SeatReached'
  BY TabsAssumption DEF GiveUpSeat, SeatReached
<1>2. OneHolder'
  BY HolderKept DEF GiveUpSeat
<1>3. QED BY <1>1, <1>2 DEF Seating

\* Nothing happens to the sockets.
LEMMA SeatingKept ==
    ASSUME TypeOK, Seating, seat' = seat, joined' \subseteq joined,
           \A u \in Tabs : Reaches(u)' <=> Reaches(u)
    PROVE  Seating'
<1>1. SeatReached'
  BY DEF Seating, SeatReached
<1>2. \A u \in Tabs : Served(u)' => Served(u)
  BY DEF Served
<1>3. OneHolder'
  BY <1>2, HolderKept
<1>4. QED BY <1>1, <1>3 DEF Seating

\* The socket that has the seat is told and closed, or there is none.
LEMMA OustedInv ==
    ASSUME TypeOK, Seating, NEW others, others \subseteq Tabs
    PROVE  /\ Ousted(others) \in [Tabs -> Seq(Frames)]
           /\ \A u \in Tabs : Ordered(Ousted(others)[u])
           /\ \A u \in Tabs : conn[u] # "open" => Ousted(others)[u] = << >>
           /\ \A u \in Tabs :
                IF u \in others /\ seat = u
                THEN ~Clear(Ousted(others)[u])
                ELSE Ousted(others)[u] = down[u]
<1> USE TypeParts, ReachesClear DEF Channels
<1>1. CASE seat \in others
  <2>1. Ousted(others) = [down EXCEPT ![seat] = @ \o Evicted]
    BY <1>1 DEF Ousted, To
  <2>2. conn[seat] = "open" /\ Clear(down[seat])
    BY <1>1 DEF Seating, SeatReached
  <2>3. /\ down[seat] \o Evicted \in Seq(Frames)
        /\ Ordered(down[seat] \o Evicted)
        /\ ~Clear(down[seat] \o Evicted)
    BY <1>1, <2>2, SendEvicted
  <2>4. /\ Ousted(others)[seat] = down[seat] \o Evicted
        /\ \A u \in Tabs \ {seat} : Ousted(others)[u] = down[u]
        /\ Ousted(others) \in [Tabs -> Seq(Frames)]
    <3>1. down \in [Tabs -> Seq(Frames)]
      OBVIOUS
    <3>2. PICK e : e = down[seat] \o Evicted
      OBVIOUS
    <3>3. Ousted(others) = [down EXCEPT ![seat] = e]
      BY <2>1, <3>2
    <3>4. e \in Seq(Frames) /\ seat \in Tabs
      BY <1>1, <2>3, <3>2
    <3>5. QED BY <3>1, <3>2, <3>3, <3>4
  <2>5. QED BY <1>1, <2>2, <2>3, <2>4
<1>2. CASE seat \notin others
  BY <1>2 DEF Ousted
<1>3. QED BY <1>1, <1>2

\* rejoin_room over a served socket, which is open from now on.
LEMMA TakeSeatInv ==
    ASSUME IInv, NEW t \in Tabs, Clear(down[t]), TakeSeat(t),
           conn' = [conn EXCEPT ![t] = "open"],
           conn[t] = "open" \/ t \notin joined
    PROVE  Channels' /\ Seating'
<1> USE TypeParts, ReachesClear, TabsAssumption
<1>0. /\ conn'[t] = "open" /\ \A u \in Tabs \ {t} : conn'[u] = conn[u]
  BY ConnSet DEF IInv
<1>1. CASE seat = "absent"
  <2>1. /\ Frame("invalid") \in Frames
        /\ Frame("invalid").type \notin Closing
    BY FrameType DEF FrameTypes, Closing
  <2>2. /\ down' = [down EXCEPT ![t] = down[t] \o <<Frame("invalid")>>]
        /\ seat' = seat /\ joined' = joined
    BY <1>1 DEF TakeSeat, To
  <2>3. /\ down'[t] = down[t] \o <<Frame("invalid")>>
        /\ \A u \in Tabs \ {t} : down'[u] = down[u]
        /\ down' = [u \in Tabs |-> down'[u]]
    BY <2>2, DownSet DEF IInv
  <2>4. /\ down'[t] \in Seq(Frames) /\ Ordered(down'[t]) /\ Clear(down'[t])
    BY <2>1, <2>3, SendOne DEF IInv, Channels
  <2>5. Channels'
    BY <1>0, <2>3, <2>4 DEF IInv, Channels
  <2>6. \A u \in Tabs : Served(u)' => Served(u)
    BY <1>0, <2>2, <2>3 DEF Served
  <2>7. SeatReached'
    BY <1>1, <2>2 DEF SeatReached
  <2>8. OneHolder'
    BY <1>1, <2>2, <2>6, HolderKept DEF IInv
  <2>9. QED BY <2>5, <2>7, <2>8 DEF Seating
<1>2. CASE seat # "absent"
  <2>1. RejoinedRoom \in Frames /\ RejoinedRoom.type \notin Closing
    BY DEF IInv, ServerTypes, RejoinedRoom, Frames, FrameTypes, Closing
  <2>2. PICK d : d = Ousted(Tabs \ {t})
    OBVIOUS
  <2>3. /\ d \in [Tabs -> Seq(Frames)]
        /\ \A u \in Tabs : Ordered(d[u])
        /\ \A u \in Tabs : conn[u] # "open" => d[u] = << >>
        /\ d[t] = down[t]
        /\ \A u \in Tabs \ {t} : seat = u => ~Clear(d[u])
        /\ \A u \in Tabs \ {t} : seat # u => d[u] = down[u]
    <3>1. Tabs \ {t} \subseteq Tabs /\ TypeOK /\ Seating
      BY DEF IInv
    <3>2. /\ d \in [Tabs -> Seq(Frames)]
          /\ \A u \in Tabs : Ordered(d[u])
          /\ \A u \in Tabs : conn[u] # "open" => d[u] = << >>
      BY <2>2, <3>1, OustedInv
    <3>3. \A u \in Tabs : IF u \in Tabs \ {t} /\ seat = u
                           THEN ~Clear(d[u])
                           ELSE d[u] = down[u]
      BY <2>2, <3>1, OustedInv
    <3>4. QED BY <3>2, <3>3
  <2>4. /\ down' = [d EXCEPT ![t] = d[t] \o <<RejoinedRoom>>]
        /\ seat' = t /\ joined' = joined \cup {t}
    BY <1>2, <2>2 DEF TakeSeat, To
  <2>5. PICK e : e = d[t] \o <<RejoinedRoom>>
    OBVIOUS
  <2>6. e \in Seq(Frames) /\ Ordered(e) /\ Clear(e)
    BY <2>1, <2>3, <2>5, SendOne
  <2>7. /\ down'[t] = e /\ \A u \in Tabs \ {t} : down'[u] = d[u]
        /\ down' \in [Tabs -> Seq(Frames)]
    BY <2>3, <2>4, <2>5, <2>6
  <2>8. Channels'
    BY <1>0, <2>3, <2>6, <2>7 DEF Channels
  <2>9. SeatReached'
    BY <1>0, <2>4, <2>6, <2>7 DEF SeatReached
  <2>10. \A u \in Tabs : Served(u)' => u = t
    <3> SUFFICES ASSUME NEW u \in Tabs \ {t}, Served(u)' PROVE FALSE
      OBVIOUS
    <3>1. u \in joined /\ conn[u] = "open" /\ Clear(d[u])
      BY <1>0, <2>4, <2>7 DEF Served
    <3>2. seat # u /\ Served(u)
      BY <2>3, <3>1 DEF Served
    <3>3. QED BY <1>2, <3>2 DEF IInv, Seating, OneHolder
  <2>11. OneHolder'
    BY <2>4, <2>10 DEF OneHolder
  <2>12. QED BY <2>8, <2>9, <2>11 DEF Seating
<1>3. QED BY <1>1, <1>2

\* What becomes of a request of Open or Reclaim.
LEMMA RejoinInv ==
    ASSUME IInv, NEW t \in Tabs, Rejoin(t), phase' = phase, loose' = loose,
           conn' = [conn EXCEPT ![t] = "open"],
           conn[t] = "open" \/ t \notin joined
    PROVE  Channels' /\ ServerTypes' /\ Seating' /\ NotYet'
<1> USE TypeParts, ReachesClear, TabsAssumption
<1>0. /\ conn'[t] = "open" /\ \A u \in Tabs \ {t} : conn'[u] = conn[u]
  BY ConnSet DEF IInv
<1>1. joined \subseteq joined' /\ joined' \subseteq joined \cup {t}
  BY DEF Rejoin, TakeSeat
<1>2. NotYet'
  BY <1>0, <1>1 DEF IInv, NotYet, ServerTypes
<1>3. CASE ~Awaits(t, Closing) /\ TakeSeat(t) /\ UNCHANGED late
  <2>1. Clear(down[t])
    BY <1>3 DEF Awaits, Clear
  <2>2. Channels' /\ Seating'
    BY <1>3, <2>1, TakeSeatInv
  <2>3. ServerTypes'
    BY <1>1, <1>3 DEF IInv, ServerTypes, TakeSeat
  <2>4. QED BY <1>2, <2>2, <2>3
<1>4. CASE /\ down' = IF Awaits(t, Closing) THEN down
                      ELSE To(down, t, <<Frame("close")>>)
           /\ Vanish(t)
           /\ late' \in {late, late \/ (Split /\ ~Awaits(t, {"close"}))}
           /\ UNCHANGED joined
  <2>1. ServerTypes'
    BY <1>4 DEF IInv, ServerTypes, Vanish
  <2>2. /\ \A u \in Tabs \ {t} : down'[u] = down[u]
        /\ down' = [u \in Tabs |-> down'[u]]
        /\ down'[t] \in Seq(Frames) /\ Ordered(down'[t]) /\ ~Clear(down'[t])
    <3>1. CASE Awaits(t, Closing)
      BY <1>4, <3>1 DEF Awaits, Clear, IInv, Channels
    <3>2. CASE ~Awaits(t, Closing)
      <4>1. Frame("close") \in Frames /\ Frame("close").type \in Closing
        BY FrameType DEF FrameTypes, Closing
      <4>2. down' = [down EXCEPT ![t] = down[t] \o <<Frame("close")>>]
        BY <1>4, <3>2 DEF To
      <4>3. /\ down'[t] = down[t] \o <<Frame("close")>>
            /\ \A u \in Tabs \ {t} : down'[u] = down[u]
            /\ down' = [u \in Tabs |-> down'[u]]
        BY <4>2, DownSet DEF IInv
      <4>4. Clear(down[t]) /\ down[t] \in Seq(Frames)
        BY <3>2 DEF Awaits, Clear, IInv, Channels
      <4>5. QED BY <4>1, <4>3, <4>4, SendOne
    <3>3. QED BY <3>1, <3>2
  <2>3. Channels'
    <3>1. /\ \A u \in Tabs : down[u] \in Seq(Frames) /\ Ordered(down[u])
          /\ \A u \in Tabs : conn[u] # "open" => down[u] = << >>
      BY DEF IInv, Channels
    <3>2. \A u \in Tabs : down'[u] \in Seq(Frames) /\ Ordered(down'[u])
      BY ONLY <2>2, <3>1
    <3>3. \A u \in Tabs : conn'[u] # "open" => down'[u] = << >>
      BY ONLY <1>0, <2>2, <3>1
    <3>4. down' \in [Tabs -> Seq(Frames)]
      BY ONLY <2>2, <3>2
    <3>5. QED BY ONLY <3>2, <3>3, <3>4 DEF Channels
  <2>4. ~Served(t)' /\ \A u \in Tabs \ {t} : Reaches(u)' <=> Reaches(u)
    BY <1>0, <2>2 DEF Served
  <2>5. Seating'
    BY <1>4, <2>4, VanishInv DEF IInv
  <2>6. QED BY <1>2, <2>1, <2>3, <2>5
<1>5. CASE UNCHANGED <<seat, joined, down, late>>
  <2>1. ServerTypes' /\ Channels'
    BY <1>0, <1>5 DEF IInv, ServerTypes, Channels
  <2>2. \A u \in Tabs : Served(u)' => Served(u)
    BY <1>0, <1>5 DEF Served
  <2>3. SeatReached'
    BY <1>0, <1>5 DEF IInv, Seating, SeatReached
  <2>4. OneHolder'
    BY <1>5, <2>2, HolderKept DEF IInv
  <2>5. QED BY <1>2, <2>1, <2>3, <2>4 DEF Seating
<1>6. QED BY <1>3, <1>4, <1>5 DEF Rejoin

-----------------------------------------------------------------------------
(* Steps that several actions share.                                       *)

\* A frame of the room to the holder.
LEMMA BroadcastInv ==
    ASSUME IInv, NEW f \in Frames, f.type \notin Closing, Broadcast(f),
           conn' = conn, seat' = seat, joined' = joined
    PROVE  Channels' /\ Seating'
<1> USE TypeParts, ReachesClear
<1>1. CASE seat \in Tabs
  <2>1. down' = [down EXCEPT ![seat] = down[seat] \o <<f>>]
    BY <1>1 DEF Broadcast, To
  <2>2. conn[seat] = "open" /\ Clear(down[seat])
    BY <1>1 DEF IInv, Seating, SeatReached
  <2>3. /\ down'[seat] = down[seat] \o <<f>>
        /\ \A u \in Tabs \ {seat} : down'[u] = down[u]
        /\ down' = [u \in Tabs |-> down'[u]]
    BY <1>1, <2>1, DownSet DEF IInv
  <2>4. /\ down'[seat] \in Seq(Frames) /\ Ordered(down'[seat])
        /\ Clear(down'[seat])
    BY <1>1, <2>2, <2>3, SendOne DEF IInv, Channels
  <2>5. Channels'
    BY <2>2, <2>3, <2>4 DEF IInv, Channels
  <2>6. \A u \in Tabs : Reaches(u)' <=> Reaches(u)
    BY <2>2, <2>3, <2>4
  <2>7. QED BY <2>5, <2>6, SeatingKept DEF IInv
<1>2. CASE seat \notin Tabs
  <2>1. down' = down
    BY <1>2 DEF Broadcast
  <2>2. QED BY <2>1, SeatingKept DEF IInv, Channels
<1>3. QED BY <1>1, <1>2

\* The close event of a socket whose tab does not have the seat afterwards.
LEMMA ClosedInv ==
    ASSUME IInv, NEW t \in Tabs, Closed(t), Vanish(t), banner' = banner
    PROVE  ClientTypes' /\ Channels' /\ Seating' /\ NotYet' /\ Waiting'
<1> USE TypeParts, ReachesClear DEF Closed
<1>1. ClientTypes'
  BY DEF IInv, ClientTypes
<1>2. /\ conn'[t] = "closed" /\ down'[t] = << >>
      /\ \A u \in Tabs \ {t} : down'[u] = down[u] /\ conn'[u] = conn[u]
      /\ down' = [u \in Tabs |-> down'[u]]
  <2>1. /\ conn' = [conn EXCEPT ![t] = "closed"]
        /\ down' = [down EXCEPT ![t] = << >>]
    OBVIOUS
  <2>2. TypeOK BY DEF IInv
  <2>3. /\ conn'[t] = "closed"
        /\ \A u \in Tabs \ {t} : conn'[u] = conn[u]
    BY <2>1, <2>2, ConnSet
  <2>4. /\ down'[t] = << >>
        /\ \A u \in Tabs \ {t} : down'[u] = down[u]
        /\ down' = [u \in Tabs |-> down'[u]]
    BY <2>1, <2>2, DownSet
  <2>5. QED BY <2>3, <2>4
<1>3. Channels'
  BY <1>2, EmptyChannel DEF IInv, Channels
<1>4. Seating'
  <2>1. ~Served(t)' /\ \A u \in Tabs \ {t} : Reaches(u)' <=> Reaches(u)
    BY <1>2 DEF Served
  <2>2. QED BY <2>1, VanishInv DEF IInv
<1>5. NotYet'
  BY <1>2 DEF IInv, NotYet, ServerTypes
<1>6. Waiting'
  BY <1>2 DEF IInv, Waiting, TakenTold, ClosedWaits
<1>7. QED BY <1>1, <1>3, <1>4, <1>5, <1>6

\* A frame other than a close is received.
LEMMA ConsumedInv ==
    ASSUME IInv, NEW t \in Tabs, NEW ty \in FrameTypes \ Closing,
           Arrives(t, ty), Consumed(t),
           conn' = conn, seat' = seat, joined' = joined
    PROVE  Channels' /\ Seating' /\ NotYet' /\ conn[t] = "open"
<1> USE TypeParts, ReachesClear DEF Arrives, Consumed
<1>1. /\ down'[t] = Tail(down[t])
      /\ \A u \in Tabs \ {t} : down'[u] = down[u]
      /\ down' = [u \in Tabs |-> down'[u]]
  BY DEF IInv, Channels
<1>2. /\ down'[t] \in Seq(Frames) /\ Ordered(down'[t])
      /\ Clear(down'[t]) <=> Clear(down[t])
  BY <1>1, ReceiveOne DEF IInv, Channels
<1>3. Channels'
  BY <1>1, <1>2 DEF IInv, Channels
<1>4. \A u \in Tabs : Reaches(u)' <=> Reaches(u)
  BY <1>1, <1>2
<1>5. Seating'
  BY <1>4, SeatingKept DEF IInv
<1>6. NotYet'
  BY DEF IInv, NotYet
<1>7. QED BY <1>3, <1>5, <1>6

-----------------------------------------------------------------------------
(* The invariant.                                                          *)

LEMMA IInvInit == Init => IInv
<1> SUFFICES ASSUME Init PROVE IInv
  OBVIOUS
<1> USE DEF Init
<1>1. ClientTypes /\ PageTypes /\ ServerTypes
  BY DEF ClientTypes, PageTypes, ServerTypes, Phases
<1>2. Channels
  BY EmptyChannel DEF Channels
<1>3. Seating
  BY ReachesClear, EmptyChannel DEF Seating, SeatReached, OneHolder, Served
<1>4. NotYet /\ Waiting
  BY DEF NotYet, Waiting, TakenTold, ClosedWaits
<1>5. QED BY <1>1, <1>2, <1>3, <1>4, TypeParts DEF IInv

LEMMA LoadInv ==
    ASSUME IInv, NEW t \in Tabs, Load(t)
    PROVE  IInv'
<1> USE TypeParts, ReachesClear, TabsAssumption DEF Load
<1>1. ClientTypes' /\ PageTypes' /\ ServerTypes'
  <2>1. PICK linked \in BOOLEAN :
          /\ hash' = Set(hash, t, linked)
          /\ pend' = [pend EXCEPT ![t] =
                        IF linked /\ cookie THEN "mount" ELSE "nobody"]
    OBVIOUS
  <2>2. ClientTypes'
    BY <2>1 DEF IInv, ClientTypes
  <2>3. PageTypes'
    <3>1. hash' \subseteq Tabs /\ banner' \subseteq Tabs
      BY <2>1 DEF Set, IInv, PageTypes
    <3>2. shown' = [shown EXCEPT ![t] = {}] /\ cookie' = cookie
      OBVIOUS
    <3>3. QED BY <3>1, <3>2 DEF IInv, PageTypes
  <2>4. ServerTypes'
    BY DEF IInv, ServerTypes, Vanish
  <2>5. QED BY <2>2, <2>3, <2>4
<1>2. /\ conn' = [conn EXCEPT ![t] = "connecting"]
      /\ down' = [down EXCEPT ![t] = << >>]
      /\ joined' = joined \ {t}
      /\ Vanish(t)
  OBVIOUS
<1>3. /\ conn'[t] = "connecting" /\ down'[t] = << >>
      /\ \A u \in Tabs \ {t} : down'[u] = down[u] /\ conn'[u] = conn[u]
      /\ down' = [u \in Tabs |-> down'[u]]
  <2>1. ClientTypes /\ Channels
    BY DEF IInv
  <2>2. /\ conn'[t] = "connecting"
        /\ \A u \in Tabs \ {t} : conn'[u] = conn[u]
    BY <1>2, <2>1, ConnSet
  <2>3. /\ down'[t] = << >>
        /\ \A u \in Tabs \ {t} : down'[u] = down[u]
        /\ down' = [u \in Tabs |-> down'[u]]
    BY <1>2, <2>1, DownSet
  <2>4. QED BY <2>2, <2>3
<1>4. Channels'
  BY <1>3, EmptyChannel DEF IInv, Channels
<1>5. Seating'
  <2>1. ~Served(t)' /\ \A u \in Tabs \ {t} : Reaches(u)' <=> Reaches(u)
    BY <1>3 DEF Served
  <2>2. QED BY <1>2, <2>1, VanishInv DEF IInv
<1>6. NotYet'
  BY <1>2, <1>3 DEF IInv, NotYet, ServerTypes
<1>7. Waiting'
  BY <1>3 DEF IInv, Waiting, TakenTold, ClosedWaits
<1>8. QED BY <1>1, <1>4, <1>5, <1>6, <1>7 DEF IInv

LEMMA OpenInv ==
    ASSUME IInv, NEW t \in Tabs, Open(t)
    PROVE  IInv'
<1> USE TypeParts, ReachesClear DEF Open
<1>1. ClientTypes' /\ PageTypes'
  BY DEF IInv, ClientTypes, PageTypes, page
<1>2. /\ conn' = [conn EXCEPT ![t] = "open"] /\ conn[t] = "connecting"
      /\ conn'[t] = "open" /\ \A u \in Tabs \ {t} : conn'[u] = conn[u]
      /\ t \notin joined /\ down[t] = << >>
  BY DEF IInv, ClientTypes, NotYet, Channels
<1>3. Channels' /\ ServerTypes' /\ Seating' /\ NotYet'
  <2>1. CASE UNCHANGED <<seat, joined, down, late>>
    <3>1. Channels' /\ ServerTypes' /\ NotYet'
      BY <1>2, <2>1 DEF IInv, Channels, ServerTypes, NotYet
    <3>2. SeatReached'
      BY <1>2, <2>1 DEF IInv, Seating, SeatReached
    <3>3. \A u \in Tabs : Served(u)' => Served(u)
      BY <1>2, <2>1 DEF Served
    <3>4. OneHolder'
      BY <2>1, <3>3, HolderKept DEF IInv
    <3>5. QED BY <3>1, <3>2, <3>4 DEF Seating
  <2>2. CASE Rejoin(t)
    BY <1>2, <2>2, RejoinInv
  <2>3. QED BY <2>1, <2>2
<1>4. Waiting'
  BY <1>2 DEF IInv, Waiting, TakenTold, ClosedWaits, page
<1>5. QED BY <1>1, <1>3, <1>4 DEF IInv

LEMMA ReclaimInv ==
    ASSUME IInv, NEW t \in Tabs, Reclaim(t)
    PROVE  IInv'
<1> USE TypeParts, ReachesClear DEF Reclaim, Set
<1>1. PageTypes' /\ TakenTold'
  BY DEF IInv, PageTypes, Waiting, TakenTold, page
<1>2. CASE conn[t] = "open"
  <2>1. conn' = conn /\ pend' = pend /\ ClientTypes'
    BY <1>2 DEF IInv, ClientTypes
  <2>2. Rejoin(t) /\ conn' = [conn EXCEPT ![t] = "open"]
    BY <1>2, <2>1 DEF IInv, ClientTypes
  <2>3. Channels' /\ ServerTypes' /\ Seating' /\ NotYet'
    BY <1>2, <2>2, RejoinInv
  <2>4. ClosedWaits'
    BY <1>2, <2>1 DEF IInv, Waiting, ClosedWaits
  <2>5. QED BY <1>1, <2>1, <2>3, <2>4 DEF IInv, Waiting
<1>3. CASE conn[t] # "open"
  <2>1. /\ conn' = [conn EXCEPT ![t] = "connecting"]
        /\ seat' = seat /\ joined' = joined /\ down' = down /\ late' = late
        /\ phase' = phase /\ loose' = loose
    BY <1>3
  <2>2. ClientTypes'
    BY <1>3 DEF IInv, ClientTypes
  <2>3. conn'[t] = "connecting" /\ \A u \in Tabs \ {t} : conn'[u] = conn[u]
    BY <2>1 DEF IInv, ClientTypes
  <2>4. Channels' /\ ServerTypes'
    BY <1>3, <2>1, <2>3 DEF IInv, Channels, ServerTypes
  <2>5. Seating' /\ NotYet'
    <3>1. \A u \in Tabs : Reaches(u)' <=> Reaches(u)
      BY <1>3, <2>1, <2>3
    <3>2. NotYet'
      BY <1>3, <2>1, <2>3 DEF IInv, NotYet, ServerTypes
    <3>3. QED BY <2>1, <3>1, <3>2, SeatingKept DEF IInv
  <2>6. ClosedWaits'
    BY <2>3 DEF IInv, Waiting, ClosedWaits
  <2>7. QED BY <1>1, <2>2, <2>4, <2>5, <2>6 DEF IInv, Waiting
<1>4. QED BY <1>2, <1>3

LEMMA FramesInv ==
    ASSUME IInv, NEW t \in Tabs, Receive(t)
    PROVE  IInv'
<1> USE TypeParts DEF Receive
<1>1. CASE ReceiveTaken(t)
  <2> USE <1>1 DEF ReceiveTaken
  <2>1. Channels' /\ Seating' /\ NotYet' /\ conn[t] = "open"
    BY ConsumedInv DEF FrameTypes, Closing, server
  <2>2. ClientTypes' /\ PageTypes' /\ ServerTypes'
    BY DEF IInv, ClientTypes, PageTypes, ServerTypes, server, Consumed
  <2>3. Waiting'
    BY <2>1 DEF IInv, Waiting, TakenTold, ClosedWaits
  <2>4. QED BY <2>1, <2>2, <2>3 DEF IInv
<1>2. CASE ReceiveClose(t)
  <2> USE <1>2 DEF ReceiveClose
  <2>1. conn[t] = "open" /\ ~Clear(down[t])
    <3>1. /\ down[t] \in Seq(Frames) /\ down[t] # << >>
          /\ Head(down[t]).type \in Closing /\ conn[t] = "open"
      BY DEF IInv, Channels, Arrives
    <3>2. Len(down[t]) > 0 /\ Len(down[t]) \in Nat
          /\ Head(down[t]) = down[t][1]
      BY <3>1
    <3>3. QED BY <3>1, <3>2 DEF Clear
  <2>2. seat # t
    BY <2>1, ReachesClear DEF IInv, Seating, SeatReached
  <2>3. Vanish(t) /\ banner' = banner
    BY <2>2 DEF server, page, Vanish
  <2>4. ClientTypes' /\ Channels' /\ Seating' /\ NotYet' /\ Waiting'
    BY <2>3, ClosedInv
  <2>5. PageTypes' /\ ServerTypes'
    BY DEF IInv, PageTypes, ServerTypes, server, page, Closed
  <2>6. QED BY <2>4, <2>5 DEF IInv
<1>3. CASE ReceiveRejoined(t)
  <2> USE <1>3 DEF ReceiveRejoined
  <2>1. Channels' /\ Seating' /\ NotYet' /\ conn[t] = "open"
    BY ConsumedInv DEF FrameTypes, Closing, server
  <2>2. ClientTypes'
    BY DEF IInv, ClientTypes
  <2>3. PageTypes' /\ ServerTypes'
    <3>1. \A s \in SUBSET {"room", "passage", "countdown", "results"},
             state \in Phases :
            Resumed(s, state) \in
              SUBSET {"room", "passage", "countdown", "results"}
      BY DEF Resumed, ResetRaceUi
    <3>2. Head(down[t]).state \in Phases
      <4>1. Head(down[t]) \in Frames
        BY DEF IInv, Channels, Arrives
      <4>2. QED BY <4>1 DEF Frames
    <3>3. shown' = [shown EXCEPT ![t] =
                      Resumed(shown[t], Head(down[t]).state)]
      OBVIOUS
    <3>4. shown' \in
            [Tabs -> SUBSET {"room", "passage", "countdown", "results"}]
      BY <3>1, <3>2, <3>3 DEF IInv, PageTypes
    <3>5. PageTypes'
      BY <3>4 DEF IInv, PageTypes
    <3>6. ServerTypes'
      BY DEF IInv, ServerTypes, server, Set, Consumed
    <3>7. QED BY <3>5, <3>6
  <2>4. Waiting'
    BY <2>1 DEF IInv, Waiting, TakenTold, ClosedWaits
  <2>5. QED BY <2>1, <2>2, <2>3, <2>4 DEF IInv
<1>4. CASE ReceiveInvalid(t)
  <2> USE <1>4 DEF ReceiveInvalid
  <2>1. Channels' /\ Seating' /\ NotYet' /\ conn[t] = "open"
    BY ConsumedInv DEF FrameTypes, Closing, server, client
  <2>2. ClientTypes' /\ PageTypes' /\ ServerTypes'
    BY DEF IInv, ClientTypes, PageTypes, ServerTypes, server, client, Consumed
  <2>3. Waiting'
    BY DEF IInv, Waiting, TakenTold, ClosedWaits, client
  <2>4. QED BY <2>1, <2>2, <2>3 DEF IInv
<1>5. ASSUME NEW ty \in {"lobby_state", "countdown", "race_start", "race_end",
                         "return_to_lobby"},
             ReceiveRoomFrame(t, ty)
      PROVE  IInv'
  <2> USE <1>5 DEF ReceiveRoomFrame
  <2>1. Channels' /\ Seating' /\ NotYet' /\ conn[t] = "open"
    BY ConsumedInv DEF FrameTypes, Closing, server, client
  <2>2. ClientTypes' /\ ServerTypes'
    BY DEF IInv, ClientTypes, ServerTypes, server, client, Consumed
  <2>3. PageTypes'
    <3>1. \A s \in SUBSET {"room", "passage", "countdown", "results"} :
            Updated(s, ty) \in
              SUBSET {"room", "passage", "countdown", "results"}
      BY DEF Updated, ResetRaceUi
    <3>2. shown' = [shown EXCEPT ![t] = Updated(shown[t], ty)]
      OBVIOUS
    <3>3. shown' \in
            [Tabs -> SUBSET {"room", "passage", "countdown", "results"}]
      BY <3>1, <3>2 DEF IInv, PageTypes
    <3>4. QED BY <3>3 DEF IInv, PageTypes
  <2>4. Waiting'
    BY DEF IInv, Waiting, TakenTold, ClosedWaits, client
  <2>5. QED BY <2>1, <2>2, <2>3, <2>4 DEF IInv
<1>6. QED BY <1>1, <1>2, <1>3, <1>4, <1>5

\* Sockets that close or reconnect.
LEMMA SocketInv ==
    ASSUME IInv, NEW t \in Tabs,
           FailToConnect(t) \/ Drop(t) \/ Reconnect(t) \/ RejoinTimeout(t)
    PROVE  IInv'
<1> USE TypeParts, TabsAssumption
<1>1. CASE FailToConnect(t)
  <2> USE <1>1 DEF FailToConnect
  <2>1. seat # t
    BY ReachesClear DEF IInv, Seating, SeatReached
  <2>2. Vanish(t) /\ banner' = banner
    BY <2>1 DEF server, page, Vanish
  <2>3. ClientTypes' /\ Channels' /\ Seating' /\ NotYet' /\ Waiting'
    BY <2>2, ClosedInv
  <2>4. PageTypes' /\ ServerTypes'
    BY DEF IInv, PageTypes, ServerTypes, server, page, Closed
  <2>5. QED BY <2>3, <2>4 DEF IInv
<1>2. CASE Drop(t)
  <2> USE <1>2 DEF Drop
  <2>1. ClientTypes' /\ Channels' /\ Seating' /\ NotYet' /\ Waiting'
    BY ClosedInv DEF page
  <2>2. PageTypes' /\ ServerTypes'
    BY DEF IInv, PageTypes, ServerTypes, page, Vanish, Closed
  <2>3. QED BY <2>1, <2>2 DEF IInv
<1>3. CASE Reconnect(t)
  <2> USE <1>3 DEF Reconnect
  <2>1. ClientTypes'
    <3>1. conn' = [conn EXCEPT ![t] =
                     IF conn[t] = "closed" THEN "connecting" ELSE conn[t]]
      OBVIOUS
    <3>2. conn' \in [Tabs -> {"off", "connecting", "open", "closed"}]
      BY <3>1 DEF IInv, ClientTypes
    <3>3. QED BY <3>2 DEF IInv, ClientTypes
  <2>2. PageTypes' /\ ServerTypes'
    BY DEF IInv, PageTypes, ServerTypes, page, server
  <2>3. /\ conn'[t] = IF conn[t] = "closed" THEN "connecting" ELSE conn[t]
        /\ \A u \in Tabs \ {t} : conn'[u] = conn[u]
    BY ConnSet DEF IInv
  <2>4. Channels'
    BY <2>3 DEF IInv, Channels
  <2>5. Seating' /\ NotYet'
    <3>1. \A u \in Tabs : Reaches(u)' <=> Reaches(u)
      BY <2>3, ReachesClear
    <3>2. NotYet'
      BY <2>3 DEF IInv, NotYet, ServerTypes
    <3>3. QED BY <3>1, <3>2, SeatingKept DEF IInv, server
  <2>6. Waiting'
    BY <2>3 DEF IInv, Waiting, TakenTold, ClosedWaits, page
  <2>7. QED BY <2>1, <2>2, <2>4, <2>5, <2>6 DEF IInv
<1>4. CASE RejoinTimeout(t)
  <2> USE <1>4 DEF RejoinTimeout
  <2>1. ClientTypes' /\ PageTypes' /\ ServerTypes' /\ Channels'
    BY DEF IInv, ClientTypes, PageTypes, ServerTypes, Channels, page, server
  <2>2. Seating' /\ NotYet'
    BY ReachesClear, SeatingKept DEF IInv, NotYet, server
  <2>3. Waiting'
    BY DEF IInv, Waiting, TakenTold, ClosedWaits, page
  <2>4. QED BY <2>1, <2>2, <2>3 DEF IInv
<1>5. QED BY <1>1, <1>2, <1>3, <1>4

\* What the user does other than reclaim.
LEMMA UserInv ==
    ASSUME IInv, NEW t \in Tabs,
           Leave(t) \/ \E next \in {"countdown", "lobby"} : AskAgain(t, next)
    PROVE  IInv'
<1> USE TypeParts, TabsAssumption
<1>1. CASE Leave(t)
  <2> USE <1>1 DEF Leave
  <2>1. conn' = conn /\ down' = down /\ taken' = taken /\ retry' = retry
        /\ rejoining' = rejoining /\ relax' = relax /\ pend' = pend
        /\ banner' = banner /\ late' = late
    BY DEF client
  <2>2. ClientTypes' /\ Channels' /\ Waiting'
    BY <2>1 DEF IInv, ClientTypes, Channels, Waiting, TakenTold, ClosedWaits
  <2>3. PageTypes'
    BY DEF IInv, PageTypes
  <2>4. ServerTypes'
    BY <2>1 DEF IInv, ServerTypes, GiveUpSeat, Phases, server
  <2>5. Seating' /\ NotYet'
    <3>1. \A u \in Tabs : Reaches(u)' <=> Reaches(u)
      BY <2>1, ReachesClear
    <3>2. \A u \in Tabs : Served(u)' => Served(u)
      BY <3>1 DEF Served
    <3>3. NotYet'
      BY <2>1 DEF IInv, NotYet
    <3>4. CASE GiveUpSeat
      BY <3>2, <3>3, <3>4, GiveUpInv DEF IInv
    <3>5. CASE UNCHANGED server
      BY <3>1, <3>3, <3>5, SeatingKept DEF IInv, server
    <3>6. QED BY <3>4, <3>5
  <2>6. QED BY <2>2, <2>3, <2>4, <2>5 DEF IInv
<1>2. ASSUME NEW next \in {"countdown", "lobby"}, AskAgain(t, next)
      PROVE  IInv'
  <2> USE <1>2 DEF AskAgain
  <2>1. conn' = conn /\ taken' = taken /\ retry' = retry
        /\ rejoining' = rejoining /\ relax' = relax /\ pend' = pend
        /\ banner' = banner /\ joined' = joined /\ seat' = seat
        /\ late' = late
    BY DEF client
  <2>2. ClientTypes' /\ Waiting' /\ NotYet'
    BY <2>1 DEF IInv, ClientTypes, Waiting, TakenTold, ClosedWaits, NotYet
  <2>3. PageTypes'
    BY DEF IInv, PageTypes, ResetRaceUi
  <2>4. ServerTypes'
    BY <2>1 DEF IInv, ServerTypes, Phases, Set
  <2>5. Channels' /\ Seating'
    <3>1. CASE Broadcast(Announced(next))
      <4>1. Announced(next) \in Frames /\ Announced(next).type \notin Closing
        BY FrameType DEF Announced, FrameTypes, Closing
      <4>2. QED BY <2>1, <3>1, <4>1, BroadcastInv
    <3>2. CASE down' = down
      BY <2>1, <3>2, ReachesClear, SeatingKept DEF IInv, Channels
    <3>3. QED BY <3>1, <3>2
  <2>6. QED BY <2>2, <2>3, <2>4, <2>5 DEF IInv
<1>3. QED BY <1>1, <1>2

\* Steps that leave the client and its pages alone.
LEMMA ClientKept ==
    ASSUME IInv, UNCHANGED <<client, page, joined>>
    PROVE  ClientTypes' /\ PageTypes' /\ NotYet' /\ Waiting'
BY TypeParts DEF IInv, client, page, ClientTypes, PageTypes, NotYet, Waiting,
   TakenTold, ClosedWaits

\* Frames on their way to t are lost.
LEMMA LostInv ==
    ASSUME IInv, NEW t \in Tabs, FramesLost(t)
    PROVE  IInv'
<1> USE TypeParts, ReachesClear DEF FramesLost
<1>1. PICK n \in 1 .. Len(down[t]) :
        down' = [down EXCEPT ![t] = SubSeq(down[t], 1, n - 1)]
  OBVIOUS
<1>2. /\ down'[t] = SubSeq(down[t], 1, n - 1)
      /\ \A u \in Tabs \ {t} : down'[u] = down[u]
      /\ down' = [u \in Tabs |-> down'[u]]
  BY <1>1, DownSet DEF IInv
<1>3. /\ down'[t] \in Seq(Frames) /\ Ordered(down'[t]) /\ Clear(down'[t])
  BY <1>2, LoseEnd DEF IInv, Channels
<1>4. conn' = conn
  BY DEF client
<1>5. conn[t] = "open"
  BY EmptyChannel DEF IInv, Channels
<1>6. Channels'
  BY <1>2, <1>3, <1>4, <1>5 DEF IInv, Channels
<1>7. Seating'
  <2>1. \A u \in Tabs \ {t} : Reaches(u)' <=> Reaches(u)
    BY <1>2, <1>4
  <2>2. Reaches(t)' /\ ~Served(t)'
    BY <1>3, <1>4, <1>5 DEF Served
  <2>3. SeatReached'
    BY <2>1, <2>2 DEF IInv, Seating, SeatReached, server
  <2>4. \A u \in Tabs : Served(u)' => Served(u)
    BY <2>1, <2>2 DEF Served
  <2>5. OneHolder'
    BY <2>4, HolderKept DEF IInv, server
  <2>6. QED BY <2>3, <2>5 DEF Seating
<1>8. ClientTypes' /\ PageTypes' /\ Waiting'
  BY DEF IInv, client, page, ClientTypes, PageTypes, Waiting, TakenTold,
     ClosedWaits
<1>9. ServerTypes' /\ NotYet'
  BY <1>4 DEF IInv, ServerTypes, NotYet, server
<1>10. QED BY <1>6, <1>7, <1>8, <1>9 DEF IInv

\* A process closes the sockets it has, and the seat goes with them.
LEMMA SocketsCloseInv ==
    ASSUME IInv, SocketsClose, conn' = conn, seat' \notin Tabs
    PROVE  Channels' /\ Seating'
<1> USE TypeParts, ReachesClear, TabsAssumption DEF SocketsClose
<1>1. Frame("close") \in Frames /\ Frame("close").type \in Closing
  BY FrameType DEF FrameTypes, Closing
<1>2. \A u \in Tabs :
        /\ Reaches(u) => down'[u] = down[u] \o <<Frame("close")>>
        /\ ~Reaches(u) => down'[u] = down[u]
  OBVIOUS
<1>3. \A u \in Tabs : Reaches(u) =>
        down'[u] \in Seq(Frames) /\ Ordered(down'[u]) /\ ~Clear(down'[u])
  BY <1>1, <1>2, SendOne DEF IInv, Channels
<1>4. \A u \in Tabs : down'[u] \in Seq(Frames) /\ Ordered(down'[u])
  BY <1>2, <1>3 DEF IInv, Channels
<1>5. Channels'
  BY <1>2, <1>4 DEF IInv, Channels
<1>6. \A u \in Tabs : ~Reaches(u)'
  BY <1>2, <1>3
<1>7. QED BY <1>5, <1>6 DEF Seating, SeatReached, OneHolder, Served

LEMMA ServerClosesInv ==
    ASSUME IInv, NEW t \in Tabs, ServerCloses(t)
    PROVE  IInv'
<1> USE TypeParts, ReachesClear, TabsAssumption DEF ServerCloses
<1>1. conn' = conn /\ joined' = joined /\ Vanish(t)
  BY DEF client, Vanish
<1>2. ClientTypes' /\ PageTypes' /\ NotYet' /\ Waiting'
  BY ClientKept
<1>3. ServerTypes'
  BY DEF IInv, ServerTypes
<1>4. conn[t] = "open" /\ Clear(down[t])
  BY DEF IInv, Seating, SeatReached
<1>5. down' = [down EXCEPT ![t] = down[t] \o <<Frame("close")>>]
  BY DEF To
<1>6. /\ down'[t] = down[t] \o <<Frame("close")>>
      /\ \A u \in Tabs \ {t} : down'[u] = down[u]
      /\ down' = [u \in Tabs |-> down'[u]]
  BY <1>5, DownSet DEF IInv
<1>7. down'[t] \in Seq(Frames) /\ Ordered(down'[t]) /\ ~Clear(down'[t])
  <2>1. Frame("close") \in Frames /\ Frame("close").type \in Closing
    BY FrameType DEF FrameTypes, Closing
  <2>2. down[t] \in Seq(Frames)
    BY DEF IInv, Channels
  <2>3. QED BY <1>4, <1>6, <2>1, <2>2, SendOne
<1>8. Channels'
  BY <1>1, <1>4, <1>6, <1>7 DEF IInv, Channels
<1>9. Seating'
  <2>1. ~Served(t)' /\ \A u \in Tabs \ {t} : Reaches(u)' <=> Reaches(u)
    BY <1>1, <1>6, <1>7 DEF Served
  <2>2. QED BY <1>1, <2>1, VanishInv DEF IInv
<1>10. QED BY <1>2, <1>3, <1>8, <1>9 DEF IInv

\* A rejoin that comes late evicts the holder for nobody.
LEMMA LateInv ==
    ASSUME IInv, TakeSeatLate
    PROVE  IInv'
<1> USE TypeParts, ReachesClear, TabsAssumption DEF TakeSeatLate
<1>1. ClientTypes' /\ PageTypes' /\ NotYet' /\ Waiting'
  BY ClientKept
<1>2. ServerTypes'
  BY DEF IInv, ServerTypes
<1>3. conn' = conn /\ down' = Ousted(Tabs)
  BY DEF client
<1>4. PICK d : d = Ousted(Tabs)
  OBVIOUS
<1>5. /\ d \in [Tabs -> Seq(Frames)]
      /\ \A u \in Tabs : Ordered(d[u])
      /\ \A u \in Tabs : conn[u] # "open" => d[u] = << >>
      /\ \A u \in Tabs : seat = u => ~Clear(d[u])
      /\ \A u \in Tabs : seat # u => d[u] = down[u]
  BY <1>4, OustedInv DEF IInv
<1>6. Channels'
  BY <1>3, <1>4, <1>5 DEF Channels
<1>7. Seating'
  <2>1. \A u \in Tabs : Served(u)' => Served(u) /\ seat # u
    BY <1>3, <1>4, <1>5 DEF Served
  <2>2. SeatReached'
    BY DEF SeatReached
  <2>3. OneHolder'
    BY <2>1, HolderKept DEF IInv
  <2>4. QED BY <2>2, <2>3 DEF Seating
<1>8. QED BY <1>1, <1>2, <1>6, <1>7 DEF IInv

\* The server's own steps, and the failures of its processes.
LEMMA ServerInv ==
    ASSUME IInv,
           \/ TakeSeatLate \/ Evict
           \/ EngineRestart \/ GatewayRestart \/ Restart
           \/ LobbyChanges \/ \E next \in Phases : RoomMoves(next)
    PROVE  IInv'
<1> USE TypeParts, TabsAssumption
<1>1. CASE TakeSeatLate
  BY <1>1, LateInv
<1>2. CASE Evict \/ EngineRestart
  <2>1. /\ GiveUpSeat /\ UNCHANGED <<client, page, joined>>
        /\ down' = down /\ late' = late /\ loose' = loose
    BY <1>2 DEF Evict, EngineRestart
  <2>2. ClientTypes' /\ PageTypes' /\ NotYet' /\ Waiting'
    BY <2>1, ClientKept
  <2>3. ServerTypes' /\ Channels'
    BY <2>1 DEF IInv, ServerTypes, Channels, Phases, GiveUpSeat, client
  <2>4. \A u \in Tabs : Served(u)' => Served(u)
    BY <2>1, ReachesClear DEF Served, client
  <2>5. Seating'
    BY <2>1, <2>4, GiveUpInv DEF IInv
  <2>6. QED BY <2>2, <2>3, <2>5 DEF IInv
<1>3. CASE GatewayRestart \/ Restart
  <2>1. /\ SocketsClose /\ UNCHANGED <<client, page, joined>>
        /\ seat' \in {"empty", "absent"} /\ phase' \in Phases
        /\ late' = late /\ loose' = loose
    BY <1>3 DEF GatewayRestart, Restart, GiveUpSeat, IInv, ServerTypes, Phases
  <2>2. ClientTypes' /\ PageTypes' /\ NotYet' /\ Waiting'
    BY <2>1, ClientKept
  <2>3. ServerTypes'
    BY <2>1 DEF IInv, ServerTypes
  <2>4. seat' \notin Tabs /\ conn' = conn
    BY <2>1 DEF client
  <2>5. Channels' /\ Seating'
    BY <2>1, <2>4, SocketsCloseInv
  <2>6. QED BY <2>2, <2>3, <2>5 DEF IInv
<1>4. CASE LobbyChanges
  <2> USE <1>4 DEF LobbyChanges
  <2>1. ClientTypes' /\ PageTypes' /\ NotYet' /\ Waiting'
    BY ClientKept
  <2>2. ServerTypes'
    BY DEF IInv, ServerTypes, server
  <2>3. /\ Frame("lobby_state") \in Frames
        /\ Frame("lobby_state").type \notin Closing
    BY FrameType DEF FrameTypes, Closing
  <2>4. Channels' /\ Seating'
    BY <2>3, BroadcastInv DEF client, server
  <2>5. QED BY <2>1, <2>2, <2>4 DEF IInv
<1>5. ASSUME NEW next \in Phases, RoomMoves(next) PROVE IInv'
  <2> USE <1>5 DEF RoomMoves
  <2>1. ClientTypes' /\ PageTypes' /\ NotYet' /\ Waiting'
    BY ClientKept
  <2>2. ServerTypes'
    BY DEF IInv, ServerTypes
  <2>3. Announced(next) \in Frames /\ Announced(next).type \notin Closing
    BY FrameType DEF Announced, FrameTypes, Phases, Closing
  <2>4. Channels' /\ Seating'
    BY <2>3, BroadcastInv DEF client
  <2>5. QED BY <2>1, <2>2, <2>4 DEF IInv
<1>6. QED BY <1>1, <1>2, <1>3, <1>4, <1>5

LEMMA IInvNext == IInv /\ [Next]_vars => IInv'
<1> SUFFICES ASSUME IInv, [Next]_vars PROVE IInv'
  OBVIOUS
<1>1. ASSUME NEW t \in Tabs, Tab(t) PROVE IInv'
  BY <1>1, LoadInv, OpenInv, ReclaimInv, FramesInv, SocketInv, UserInv,
     LostInv, ServerClosesInv DEF Tab
<1>2. CASE UNCHANGED vars
  <2>1. UNCHANGED <<client, page, joined>> /\ UNCHANGED <<seat, phase>>
        /\ down' = down /\ late' = late /\ loose' = loose
    BY <1>2 DEF vars, server
  <2>2. ClientTypes' /\ PageTypes' /\ NotYet' /\ Waiting'
    BY <2>1, ClientKept
  <2>3. ServerTypes' /\ Channels'
    BY <2>1, TypeParts DEF IInv, ServerTypes, Channels, client
  <2>4. Seating'
    BY <2>1, ReachesClear, SeatingKept DEF IInv, client
  <2>5. QED BY <2>2, <2>3, <2>4, TypeParts DEF IInv
<1>3. QED BY <1>1, <1>2, ServerInv DEF Next

LEMMA Inductive == Spec => []IInv
BY IInvInit, IInvNext, PTL DEF Spec

-----------------------------------------------------------------------------
(* The theorems.                                                           *)

\* Client, page, channels and server keep their types for any number of tabs;
\* nothing follows a close on a channel (RaceClient.connect, ws.close).
THEOREM TypeCorrect == Spec => []TypeOK
BY Inductive, PTL DEF IInv

\* However often tabs take the seat from each other, drop, reload, leave or are
\* evicted, however late the engine handles a rejoin, and whichever process
\* restarts, at most one tab is served as the player (rejoinPlayer).
THEOREM HolderSafe == Spec => []OneHolder
BY Inductive, PTL DEF IInv, Seating

\* While the browser has the cookie and the page knows its room, a page without
\* a socket reconnects or waits for a click that is not ignored
\* (RaceClient.rejoin, the close listener of connect and App's reclaimSession).
THEOREM SocketSafe == Spec => []NoDeadSocket
<1>1. IInv => NoDeadSocket
  BY DEF IInv, Waiting, TakenTold, ClosedWaits, NoDeadSocket, CanReclaim
<1>2. QED BY <1>1, Inductive, PTL

-----------------------------------------------------------------------------
(* What the holder of the seat is going to be told.                        *)

\* Frames that leave the view and the banner alone, and what the others tell of
\* the state of the room. A takeover's tells nothing.
Neutral(f) == f.type \in {"lobby_state", "invalid"}
Tells(f, state) ==
    \/ f.type = "rejoined" /\ f.state = state
    \/ f.type = "countdown" /\ state = "countdown"
    \/ f.type = "race_start" /\ state = "racing"
    \/ f.type = "race_end" /\ state = "finished"
    \/ f.type = "return_to_lobby" /\ state = "lobby"

HasRejoin(d) == \E i \in 1 .. Len(d) : d[i].type = "rejoined"
Answered(d) ==
    \A i \in 1 .. Len(d) :
        d[i].type = "taken" =>
            \E j \in i + 1 .. Len(d) : d[j].type = "rejoined"
LastTells(d, state) ==
    \A i \in 1 .. Len(d) :
        ~Neutral(d[i]) /\ (\A j \in i + 1 .. Len(d) : Neutral(d[j])) =>
            Tells(d[i], state)
Quiet(d) == \A i \in 1 .. Len(d) : Neutral(d[i])

\* The holder has the room on its screen without a banner or is about to rejoin,
\* every takeover it has still to hear of is followed by a rejoin, the last frame
\* that tells of the room's state tells what it is, and without such a frame the
\* view is right already.
Hears(t) ==
    /\ t \in banner \/ "room" \notin shown[t] => HasRejoin(down[t])
    /\ Answered(down[t])
    /\ LastTells(down[t], phase)
    /\ Quiet(down[t]) /\ t \notin loose => View(t) = ViewOf[phase]
HolderHears == \A t \in Tabs : seat = t /\ t \in joined => Hears(t)

LEMMA Longer ==
    ASSUME NEW d \in Seq(Frames), NEW f \in Frames
    PROVE  /\ d \o <<f>> \in Seq(Frames)
           /\ Len(d) \in Nat /\ Len(d \o <<f>>) = Len(d) + 1
           /\ \A i \in 1 .. Len(d) : (d \o <<f>>)[i] = d[i]
           /\ (d \o <<f>>)[Len(d) + 1] = f
OBVIOUS

\* One frame more.
LEMMA MoreNeutral ==
    ASSUME NEW d \in Seq(Frames), NEW f \in Frames, Neutral(f), NEW state
    PROVE  /\ HasRejoin(d) => HasRejoin(d \o <<f>>)
           /\ Answered(d) => Answered(d \o <<f>>)
           /\ LastTells(d, state) => LastTells(d \o <<f>>, state)
           /\ Quiet(d \o <<f>>) => Quiet(d)
<1> DEFINE e == d \o <<f>>
<1>1. /\ Len(d) \in Nat /\ Len(e) = Len(d) + 1
      /\ \A i \in 1 .. Len(d) : e[i] = d[i]
      /\ e[Len(d) + 1] = f
  BY Longer
<1> HIDE DEF e
<1>2. f.type # "taken"
  BY DEF Neutral
<1>3. HasRejoin(d) => HasRejoin(e)
  BY <1>1 DEF HasRejoin
<1>4. Answered(d) => Answered(e)
  <2> SUFFICES ASSUME Answered(d), NEW i \in 1 .. Len(e), e[i].type = "taken"
               PROVE  \E j \in i + 1 .. Len(e) : e[j].type = "rejoined"
    BY DEF Answered
  <2>1. i \in 1 .. Len(d) /\ d[i].type = "taken"
    BY <1>1, <1>2
  <2>2. PICK j \in i + 1 .. Len(d) : d[j].type = "rejoined"
    BY <2>1 DEF Answered
  <2>3. j \in 1 .. Len(d) /\ j \in i + 1 .. Len(e)
    BY <1>1, <2>1
  <2>4. QED BY <1>1, <2>2, <2>3
<1>5. LastTells(d, state) => LastTells(e, state)
  <2> SUFFICES ASSUME LastTells(d, state), NEW i \in 1 .. Len(e),
                      ~Neutral(e[i]),
                      \A j \in i + 1 .. Len(e) : Neutral(e[j])
               PROVE  Tells(e[i], state)
    BY DEF LastTells
  <2>1. i \in 1 .. Len(d) /\ e[i] = d[i]
    BY <1>1
  <2>2. \A j \in i + 1 .. Len(d) : Neutral(d[j])
    <3> SUFFICES ASSUME NEW j \in i + 1 .. Len(d) PROVE Neutral(d[j])
      OBVIOUS
    <3>1. j \in 1 .. Len(d) /\ j \in i + 1 .. Len(e)
      BY <1>1, <2>1
    <3>2. QED BY <1>1, <3>1
  <2>3. QED BY <2>1, <2>2 DEF LastTells
<1>6. Quiet(e) => Quiet(d)
  BY <1>1 DEF Quiet
<1>7. QED BY <1>3, <1>4, <1>5, <1>6 DEF e

LEMMA MoreTelling ==
    ASSUME NEW d \in Seq(Frames), NEW f \in Frames, NEW state,
           ~Neutral(f), Tells(f, state)
    PROVE  /\ HasRejoin(d) => HasRejoin(d \o <<f>>)
           /\ Answered(d) => Answered(d \o <<f>>)
           /\ LastTells(d \o <<f>>, state)
           /\ ~Quiet(d \o <<f>>)
           /\ f.type = "rejoined" =>
                HasRejoin(d \o <<f>>) /\ Answered(d \o <<f>>)
<1> DEFINE e == d \o <<f>>
<1>1. /\ Len(d) \in Nat /\ Len(e) = Len(d) + 1
      /\ \A i \in 1 .. Len(d) : e[i] = d[i]
      /\ e[Len(d) + 1] = f
  BY Longer
<1> HIDE DEF e
<1>2. f.type # "taken"
  BY DEF Tells
<1>3. HasRejoin(d) \/ f.type = "rejoined" => HasRejoin(e)
  BY <1>1 DEF HasRejoin
<1>4. Answered(d) \/ f.type = "rejoined" => Answered(e)
  <2> SUFFICES ASSUME Answered(d) \/ f.type = "rejoined",
                      NEW i \in 1 .. Len(e), e[i].type = "taken"
               PROVE  \E j \in i + 1 .. Len(e) : e[j].type = "rejoined"
    BY DEF Answered
  <2>1. i \in 1 .. Len(d) /\ d[i].type = "taken"
    BY <1>1, <1>2
  <2>2. CASE f.type = "rejoined"
    BY <1>1, <2>1, <2>2
  <2>3. CASE Answered(d)
    <3>1. PICK j \in i + 1 .. Len(d) : d[j].type = "rejoined"
      BY <2>1, <2>3 DEF Answered
    <3>2. j \in 1 .. Len(d) /\ j \in i + 1 .. Len(e)
      BY <1>1, <2>1
    <3>3. QED BY <1>1, <3>1, <3>2
  <2>4. QED BY <2>2, <2>3
<1>5. LastTells(e, state)
  <2> SUFFICES ASSUME NEW i \in 1 .. Len(e), ~Neutral(e[i]),
                      \A j \in i + 1 .. Len(e) : Neutral(e[j])
               PROVE  Tells(e[i], state)
    BY DEF LastTells
  <2>1. i = Len(d) + 1
    <3>1. i # Len(d) + 1 => Len(d) + 1 \in i + 1 .. Len(e)
      BY <1>1
    <3>2. QED BY <1>1, <3>1
  <2>2. QED BY <1>1, <2>1
<1>6. ~Quiet(e)
  <2>1. Len(d) + 1 \in 1 .. Len(e)
    BY <1>1
  <2>2. QED BY <1>1, <2>1 DEF Quiet
<1>7. QED BY <1>3, <1>4, <1>5, <1>6 DEF e

\* One frame less.
LEMMA OneLess ==
    ASSUME NEW d \in Seq(Frames), d # << >>, NEW state,
           Answered(d), LastTells(d, state)
    PROVE  /\ Answered(Tail(d)) /\ LastTells(Tail(d), state)
           /\ HasRejoin(d) => Head(d).type = "rejoined" \/ HasRejoin(Tail(d))
           /\ Head(d).type = "taken" => HasRejoin(Tail(d))
           /\ HasRejoin(Tail(d)) => ~Quiet(Tail(d))
           /\ Quiet(Tail(d)) /\ Neutral(Head(d)) => Quiet(d)
           /\ Quiet(Tail(d)) /\ ~Neutral(Head(d)) => Tells(Head(d), state)
<1> DEFINE e == Tail(d)
<1>1. /\ Len(d) \in Nat \ {0} /\ Len(e) = Len(d) - 1
      /\ \A i \in 1 .. Len(e) : e[i] = d[i + 1]
      /\ \A i \in 2 .. Len(d) : i - 1 \in 1 .. Len(e) /\ d[i] = e[i - 1]
      /\ Head(d) = d[1]
  OBVIOUS
<1> HIDE DEF e
<1>2. Answered(e)
  <2> SUFFICES ASSUME NEW i \in 1 .. Len(e), e[i].type = "taken"
               PROVE  \E j \in i + 1 .. Len(e) : e[j].type = "rejoined"
    BY DEF Answered
  <2>1. i + 1 \in 1 .. Len(d) /\ d[i + 1].type = "taken"
    BY <1>1
  <2>2. PICK j \in (i + 1) + 1 .. Len(d) : d[j].type = "rejoined"
    BY <2>1 DEF Answered
  <2>3. j \in 2 .. Len(d) /\ j - 1 \in i + 1 .. Len(e)
    BY <1>1, <2>1
  <2>4. QED BY <1>1, <2>2, <2>3
<1>3. LastTells(e, state)
  <2> SUFFICES ASSUME NEW i \in 1 .. Len(e), ~Neutral(e[i]),
                      \A j \in i + 1 .. Len(e) : Neutral(e[j])
               PROVE  Tells(e[i], state)
    BY DEF LastTells
  <2>1. i + 1 \in 1 .. Len(d) /\ e[i] = d[i + 1]
    BY <1>1
  <2>2. \A j \in (i + 1) + 1 .. Len(d) : Neutral(d[j])
    <3> SUFFICES ASSUME NEW j \in (i + 1) + 1 .. Len(d) PROVE Neutral(d[j])
      OBVIOUS
    <3>1. j \in 2 .. Len(d) /\ j - 1 \in i + 1 .. Len(e)
      BY <1>1, <2>1
    <3>2. QED BY <1>1, <3>1
  <2>3. QED BY <2>1, <2>2 DEF LastTells
<1>4. HasRejoin(d) => d[1].type = "rejoined" \/ HasRejoin(e)
  <2> SUFFICES ASSUME NEW i \in 1 .. Len(d), d[i].type = "rejoined",
                      d[1].type # "rejoined"
               PROVE  HasRejoin(e)
    BY DEF HasRejoin
  <2>1. i \in 2 .. Len(d)
    BY <1>1
  <2>2. QED BY <1>1, <2>1 DEF HasRejoin
<1>5. d[1].type = "taken" => HasRejoin(e)
  <2> SUFFICES ASSUME d[1].type = "taken" PROVE HasRejoin(e)
    OBVIOUS
  <2>1. PICK j \in 1 + 1 .. Len(d) : d[j].type = "rejoined"
    BY <1>1 DEF Answered
  <2>2. j \in 2 .. Len(d)
    OBVIOUS
  <2>3. QED BY <1>1, <2>1, <2>2 DEF HasRejoin
<1>6. HasRejoin(e) => ~Quiet(e)
  BY DEF HasRejoin, Quiet, Neutral
<1>7. Quiet(e) /\ Neutral(d[1]) => Quiet(d)
  <2> SUFFICES ASSUME Quiet(e), Neutral(d[1]), NEW i \in 1 .. Len(d)
               PROVE  Neutral(d[i])
    BY DEF Quiet
  <2>1. CASE i = 1
    BY <2>1
  <2>2. CASE i # 1
    <3>1. i \in 2 .. Len(d)
      BY <2>2
    <3>2. QED BY <1>1, <3>1 DEF Quiet
  <2>3. QED BY <2>1, <2>2
<1>8. Quiet(e) /\ ~Neutral(d[1]) => Tells(d[1], state)
  <2> SUFFICES ASSUME Quiet(e), ~Neutral(d[1]) PROVE Tells(d[1], state)
    OBVIOUS
  <2>1. 1 \in 1 .. Len(d)
    BY <1>1
  <2>2. \A j \in 1 + 1 .. Len(d) : Neutral(d[j])
    <3> SUFFICES ASSUME NEW j \in 1 + 1 .. Len(d) PROVE Neutral(d[j])
      OBVIOUS
    <3>1. j \in 2 .. Len(d)
      OBVIOUS
    <3>2. QED BY <1>1, <3>1 DEF Quiet
  <2>3. QED BY <2>1, <2>2 DEF LastTells
<1>9. QED BY <1>1, <1>2, <1>3, <1>4, <1>5, <1>6, <1>7, <1>8 DEF e

-----------------------------------------------------------------------------
(* The holder hears, whatever happens.                                     *)

\* A step that leaves the holder what it sees, and what it is told, alone.
LEMMA StillHears ==
    ASSUME HolderHears,
           \A u \in Tabs : seat' = u /\ u \in joined' =>
               /\ seat = u /\ u \in joined /\ phase' = phase
               /\ down'[u] = down[u] /\ shown'[u] = shown[u]
               /\ u \in banner' => u \in banner
               /\ u \in loose => u \in loose'
    PROVE  HolderHears'
BY DEF HolderHears, Hears, View

\* Whoever takes the seat is told where the room is.
LEMMA TakerHears ==
    ASSUME IInv, HolderHears, NEW t \in Tabs, TakeSeat(t), phase' = phase
    PROVE  HolderHears'
<1> USE TypeParts, TabsAssumption
<1>1. CASE seat = "absent"
  BY <1>1 DEF TakeSeat, HolderHears
<1>2. CASE seat # "absent"
  <2>1. seat' = t
    BY <1>2 DEF TakeSeat
  <2>2. PICK f \in Frames :
          f = RejoinedRoom /\ f.type = "rejoined" /\ f.state = phase
    <3>1. RejoinedRoom \in Frames
      BY DEF IInv, ServerTypes, RejoinedRoom, Frames, FrameTypes
    <3>2. RejoinedRoom.type = "rejoined" /\ RejoinedRoom.state = phase
      BY DEF RejoinedRoom
    <3>3. QED BY <3>1, <3>2
  <2>3. down'[t] = down[t] \o <<f>>
    <3>1. PICK e : e = Ousted(Tabs \ {t})
      OBVIOUS
    <3>2. Tabs \ {t} \subseteq Tabs /\ TypeOK /\ Seating
      BY DEF IInv
    <3>3. e \in [Tabs -> Seq(Frames)] /\ e[t] = down[t]
      BY <3>1, <3>2, OustedInv
    <3>4. down' = [e EXCEPT ![t] = e[t] \o <<f>>]
      BY <1>2, <2>2, <3>1 DEF TakeSeat, To
    <3>5. QED BY ONLY <3>3, <3>4, t \in Tabs
  <2>4. PICK d \in Seq(Frames) : d = down[t]
    BY DEF IInv, Channels
  <2>5. PICK p : p = phase
    OBVIOUS
  <2>6. ~Neutral(f) /\ Tells(f, p)
    BY <2>2, <2>5 DEF Neutral, Tells
  <2>7. /\ HasRejoin(d \o <<f>>) /\ Answered(d \o <<f>>)
        /\ LastTells(d \o <<f>>, p) /\ ~Quiet(d \o <<f>>)
    BY <2>2, <2>6, MoreTelling
  <2>8. Hears(t)'
    BY <2>3, <2>4, <2>5, <2>7 DEF Hears
  <2>9. QED BY <2>1, <2>8 DEF HolderHears
<1>3. QED BY <1>1, <1>2

\* Whoever has the seat is told of every move of the room, and of nothing else
\* that would change its view.
LEMMA MoveHeard ==
    ASSUME IInv, HolderHears, NEW next \in Phases, Broadcast(Announced(next)),
           phase' = next, seat' = seat, banner' = banner, joined' = joined,
           \A u \in Tabs : "room" \in shown[u] => "room" \in shown'[u]
    PROVE  HolderHears'
<1> USE TypeParts
<1> SUFFICES ASSUME NEW t \in Tabs, seat = t, t \in joined PROVE Hears(t)'
  BY DEF HolderHears
<1>1. PICK f \in Frames : f = Announced(next) /\ ~Neutral(f) /\ Tells(f, next)
  BY FrameType DEF Announced, FrameTypes, Phases, Neutral, Tells
<1>2. down'[t] = down[t] \o <<f>>
  BY <1>1 DEF Broadcast, To, IInv, Channels
<1>3. PICK d \in Seq(Frames) : d = down[t]
  BY DEF IInv, Channels
<1>4. /\ t \in banner \/ "room" \notin shown[t] => HasRejoin(d)
      /\ Answered(d)
  BY <1>3 DEF HolderHears, Hears
<1>5. /\ HasRejoin(d) => HasRejoin(d \o <<f>>)
      /\ Answered(d \o <<f>>)
      /\ LastTells(d \o <<f>>, next) /\ ~Quiet(d \o <<f>>)
  BY <1>1, <1>4, MoreTelling
<1>6. QED BY <1>2, <1>3, <1>4, <1>5 DEF Hears

LEMMA LobbyHeard ==
    ASSUME IInv, HolderHears, LobbyChanges
    PROVE  HolderHears'
<1> USE TypeParts DEF LobbyChanges, page, server
<1> SUFFICES ASSUME NEW t \in Tabs, seat = t, t \in joined PROVE Hears(t)'
  BY DEF HolderHears
<1>1. PICK f \in Frames : f = Frame("lobby_state") /\ Neutral(f)
  BY FrameType DEF FrameTypes, Neutral
<1>2. down'[t] = down[t] \o <<f>>
  BY <1>1 DEF Broadcast, To, IInv, Channels
<1>3. PICK d \in Seq(Frames) : d = down[t]
  BY DEF IInv, Channels
<1>4. PICK p : p = phase
  OBVIOUS
<1>5. /\ t \in banner \/ "room" \notin shown[t] => HasRejoin(d)
      /\ Answered(d) /\ LastTells(d, p)
      /\ Quiet(d) /\ t \notin loose => View(t) = ViewOf[phase]
  BY <1>3, <1>4 DEF HolderHears, Hears
<1>6. /\ HasRejoin(d) => HasRejoin(d \o <<f>>)
      /\ Answered(d \o <<f>>)
      /\ LastTells(d \o <<f>>, p)
      /\ Quiet(d \o <<f>>) => Quiet(d)
  BY <1>1, <1>5, MoreNeutral
<1>7. View(t)' = View(t)
  BY DEF View
<1>8. QED BY <1>2, <1>3, <1>4, <1>5, <1>6, <1>7 DEF Hears

-----------------------------------------------------------------------------
(* What the holder makes of a frame.                                       *)

LEMMA FrameHeard ==
    ASSUME IInv, HolderHears, NEW t \in Tabs, Receive(t)
    PROVE  HolderHears'
<1> USE TypeParts
<1>0. phase' = phase /\ seat' = seat /\ joined' \subseteq joined
  BY DEF Receive, ReceiveTaken, ReceiveClose, ReceiveRejoined, ReceiveInvalid,
     ReceiveRoomFrame, Closed, server
<1>1. CASE seat # t \/ t \notin joined
  <2>1. \A u \in Tabs \ {t} :
          /\ down'[u] = down[u] /\ shown'[u] = shown[u]
          /\ u \in banner' => u \in banner
          /\ u \in loose => u \in loose'
    <3>1. down' = [down EXCEPT ![t] = down'[t]]
      BY DEF Receive, ReceiveTaken, ReceiveClose, ReceiveRejoined,
         ReceiveInvalid, ReceiveRoomFrame, Closed, Consumed, IInv, Channels
    <3>2. shown' = [shown EXCEPT ![t] = shown'[t]]
      BY DEF Receive, ReceiveTaken, ReceiveClose, ReceiveRejoined,
         ReceiveInvalid, ReceiveRoomFrame, page, IInv, PageTypes
    <3>3. /\ banner' \subseteq banner \cup {t}
          /\ loose \subseteq loose' \cup {t}
      BY DEF Receive, ReceiveTaken, ReceiveClose, ReceiveRejoined,
         ReceiveInvalid, ReceiveRoomFrame, Closed, page, Set
    <3>4. QED BY <3>1, <3>2, <3>3 DEF IInv, Channels, PageTypes
  <2>2. QED BY <1>0, <1>1, <2>1, StillHears
<1>2. CASE seat = t /\ t \in joined
  <2>1. Clear(down[t])
    BY <1>2, ReachesClear DEF IInv, Seating, SeatReached
  <2>2. ~ReceiveClose(t)
    <3>1. ASSUME ReceiveClose(t) PROVE FALSE
      <4>1. /\ down[t] \in Seq(Frames) /\ down[t] # << >>
            /\ Head(down[t]).type \in Closing
        BY <3>1 DEF ReceiveClose, Arrives, IInv, Channels
      <4>2. 1 \in 1 .. Len(down[t]) /\ Head(down[t]) = down[t][1]
        BY <4>1
      <4>3. QED BY <2>1, <4>1, <4>2 DEF Clear
    <3>2. QED BY <3>1
  <2>3. PICK d \in Seq(Frames) : d = down[t]
    BY DEF IInv, Channels
  <2>4. PICK p \in Phases : p = phase
    BY DEF IInv, ServerTypes
  <2>5. PICK s \in SUBSET {"room", "passage", "countdown", "results"} :
          s = shown[t]
    BY DEF IInv, PageTypes
  <2>6. d # << >> /\ down'[t] = Tail(d)
    BY <2>2, <2>3 DEF Receive, ReceiveTaken, ReceiveRejoined, ReceiveInvalid,
       ReceiveRoomFrame, Arrives, Consumed, IInv, Channels
  <2>7. /\ t \in banner \/ "room" \notin s => HasRejoin(d)
        /\ Answered(d) /\ LastTells(d, p)
        /\ Quiet(d) /\ t \notin loose => View(t) = ViewOf[p]
    BY <1>2, <2>3, <2>4, <2>5 DEF HolderHears, Hears
  <2>8. /\ Answered(Tail(d)) /\ LastTells(Tail(d), p)
        /\ HasRejoin(d) => Head(d).type = "rejoined" \/ HasRejoin(Tail(d))
        /\ Head(d).type = "taken" => HasRejoin(Tail(d))
        /\ HasRejoin(Tail(d)) => ~Quiet(Tail(d))
        /\ Quiet(Tail(d)) /\ Neutral(Head(d)) => Quiet(d)
        /\ Quiet(Tail(d)) /\ ~Neutral(Head(d)) => Tells(Head(d), p)
    BY <2>6, <2>7, OneLess
  <2>9. SUFFICES
          /\ t \in banner' \/ "room" \notin shown'[t] => HasRejoin(Tail(d))
          /\ Quiet(Tail(d)) /\ t \notin loose' => View(t)' = ViewOf[p]
    BY <1>0, <1>2, <2>4, <2>6, <2>8 DEF HolderHears, Hears
  <2>10. CASE ReceiveTaken(t)
    BY <2>3, <2>8, <2>10 DEF ReceiveTaken, Arrives
  <2>11. CASE ReceiveRejoined(t)
    <3>1. /\ Head(d).type = "rejoined" /\ t \notin banner'
          /\ shown'[t] = Resumed(s, Head(d).state)
          /\ loose' = Set(loose, t, Head(d).state # "lobby")
      BY <1>2, <2>3, <2>5, <2>11
         DEF ReceiveRejoined, Arrives, IInv, PageTypes
    <3>2. "room" \in shown'[t]
      BY <3>1 DEF Resumed
    <3>3. ASSUME Quiet(Tail(d)), t \notin loose' PROVE View(t)' = ViewOf[p]
      <4>1. Head(d).state = "lobby"
        BY <3>1, <3>3 DEF Set
      <4>2. p = "lobby"
        BY <2>8, <3>1, <3>3, <4>1 DEF Neutral, Tells
      <4>3. shown'[t] = {"room"}
        BY <3>1, <4>1 DEF Resumed, ResetRaceUi
      <4>4. QED BY <4>2, <4>3 DEF View, ViewOf
    <3>4. QED BY <3>1, <3>2, <3>3
  <2>12. CASE ReceiveInvalid(t)
    <3>1. /\ Head(d).type = "invalid" /\ banner' = banner
          /\ shown' = shown /\ loose' = loose
      BY <2>3, <2>12 DEF ReceiveInvalid, Arrives
    <3>2. View(t)' = View(t)
      BY <3>1 DEF View
    <3>3. QED BY <2>5, <2>7, <2>8, <3>1, <3>2 DEF Neutral
  <2>13. ASSUME NEW ty \in {"lobby_state", "countdown", "race_start",
                            "race_end", "return_to_lobby"},
                ReceiveRoomFrame(t, ty)
         PROVE  /\ t \in banner' \/ "room" \notin shown'[t] =>
                      HasRejoin(Tail(d))
                /\ Quiet(Tail(d)) /\ t \notin loose' => View(t)' = ViewOf[p]
    <3>1. /\ Head(d).type = ty /\ banner' = banner
          /\ shown'[t] = Updated(s, ty)
          /\ loose' = IF ty = "lobby_state" THEN loose ELSE loose \ {t}
      BY <2>3, <2>5, <2>13
         DEF ReceiveRoomFrame, Arrives, IInv, PageTypes
    <3>2. "room" \in s => "room" \in shown'[t]
      BY <3>1 DEF Updated, ResetRaceUi
    <3>3. t \in banner' \/ "room" \notin shown'[t] => HasRejoin(Tail(d))
      BY <2>7, <2>8, <3>1, <3>2
    <3>4. ASSUME Quiet(Tail(d)), t \notin loose' PROVE View(t)' = ViewOf[p]
      <4>1. CASE ty = "lobby_state"
        <5>1. View(t) = ViewOf[p]
          BY <2>7, <2>8, <3>1, <3>4, <4>1 DEF Neutral
        <5>2. shown'[t] = s \cup {"room"}
          BY <3>1, <4>1 DEF Updated
        <5>3. QED BY <2>5, <5>1, <5>2 DEF View, ViewOf, Phases
      <4>2. CASE ty # "lobby_state"
        <5>1. Tells(Head(d), p)
          BY <2>8, <3>1, <3>4, <4>2 DEF Neutral
        <5>2. "room" \in s
          BY <2>7, <2>8, <3>1, <3>4, <4>2
        <5>3. QED BY <3>1, <4>2, <5>1, <5>2
                 DEF Tells, Updated, ResetRaceUi, View, ViewOf, Phases
      <4>3. QED BY <4>1, <4>2
    <3>5. QED BY <3>3, <3>4
  <2>14. QED BY <2>2, <2>10, <2>11, <2>12, <2>13 DEF Receive
<1>3. QED BY <1>1, <1>2
-----------------------------------------------------------------------------
(* The invariant.                                                          *)

LEMMA HearsInit == Init => HolderHears
<1> SUFFICES ASSUME Init, NEW t \in Tabs, seat = t PROVE Hears(t)
  BY DEF HolderHears
<1>1. down[t] = << >> /\ shown[t] = {"room"} /\ banner = {} /\ phase = "lobby"
  BY DEF Init
<1>2. Answered(<< >>) /\ LastTells(<< >>, phase)
  BY DEF Answered, LastTells
<1>3. View(t) = ViewOf[phase]
  BY <1>1 DEF View, ViewOf
<1>4. QED BY <1>1, <1>2, <1>3 DEF Hears

\* A request of Open or Reclaim.
LEMMA RejoinHears ==
    ASSUME IInv, HolderHears, NEW t \in Tabs, UNCHANGED <<page, phase, loose>>,
           Rejoin(t) \/ UNCHANGED <<seat, joined, down, late>>
    PROVE  HolderHears'
<1>1. CASE TakeSeat(t)
  BY <1>1, TakerHears
<1>2. CASE /\ down' = IF Awaits(t, Closing) THEN down
                      ELSE To(down, t, <<Frame("close")>>)
           /\ Vanish(t) /\ joined' = joined
  <2>1. \A u \in Tabs \ {t} : down'[u] = down[u]
    BY <1>2, TypeParts DEF To, IInv, Channels
  <2>2. \A u \in Tabs : seat' = u => seat = u /\ u # t
    BY <1>2, TabsAssumption DEF Vanish
  <2>3. QED BY <1>2, <2>1, <2>2, StillHears DEF page
<1>3. CASE UNCHANGED <<seat, joined, down, late>>
  BY <1>3, StillHears DEF page
<1>4. QED BY <1>1, <1>2, <1>3 DEF Rejoin

LEMMA TabHears ==
    ASSUME IInv, HolderHears, NEW t \in Tabs, Tab(t)
    PROVE  HolderHears'
<1> USE TypeParts, TabsAssumption
<1>1. CASE Load(t)
  <2>1. \A u \in Tabs \ {t} : down'[u] = down[u] /\ shown'[u] = shown[u]
    BY <1>1 DEF Load, IInv, Channels, PageTypes
  <2>2. \A u \in Tabs : seat' = u => seat = u /\ u # t
    BY <1>1 DEF Load, Vanish
  <2>3. /\ phase' = phase /\ banner' \subseteq banner
        /\ joined' \subseteq joined /\ loose \subseteq loose' \cup {t}
    BY <1>1 DEF Load
  <2>4. QED BY <2>1, <2>2, <2>3, StillHears
<1>2. CASE Open(t) \/ Reclaim(t)
  <2>1. UNCHANGED <<page, phase, loose>>
    BY <1>2 DEF Open, Reclaim
  <2>2. Rejoin(t) \/ UNCHANGED <<seat, joined, down, late>>
    BY <1>2 DEF Open, Reclaim
  <2>3. QED BY <2>1, <2>2, RejoinHears
<1>3. CASE FailToConnect(t) \/ Drop(t)
  <2>1. \A u \in Tabs \ {t} : down'[u] = down[u]
    BY <1>3 DEF FailToConnect, Drop, Closed, IInv, Channels
  <2>2. \A u \in Tabs : seat' = u => seat = u
    BY <1>3 DEF FailToConnect, Drop, Vanish, server
  <2>3. /\ UNCHANGED <<phase, shown, banner>>
        /\ joined' = joined \ {t} /\ loose \subseteq loose' \cup {t}
    BY <1>3 DEF FailToConnect, Drop, Closed, page, server
  <2>4. QED BY <2>1, <2>2, <2>3, StillHears
<1>4. CASE Reconnect(t) \/ RejoinTimeout(t)
  BY <1>4, StillHears DEF Reconnect, RejoinTimeout, page, server
<1>5. CASE Receive(t)
  BY <1>5, FrameHeard
<1>6. CASE ServerCloses(t)
  BY <1>6, StillHears DEF ServerCloses
<1>7. CASE FramesLost(t)
  <2>1. \A u \in Tabs \ {t} : down'[u] = down[u]
    BY <1>7 DEF FramesLost, IInv, Channels
  <2>2. /\ UNCHANGED <<phase, seat, shown, banner>>
        /\ joined' = joined \ {t} /\ loose \subseteq loose' \cup {t}
    BY <1>7 DEF FramesLost, page, server
  <2>3. QED BY <2>1, <2>2, StillHears
<1>8. CASE Leave(t)
  <2>1. \A u \in Tabs \ {t} : shown'[u] = shown[u]
    BY <1>8 DEF Leave, IInv, PageTypes
  <2>2. /\ UNCHANGED <<banner, down>>
        /\ joined' = joined \ {t} /\ loose \subseteq loose' \cup {t}
    BY <1>8 DEF Leave
  <2>3. \A u \in Tabs : seat' = u => seat = u /\ phase' = phase
    BY <1>8 DEF Leave, GiveUpSeat, server
  <2>4. QED BY <2>1, <2>2, <2>3, StillHears
<1>9. ASSUME NEW next \in {"countdown", "lobby"}, AskAgain(t, next)
      PROVE  HolderHears'
  <2> USE <1>9 DEF AskAgain
  <2>1. /\ shown' = [shown EXCEPT ![t] = ResetRaceUi(@)]
        /\ seat' = seat /\ banner' = banner /\ joined' = joined
        /\ loose' = Set(loose, t, t \in loose \/ (seat = t /\ t \in joined))
    OBVIOUS
  <2>2. \A u \in Tabs : "room" \in shown[u] => "room" \in shown'[u]
    BY <2>1 DEF ResetRaceUi, IInv, PageTypes
  <2>3. \A u \in Tabs \ {t} : shown'[u] = shown[u]
    BY <2>1 DEF IInv, PageTypes
  <2>4. CASE phase' = next /\ Broadcast(Announced(next))
    <3>1. next \in Phases
      BY DEF Phases
    <3>2. QED BY <2>1, <2>2, <2>4, <3>1, MoveHeard
  <2>5. CASE UNCHANGED <<phase, down>>
    <3>1. CASE seat = t /\ t \in joined
      <4>1. t \in loose'
        BY <2>1, <3>1 DEF Set
      <4>2. /\ t \in banner' \/ "room" \notin shown'[t] => HasRejoin(down'[t])
            /\ Answered(down'[t]) /\ LastTells(down'[t], phase')
        BY <2>1, <2>2, <2>5, <3>1 DEF HolderHears, Hears
      <4>3. Hears(t)'
        BY <4>1, <4>2 DEF Hears
      <4>4. QED BY <2>1, <3>1, <4>3 DEF HolderHears
    <3>2. CASE ~(seat = t /\ t \in joined)
      <4>1. \A u \in Tabs \ {t} : u \in loose => u \in loose'
        BY <2>1 DEF Set
      <4>2. QED BY <2>1, <2>3, <2>5, <3>2, <4>1, StillHears
    <3>3. QED BY <3>1, <3>2
  <2>6. QED BY <2>4, <2>5
<1>10. QED BY <1>1, <1>2, <1>3, <1>4, <1>5, <1>6, <1>7, <1>8, <1>9 DEF Tab

LEMMA HearsNext == IInv /\ HolderHears /\ [Next]_vars => HolderHears'
<1> SUFFICES ASSUME IInv, HolderHears, [Next]_vars PROVE HolderHears'
  OBVIOUS
<1> USE TypeParts, TabsAssumption
<1>1. ASSUME NEW t \in Tabs, Tab(t) PROVE HolderHears'
  BY <1>1, TabHears
<1>2. CASE \/ TakeSeatLate \/ Evict
           \/ EngineRestart \/ GatewayRestart \/ Restart
  <2>1. \A u \in Tabs : seat' # u
    BY <1>2 DEF TakeSeatLate, Evict, EngineRestart, GatewayRestart, Restart,
       GiveUpSeat, IInv, ServerTypes
  <2>2. QED BY <2>1 DEF HolderHears
<1>3. ASSUME NEW next \in Phases, RoomMoves(next) PROVE HolderHears'
  BY <1>3, MoveHeard DEF RoomMoves, page
<1>4. CASE LobbyChanges
  BY <1>4, LobbyHeard
<1>5. CASE UNCHANGED vars
  BY <1>5, StillHears DEF vars, page, server
<1>6. QED BY <1>1, <1>2, <1>3, <1>4, <1>5 DEF Next

\* Through reconnects, takeovers back and forth and frames of the last race, the
\* tab that holds the seat shows the room where it is once its frames have
\* arrived, unless one was lost with the link (RaceClient.dispatch, App's views
\* and rejoinPlayer).
THEOREM HolderView == Spec => []HolderSeesRoom
<1>1. ASSUME TypeOK, HolderHears PROVE HolderSeesRoom
  <2> SUFFICES ASSUME NEW t \in Tabs, seat = t, t \in joined,
                      down[t] = << >>
               PROVE  /\ t \notin banner /\ View(t) # "landing"
                      /\ t \notin loose => View(t) = ViewOf[phase]
    BY DEF HolderSeesRoom
  <2>1. ~HasRejoin(<< >>) /\ Quiet(<< >>)
    BY DEF HasRejoin, Quiet
  <2>2. t \notin banner /\ "room" \in shown[t]
    BY <1>1, <2>1 DEF HolderHears, Hears
  <2>3. t \notin loose => View(t) = ViewOf[phase]
    BY <1>1, <2>1 DEF HolderHears, Hears
  <2>4. QED BY <2>2, <2>3 DEF View
<1>2. IInv => TypeOK
  BY DEF IInv
<1>3. QED BY <1>1, <1>2, Inductive, HearsInit, HearsNext, PTL DEF Spec
=============================================================================
