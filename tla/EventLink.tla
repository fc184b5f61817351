------------------------------ MODULE EventLink ------------------------------
(***************************************************************************)
(* LoopbackIpcClient, the gateway's end of the link to the engine in split  *)
(* mode: it queues events while there is no connection, flushes them when   *)
(* one opens and reconnects whenever one ends. Events are numbered in the   *)
(* order publishToEngine is called with them.                              *)
(***************************************************************************)
EXTENDS Integers, Sequences

CONSTANTS
    QueueCap,  \* pendingQueue takes no more than this while disconnected (500)
    Events     \* bound: how many events are published

ASSUME LinkAssumption == QueueCap \in Nat /\ Events \in Nat

VARIABLES
    link,     \* this.ws and what is behind it: "off" has no socket or a closed
              \* one, "broken" is readyState OPEN with the peer gone
    retry,    \* reconnectTimer is set
    stopped,  \* isClosed
    pending,  \* pendingQueue
    wire,     \* events sent and not yet read by the engine
    sent,     \* how many events were published
    got,      \* the events the engine has read, in order
    threw     \* history: a send threw

linkVars == <<link, retry, stopped, pending, wire, sent, got, threw>>

LinkTypeOK ==
    /\ link \in {"off", "connecting", "open", "broken"}
    /\ retry \in BOOLEAN /\ stopped \in BOOLEAN /\ threw \in BOOLEAN
    /\ sent \in 0 .. Events
    /\ pending \in Seq(1 .. Events)
    /\ wire \in Seq(1 .. Events) /\ got \in Seq(1 .. Events)

LinkInit ==
    /\ link = "connecting" /\ retry = FALSE /\ stopped = FALSE
    /\ pending = <<>> /\ wire = <<>> /\ sent = 0 /\ got = <<>>
    /\ threw = FALSE

\* publishToEngine. An event whose send throws is queued without a limit, one
\* without a connection within it, and one into a broken connection is gone.
Publish ==
    /\ ~stopped /\ sent < Events /\ sent' = sent + 1
    /\ \/ /\ link = "open"
          /\ wire' = Append(wire, sent') /\ UNCHANGED <<pending, threw>>
       \/ link = "broken" /\ UNCHANGED <<wire, pending, threw>>
       \/ /\ link \in {"open", "broken"}
          /\ pending' = Append(pending, sent') /\ threw' = TRUE
          /\ UNCHANGED wire
       \/ /\ link \in {"off", "connecting"} /\ Len(pending) < QueueCap
          /\ pending' = Append(pending, sent') /\ UNCHANGED <<wire, threw>>
       \/ /\ link \in {"off", "connecting"} /\ Len(pending) >= QueueCap
          /\ UNCHANGED <<wire, pending, threw>>
    /\ UNCHANGED <<link, retry, stopped, got>>

\* onopen and flushPending. A send that throws leaves its event at the front.
Flushed_NewestFirst(n) ==
    [i \in 1 .. n |-> pending[Len(pending) + 1 - i]]
Flushed(n) == SubSeq(pending, 1, n)

LinkOpens ==
    /\ link = "connecting" /\ link' = "open"
    /\ \E n \in 0 .. Len(pending) :
         /\ wire' = wire \o Flushed(n)
         /\ pending' = SubSeq(pending, n + 1, Len(pending))
         /\ threw' = (threw \/ n < Len(pending))
    /\ UNCHANGED <<retry, stopped, sent, got>>

\* The connection ends: the engine reads only the first of what was sent.
LinkBreaks ==
    /\ link = "open" /\ link' = "broken"
    /\ \E n \in 0 .. Len(wire) : wire' = SubSeq(wire, 1, n)
    /\ UNCHANGED <<retry, stopped, pending, sent, got, threw>>

\* onclose of a connection that ended, or that was refused.
Reschedules_Never == retry
Reschedules == ~stopped \/ retry

LinkClosed ==
    /\ link \in {"connecting", "broken"} /\ link' = "off"
    /\ retry' = Reschedules
    /\ UNCHANGED <<stopped, pending, wire, sent, got, threw>>

\* reconnectTimer fires: connect().
LinkRetries ==
    /\ retry /\ retry' = FALSE
    /\ link' = "connecting"
    /\ UNCHANGED <<stopped, pending, wire, sent, got, threw>>

EngineReads ==
    /\ wire # <<>> /\ wire' = Tail(wire)
    /\ got' = Append(got, Head(wire))
    /\ UNCHANGED <<link, retry, stopped, pending, sent, threw>>

\* close(): the gateway shuts down.
LinkStops ==
    /\ ~stopped /\ stopped' = TRUE
    /\ link' = "off" /\ retry' = FALSE /\ pending' = <<>>
    /\ UNCHANGED <<wire, sent, got, threw>>

LinkNext ==
    \/ Publish \/ LinkOpens \/ LinkBreaks \/ LinkClosed \/ LinkRetries
    \/ EngineReads \/ LinkStops

LinkSpec == LinkInit /\ [][LinkNext]_linkVars

\* Timers fire and a lost connection is noticed; the engine is there again
\* whenever it is tried often enough (docker-compose.yml restarts it).
LinkFairness ==
    /\ WF_linkVars(LinkClosed) /\ WF_linkVars(LinkRetries)
    /\ SF_linkVars(LinkOpens)

\* The engine never reads an event after one published later, nor the same one
\* twice, through any number of breaks and flushes, as long as no send threw:
\* the membership events of Membership rest on it.
LinkInOrder ==
    ~threw => \A i, j \in DOMAIN got : i < j => got[i] < got[j]

\* What is queued is sent: the client does not sit on events with the link up,
\* nor give up reconnecting, until the gateway itself shuts down.
LinkFlushes == pending # <<>> /\ ~threw ~> pending = <<>> \/ threw
=============================================================================
