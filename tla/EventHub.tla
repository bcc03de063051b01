-------------------------------- MODULE EventHub --------------------------------
(***************************************************************************)
(* hub.ts and the two SSE routes of events/index.ts that read from a hub:  *)
(* a broadcast that never waits, a bounded queue for every subscriber, a   *)
(* next() that takes from the queue or leaves a resolver behind together   *)
(* with a timeout, the loop of the route that writes what next() yields    *)
(* and keeps the stream warm with heartbeats, and the cap of ratelimit.ts  *)
(* on the streams of one IP address.                                       *)
(*                                                                         *)
(* The process has one thread: what lies between two awaits is one action, *)
(* and the actions are where it waits, for a write, a timer or an event.   *)
(* A value of Streams is one request, with the record of its subscriber,   *)
(* which Hub.connect makes. Topic is the season of a launch event; a       *)
(* stream of /events wants them all.                                       *)
(*                                                                         *)
(* An operator under the word Slip is a variant with a plausible bug, as   *)
(* in LaunchEscrow; nothing refers to it.                                  *)
(***************************************************************************)
EXTENDS Naturals, FiniteSets, SequencesExt

CONSTANTS
    Streams,          \* requests for a stream
    Ips,              \* client addresses
    IpOf,             \* the address each request comes from
    Wants,            \* the topics each stream writes
    Attentive,        \* the clients that keep reading
    EventsConns,      \* streams that one address may have
    PerConnQueueMax,  \* events that a queue may hold before something is shed
    Kinds,            \* priorities and topics of the events
    MaxBatch,         \* bound: events in one broadcast
    MaxEvents,        \* bound: events broadcast in all
    MaxTimers,        \* bound: timeouts of one subscriber that have not run out
    NoEvent

Priorities == {"HIGH", "MEDIUM", "LOW"}
Topics == {kind.topic : kind \in Kinds}
Event == [id: 1..MaxEvents, priority: Priorities, topic: Topics]

ASSUME HubConstants ==
    /\ IsFiniteSet(Streams) /\ Attentive \subseteq Streams
    /\ IpOf \in [Streams -> Ips]
    /\ \A kind \in Kinds : kind.priority \in Priorities
    /\ Wants \in [Streams -> SUBSET Topics]
    /\ EventsConns \in Nat /\ PerConnQueueMax \in Nat
    /\ MaxBatch \in Nat /\ MaxEvents \in Nat /\ MaxTimers \in Nat \ {0}
    /\ NoEvent \notin Event

VARIABLES
    subs,             \* the stream of every request and its subscriber
    countsByIp,       \* streams counted for each address
    nextEventId       \* the counter that the tick engine and the HP broadcasts share

hubVars == <<subs, countsByIp, nextEventId>>

\* What a request does: it has not come, was refused (429) or failed (500), or
\* its loop is at its head, writes a heartbeat, waits in next(), writes an
\* event, or has ended.
Phases == {"Idle", "Refused", "Failed", "Top", "Beating", "Waiting", "Writing", "Closed"}
Running == {"Top", "Beating", "Waiting", "Writing"}
Open == {c \in Streams : subs[c].phase \in Running}

\* resolver and timers hold the calls of next() that wait and whose timeout is
\* still to come, numbered from 1; 0 is no resolver. The last three fields are
\* history: what was broadcast to the subscriber, shed and written.
NewSub(phase) ==
    [phase |-> phase, queue |-> <<>>, resolver |-> 0, timers |-> {}, hand |-> NoEvent,
     aborted |-> FALSE, pendingHeartbeat |-> FALSE,
     sent |-> <<>>, shed |-> {}, written |-> <<>>]

HubInit ==
    /\ subs = [c \in Streams |-> NewSub("Idle")]
    /\ countsByIp = [ip \in Ips |-> 0]
    /\ nextEventId = 1
-------------------------------------------------------------------------------
(* The cap on the streams of an address. *)

Claim(counts, ip) == [counts EXCEPT ![ip] = @ + 1]
Release(counts, ip) == [counts EXCEPT ![ip] = IF @ = 0 THEN 0 ELSE @ - 1]

Refuse(c) ==
    /\ subs[c].phase = "Idle"
    /\ countsByIp[IpOf[c]] >= EventsConns
    /\ subs' = [subs EXCEPT ![c].phase = "Refused"]
    /\ UNCHANGED <<countsByIp, nextEventId>>

\* The slot is claimed, and the engine or streamSSE throws before the loop and
\* its finally exist.
OpenFailsSlipKeepsSlot(c) ==
    /\ subs[c].phase = "Idle"
    /\ countsByIp[IpOf[c]] < EventsConns
    /\ countsByIp' = Claim(countsByIp, IpOf[c])
    /\ subs' = [subs EXCEPT ![c].phase = "Failed"]
    /\ UNCHANGED nextEventId

OpenFails(c) ==
    /\ subs[c].phase = "Idle"
    /\ countsByIp[IpOf[c]] < EventsConns
    /\ countsByIp' = Release(Claim(countsByIp, IpOf[c]), IpOf[c])
    /\ subs' = [subs EXCEPT ![c].phase = "Failed"]
    /\ UNCHANGED nextEventId

Connect(c) ==
    /\ subs[c].phase = "Idle"
    /\ countsByIp[IpOf[c]] < EventsConns
    /\ countsByIp' = Claim(countsByIp, IpOf[c])
    /\ subs' = [subs EXCEPT ![c] = NewSub("Top")]
    /\ UNCHANGED nextEventId
-------------------------------------------------------------------------------
(* Queues. *)

\* evictOne: the oldest LOW event, else the oldest MEDIUM one, else nothing.
EvictOneSlipOldestFirst(queue) ==
    LET sheddable == {i \in DOMAIN queue : queue[i].priority # "HIGH"}
    IN  IF sheddable = {} THEN queue ELSE RemoveAt(queue, Min(sheddable))

EvictOne(queue) ==
    LET Queued(p) == {i \in DOMAIN queue : queue[i].priority = p}
    IN  CASE Queued("LOW") # {} -> RemoveAt(queue, Min(Queued("LOW")))
          [] Queued("LOW") = {} /\ Queued("MEDIUM") # {} ->
                RemoveAt(queue, Min(Queued("MEDIUM")))
          [] OTHER -> queue

Push(queue, e) ==
    LET grown == Append(queue, e)
    IN  IF Len(grown) > PerConnQueueMax THEN EvictOne(grown) ELSE grown

Enqueue(s, es) ==
    LET queue == FoldLeft(Push, s.queue, es)
    IN  [s EXCEPT !.queue = queue,
                  !.shed = @ \cup (ToSet(s.queue \o es) \ ToSet(queue))]

\* next() has yielded e: the loop writes it, or passes over another season's.
Yield(c, s, e) ==
    IF e.topic \in Wants[c] THEN [s EXCEPT !.phase = "Writing", !.hand = e]
    ELSE [s EXCEPT !.phase = "Top"]

\* The events of a broadcast for one subscriber: a waiting next() takes the
\* first, and the queue the others.
Deliver(c, s, es) ==
    LET told == [s EXCEPT !.sent = @ \o es]
    IN  IF s.resolver = 0 THEN Enqueue(told, es)
        ELSE Enqueue(Yield(c, [told EXCEPT !.resolver = 0], Head(es)), Tail(es))

\* A tick's events, an HP update or a launch event; the ids are drawn just
\* before the broadcast, with no await between.
Broadcast(kinds) ==
    LET es == [i \in DOMAIN kinds |->
                  [id |-> nextEventId + i - 1, priority |-> kinds[i].priority,
                   topic |-> kinds[i].topic]]
    IN  /\ nextEventId + Len(kinds) - 1 <= MaxEvents
        /\ nextEventId' = nextEventId + Len(kinds)
        /\ subs' = [c \in Streams |-> IF c \in Open THEN Deliver(c, subs[c], es) ELSE subs[c]]
        /\ UNCHANGED countsByIp
-------------------------------------------------------------------------------
(* The loop of a stream. *)

\* sub.next(1_000): the head of the queue at once, or a resolver and its timeout.
NextEventSlipNoTimeout(c, s) ==
    IF s.queue # <<>>
    THEN Yield(c, [s EXCEPT !.queue = Tail(@)], Head(s.queue))
    ELSE [s EXCEPT !.phase = "Waiting", !.resolver = 1]

NextEvent(c, s) ==
    IF s.queue # <<>>
    THEN Yield(c, [s EXCEPT !.queue = Tail(@)], Head(s.queue))
    ELSE LET call == CHOOSE i \in 1..MaxTimers : i \notin s.timers
         IN  [s EXCEPT !.phase = "Waiting", !.resolver = call, !.timers = @ \cup {call}]

TimerToSpare(s) == s.queue # <<>> \/ s.timers # 1..MaxTimers

Read(c) ==
    /\ subs[c].phase = "Top" /\ ~subs[c].aborted /\ ~subs[c].pendingHeartbeat
    /\ TimerToSpare(subs[c])
    /\ subs' = [subs EXCEPT ![c] = NextEvent(c, @)]
    /\ UNCHANGED <<countsByIp, nextEventId>>

Beat(c) ==
    /\ subs[c].phase = "Top" /\ ~subs[c].aborted /\ subs[c].pendingHeartbeat
    /\ subs' = [subs EXCEPT ![c].phase = "Beating"]
    /\ UNCHANGED <<countsByIp, nextEventId>>

\* The flag falls after the write, and the loop goes on to next() without
\* looking at the stream again.
BeatDone(c) ==
    /\ subs[c].phase = "Beating"
    /\ TimerToSpare(subs[c])
    /\ subs' = [subs EXCEPT ![c] = NextEvent(c, [@ EXCEPT !.pendingHeartbeat = FALSE])]
    /\ UNCHANGED <<countsByIp, nextEventId>>

\* The client has taken the event; a write to a client that is gone also returns.
WriteDone(c) ==
    /\ subs[c].phase = "Writing"
    /\ subs' = [subs EXCEPT ![c].phase = "Top", ![c].hand = NoEvent,
                            ![c].written = IF subs[c].aborted THEN @ ELSE Append(@, subs[c].hand)]
    /\ UNCHANGED <<countsByIp, nextEventId>>

\* The end of the loop and its finally.
Close(c) ==
    /\ subs[c].phase = "Top" /\ subs[c].aborted
    /\ subs' = [subs EXCEPT ![c] = NewSub("Closed")]
    /\ countsByIp' = Release(countsByIp, IpOf[c])
    /\ UNCHANGED nextEventId

\* A timeout of next() wakes the loop only if its own resolver is still there.
TimerFiresSlipAnyResolver(c, i) ==
    /\ i \in subs[c].timers
    /\ subs' = [subs EXCEPT ![c].timers = @ \ {i}, ![c].resolver = 0,
                            ![c].phase = IF subs[c].resolver = i THEN "Top" ELSE @]
    /\ UNCHANGED <<countsByIp, nextEventId>>

TimerFires(c, i) ==
    /\ i \in subs[c].timers
    /\ subs' = [subs EXCEPT
                   ![c].timers = @ \ {i},
                   ![c].resolver = IF @ = i THEN 0 ELSE @,
                   ![c].phase = IF subs[c].resolver = i THEN "Top" ELSE @]
    /\ UNCHANGED <<countsByIp, nextEventId>>

HeartbeatDue(c) ==
    /\ c \in Open /\ ~subs[c].pendingHeartbeat
    /\ subs' = [subs EXCEPT ![c].pendingHeartbeat = TRUE]
    /\ UNCHANGED <<countsByIp, nextEventId>>

Abort(c) ==
    /\ c \in Open /\ ~subs[c].aborted
    /\ subs' = [subs EXCEPT ![c].aborted = TRUE]
    /\ UNCHANGED <<countsByIp, nextEventId>>
-------------------------------------------------------------------------------
Loop(c) == Read(c) \/ Beat(c) \/ Close(c)

HubNext ==
    \/ \E c \in Streams : Refuse(c) \/ OpenFails(c) \/ Connect(c)
    \/ \E n \in 1..MaxBatch : \E kinds \in [1..n -> Kinds] : Broadcast(kinds)
    \/ \E c \in Streams : Loop(c) \/ BeatDone(c) \/ WriteDone(c)
    \/ \E c \in Streams : \E i \in 1..MaxTimers : TimerFires(c, i)
    \/ \E c \in Streams : HeartbeatDue(c) \/ Abort(c)

\* The thread runs whatever is ready, timers run out, and a write returns if the
\* client reads or is gone. Clients need not come, nor leave, nor read.
Fairness ==
    \A c \in Streams :
        /\ WF_hubVars(Loop(c))
        /\ \A i \in 1..MaxTimers : WF_hubVars(TimerFires(c, i))
        /\ WF_hubVars((c \in Attentive \/ subs[c].aborted) /\ (BeatDone(c) \/ WriteDone(c)))

HubSpec == HubInit /\ [][HubNext]_hubVars /\ Fairness
-------------------------------------------------------------------------------
(* What holds. *)

\* Types, and the places where an event may be.
HubTypeOK ==
    /\ countsByIp \in [Ips -> 0..EventsConns]
    /\ nextEventId \in 1..(MaxEvents + 1)
    /\ DOMAIN subs = Streams
    /\ \A c \in Streams :
          /\ subs[c].phase \in Phases
          /\ subs[c].queue \in Seq(Event)
          /\ subs[c].timers \subseteq 1..MaxTimers
          /\ subs[c].resolver \in {0} \cup subs[c].timers
          /\ (subs[c].phase = "Writing") <=> subs[c].hand \in Event
          /\ (subs[c].phase # "Writing") <=> subs[c].hand = NoEvent
          /\ {subs[c].aborted, subs[c].pendingHeartbeat} \subseteq BOOLEAN
          /\ (c \notin Open) => subs[c] = NewSub(subs[c].phase)

\* "explicitly avoids leaving a stale resolver behind": the loop waits in next()
\* exactly while the hub holds a resolver for it, with nothing queued, and the
\* timeout of that very call is still to come (HubTypeOK), whatever older timeouts do.
WaiterIsRegistered ==
    \A c \in Streams :
        /\ (subs[c].phase = "Waiting") <=> (subs[c].resolver # 0)
        /\ (subs[c].phase = "Waiting") => (subs[c].queue = <<>>)

InOrder(es) == \A i, j \in DOMAIN es : i < j => es[i].id < es[j].id

Pipeline(s) == s.written \o (IF s.hand = NoEvent THEN <<>> ELSE <<s.hand>>) \o s.queue

\* What a client has been written, is being written and will find in the queue is
\* what was broadcast since it connected, in the order of the ids, without the
\* events shed and those of other seasons: none is lost in an abandoned promise,
\* doubled or overtaken, by timeouts, heartbeats or broadcasts of several events.
StreamIsBroadcastMinusShed ==
    \A c \in Open :
        LET s == subs[c]
            Wanted(es) == {e \in ToSet(es) : e.topic \in Wants[c]}
        IN  /\ InOrder(s.sent) /\ InOrder(Pipeline(s))
            /\ ~s.aborted => Wanted(Pipeline(s)) = Wanted(s.sent) \ s.shed

\* "evicts the oldest LOW event first, then the oldest MEDIUM, and never drops
\* HIGH": a broadcast sheds a MEDIUM event only if it leaves no LOW one in the
\* queue, sheds the oldest of a priority, and leaves a queue above its bound
\* only if every event in it is HIGH.
ShedsLowestFirst ==
    [][\A c \in Streams :
          c \in Open /\ c \in Open' =>
              LET dropped == subs'[c].shed \ subs[c].shed
                  kept == ToSet(subs'[c].queue)
              IN  /\ \A e \in dropped : e.priority # "HIGH"
                  /\ \A e \in dropped, k \in kept :
                        /\ (e.priority = "MEDIUM") => (k.priority # "LOW")
                        /\ (k.priority = e.priority) => (e.id < k.id)
                  /\ (dropped # {}) => (Len(subs'[c].queue) >= PerConnQueueMax)
                  /\ (Len(subs'[c].queue) > PerConnQueueMax) =>
                        \A k \in kept : k.priority = "HIGH"]_hubVars

\* What a stream carries is the broadcast less what was shed, and only what may be
\* shed is.
ShedsOnlyWhatItMay == []StreamIsBroadcastMinusShed /\ ShedsLowestFirst

\* Every open stream holds one slot of its address and nothing else does: no
\* refusal, failure, heartbeat or abort leaks or doubles one, and the cap holds.
SlotsMatchStreams ==
    \A ip \in Ips :
        /\ countsByIp[ip] = Cardinality({c \in Open : IpOf[c] = ip})
        /\ countsByIp[ip] <= EventsConns

\* "important signals always arrive even if the consumer is behind": a HIGH event
\* broadcast to a client that keeps reading is written to it, unless it leaves.
HighEventsReachClients ==
    \A c \in Attentive : \A n \in 1..MaxEvents :
        (\E e \in ToSet(subs[c].sent) :
            e.id = n /\ e.priority = "HIGH" /\ e.topic \in Wants[c])
          ~> (subs[c].aborted \/ c \notin Open \/ \E e \in ToSet(subs[c].written) : e.id = n)

\* A stream whose client is gone ends and gives its slot back, whatever it was
\* waiting for.
AbortedStreamsEnd == \A c \in Streams : subs[c].aborted ~> (subs[c].phase = "Closed")
==============================================================================
