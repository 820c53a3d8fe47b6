---------------------------- MODULE MemoryQueue ----------------------------
(***************************************************************************)
(* The in-memory queue adapter (adapters/queue/memory): one topic name,    *)
(* the topicQueue objects that serve it over time, the producers and       *)
(* consumers that call Push, PushDelayed, Pop, Ack, Nack, Length and       *)
(* Close, and the promoter goroutines that move delayed messages to the    *)
(* ready list.                                                             *)
(*                                                                         *)
(* A step is what the code does between two synchronization points: each   *)
(* critical section on memoryAdapter.mu or topicQueue.mu is one action,    *)
(* and everything a goroutine does outside of them (a channel send, the    *)
(* return of a select) is an action of its own.  Topic names are           *)
(* independent of each other, so one name is enough; the topicQueue        *)
(* objects mounted under it one after the other are the set Queues.        *)
(*                                                                         *)
(* An operator placed just before another one, with the same parameters    *)
(* and its name with a suffix (DueEarly, Due), is a plausible bug in that  *)
(* definition: no specification uses it.  It is there to be put in the     *)
(* definition's place to see which property notices.                       *)
(***************************************************************************)
EXTENDS Naturals, Sequences, FiniteSets

CONSTANTS
    Producers,   \* goroutines that push
    Consumers,   \* goroutines that pop and settle
    Promoters,   \* bound: promoter goroutines ever started
    Queues,      \* bound: topicQueue objects ever allocated
    Messages,    \* bound: message ids ever generated
    Delays,      \* the delays callers pass; 0 is Push
    Visibility,  \* visibilityTimeout, in clock ticks
    Buffer,      \* memoryAdapter.buffer
    CompactAt,   \* the dead-prefix length past which ready is compacted (64)
    MaxTime,     \* bound: the last clock value
    MaxAttempt,  \* bound: the last attempt a Nack may requeue to
    None         \* no topic, no message, no channel

ASSUME ConstantsAssumption ==
    /\ Delays \subseteq Nat
    /\ Visibility \in Nat \ {0}
    /\ Buffer \in Nat \ {0}
    /\ CompactAt \in Nat
    /\ MaxTime \in Nat
    /\ MaxAttempt \in Nat \ {0}
    /\ None \notin Queues \cup Promoters \cup Messages

VARIABLES
    now,         \* time.Now()
    closed,      \* memoryAdapter.closed
    mounted,     \* memoryAdapter.topics[name], None when absent
    created,     \* the topicQueue objects allocated so far
    ready,       \* topicQueue.ready[head:], a sequence of messages
    head,        \* topicQueue.head, the length of the dead prefix
    delayed,     \* topicQueue.delayed, a set of [id, readyAt]
    inflight,    \* topicQueue.inflight, a set of [id, attempt, deadline]
    visHeap,     \* topicQueue.visHeap, a set of [id, deadline]
    promoterOn,  \* topicQueue.promoterOn
    quit,        \* whether the channel topicQueue.quit is closed
    done,        \* topicQueue.done, named after the promoter it was made for
    doneClosed,  \* the done channels that have been closed
    panicked,    \* a goroutine panicked: the process is gone
    ppc, ptopic, pdelay,          \* a producer: step, topic it holds, delay
    cpc, ctopic, cmsg,            \* a consumer: step, topic, message it holds
    gpc, gtopic, gdue, gnext, gdone,  \* a promoter: step, topic, due entries,
                                      \* the next readyAt (None: no more), done
    xpc, xtopic, xdone,           \* Close: step, topic and done channel read
    used,        \* history: the ids accepted by enqueue
    availableAt, \* history: when an accepted message may first be delivered
    delivered    \* history: every (id, attempt) Pop has returned

topicVars == <<ready, head, delayed, inflight, visHeap>>
promoVars == <<promoterOn, quit, done, doneClosed, panicked>>
prodVars  == <<ppc, ptopic, pdelay>>
consVars  == <<cpc, ctopic, cmsg>>
gVars     == <<gpc, gtopic, gdue, gnext, gdone>>
closeVars == <<xpc, xtopic, xdone>>
histVars  == <<used, availableAt, delivered>>

vars == <<now, closed, mounted, created, topicVars, promoVars, prodVars,
          consVars, gVars, closeVars, histVars>>

Message == [id : Messages, attempt : Nat]
Delayed == [id : Messages, readyAt : Nat]
Lease   == [id : Messages, attempt : Nat, deadline : Nat]
Expiry  == [id : Messages, deadline : Nat]

ConsumerSteps ==
    {"idle", "reclaim", "reclaimed", "try", "missed", "pended", "wait",
     "woken", "expired", "cancelled", "holding", "ack", "nackDrop",
     "nackRequeue", "sweep", "sweepSignal", "signal"}

PromoterSteps ==
    {"unborn", "top", "collect", "append", "signal", "off", "wait", "defer",
     "close", "exited"}

-----------------------------------------------------------------------------
(* The step a goroutine is at.  A panic in any of them ends the process:   *)
(* none is at a step any more.                                             *)
ProducerAt(p, step)  == ~panicked /\ ppc[p] = step
ConsumerAt(c, steps) == ~panicked /\ cpc[c] \in steps
PromoterAt(g, step)  == ~panicked /\ gpc[g] = step
CloserAt(step)       == ~panicked /\ xpc = step

(* The enumerations of a finite set: the orders a heap may yield its       *)
(* entries in, before the order of their times is imposed.                 *)
Orderings(S) ==
    {s \in [1..Cardinality(S) -> S] :
        /\ \A i, j \in 1..Cardinality(S) : s[i] = s[j] => i = j
        /\ \A e \in S : \E i \in 1..Cardinality(S) : s[i] = e}

(* signal(): the send on the unbuffered notify channel hands one consumer  *)
(* that is parked in Pop's select back to its loop, and is dropped when    *)
(* none is parked.  pcs is the consumers' step after the signalling step.  *)
Waiting(pcs, t) == {c \in Consumers : pcs[c] = "wait" /\ ctopic[c] = t}

Signalled(pcs, t) ==
    IF Waiting(pcs, t) = {}
    THEN {pcs}
    ELSE {[pcs EXCEPT ![c] = "woken"] : c \in Waiting(pcs, t)}

(* topicQueue.penders counts the consumers between penders++ and the       *)
(* matching penders--: about to park, parked, or just back from the select.*)
Penders(t) ==
    {c \in Consumers :
        /\ cpc[c] \in {"pended", "wait", "woken", "expired", "cancelled"}
        /\ ctopic[c] = t}

(* The emptiness test of sweepTopic.                                       *)
Drained(t) ==
    /\ ready[t] = <<>>
    /\ delayed[t] = {}
    /\ inflight[t] = {}
    /\ Penders(t) = {}

-----------------------------------------------------------------------------
Init ==
    /\ now = 0
    /\ closed = FALSE
    /\ mounted = None
    /\ created = {}
    /\ ready = [t \in Queues |-> <<>>]
    /\ head = [t \in Queues |-> 0]
    /\ delayed = [t \in Queues |-> {}]
    /\ inflight = [t \in Queues |-> {}]
    /\ visHeap = [t \in Queues |-> {}]
    /\ promoterOn = [t \in Queues |-> FALSE]
    /\ quit = [t \in Queues |-> FALSE]
    /\ done = [t \in Queues |-> None]
    /\ doneClosed = {}
    /\ panicked = FALSE
    /\ ppc = [p \in Producers |-> "idle"]
    /\ ptopic = [p \in Producers |-> None]
    /\ pdelay = [p \in Producers |-> 0]
    /\ cpc = [c \in Consumers |-> "idle"]
    /\ ctopic = [c \in Consumers |-> None]
    /\ cmsg = [c \in Consumers |-> None]
    /\ gpc = [g \in Promoters |-> "unborn"]
    /\ gtopic = [g \in Promoters |-> None]
    /\ gdue = [g \in Promoters |-> {}]
    /\ gnext = [g \in Promoters |-> None]
    /\ gdone = [g \in Promoters |-> None]
    /\ xpc = "idle"
    /\ xtopic = None
    /\ xdone = None
    /\ used = {}
    /\ availableAt = [m \in Messages |-> 0]
    /\ delivered = {}

Tick ==
    /\ ~panicked
    /\ now < MaxTime
    /\ now' = now + 1
    /\ UNCHANGED <<closed, mounted, created, topicVars, promoVars, prodVars,
                   consVars, gVars, closeVars, histVars>>

-----------------------------------------------------------------------------
(* Push and PushDelayed: topic(), waitForSpace or waitForDelayedSpace,     *)
(* enqueue, then the send on notify or promoteCh after the unlock.         *)

(* topic(): the mounted topicQueue, or a new one unless closed (ErrClosed, *)
(* nothing changes).                                                       *)
PushTopic(p, d) ==
    /\ ProducerAt(p, "idle")
    /\ used # Messages
    /\ \/ /\ mounted # None
          /\ ptopic' = [ptopic EXCEPT ![p] = mounted]
          /\ UNCHANGED <<mounted, created>>
       \/ /\ mounted = None
          /\ ~closed
          /\ \E t \in Queues \ created :
                /\ created' = created \cup {t}
                /\ mounted' = t
                /\ ptopic' = [ptopic EXCEPT ![p] = t]
    /\ ppc' = [ppc EXCEPT ![p] = "space"]
    /\ pdelay' = [pdelay EXCEPT ![p] = d]
    /\ UNCHANGED <<now, closed, topicVars, promoVars, consVars, gVars,
                   closeVars, histVars>>

(* The count waitForCapacity compares with buffer.  waitForDelayedSpace    *)
(* counts len(t.ready), the dead prefix included.                          *)
Load(t, d) ==
    IF d = 0
    THEN Len(ready[t])
    ELSE head[t] + Len(ready[t]) + Cardinality(delayed[t])

(* waitForCapacity returns nil.  A producer that finds the topic full      *)
(* looks again at every 50ms poll, so spaceCh only makes it look sooner    *)
(* and is not modelled.                                                    *)
PushSpace(p) ==
    /\ ProducerAt(p, "space")
    /\ Load(ptopic[p], pdelay[p]) < Buffer
    /\ ppc' = [ppc EXCEPT ![p] = "enqueue"]
    /\ UNCHANGED <<now, closed, mounted, created, topicVars, promoVars, ptopic,
                   pdelay, consVars, gVars, closeVars, histVars>>

(* waitForCapacity returns the context's error while the topic is full.    *)
PushCancel(p) ==
    /\ ProducerAt(p, "space")
    /\ Load(ptopic[p], pdelay[p]) >= Buffer
    /\ ppc' = [ppc EXCEPT ![p] = "idle"]
    /\ ptopic' = [ptopic EXCEPT ![p] = None]
    /\ UNCHANGED <<now, closed, mounted, created, topicVars, promoVars, pdelay,
                   consVars, gVars, closeVars, histVars>>

(* The promoters parked in waitForPromote's select.                        *)
Parked(t) == {g \in Promoters : gpc[g] = "wait" /\ gtopic[g] = t}

(* startPromoterLocked: nothing when promoterOn; otherwise a new done      *)
(* channel, a new quit channel if the old one is closed, and a goroutine.  *)
(* A promoter still parked on the quit channel that is replaced is leaving *)
(* its select, because that channel is closed.                             *)
StartPromoter(t) ==
    \/ /\ promoterOn[t]
       /\ UNCHANGED <<promoterOn, quit, done, gpc, gtopic>>
    \/ /\ ~promoterOn[t]
       /\ \E g \in Promoters :
             /\ gpc[g] = "unborn"
             /\ gpc' = [h \in Promoters |->
                   IF h = g \/ (quit[t] /\ h \in Parked(t))
                   THEN "top"
                   ELSE gpc[h]]
             /\ gtopic' = [gtopic EXCEPT ![g] = t]
             /\ done' = [done EXCEPT ![t] = g]
       /\ promoterOn' = [promoterOn EXCEPT ![t] = TRUE]
       /\ quit' = [quit EXCEPT ![t] = FALSE]

(* mountTopicLocked: the topic mounted meanwhile wins over the one held.   *)
MountTopic(t) == IF mounted # None THEN mounted ELSE t

(* The critical section of enqueue for a new message m.                    *)
Enqueue(p, m) ==
    /\ ProducerAt(p, "enqueue")
    /\ ~closed
    /\ m \notin used
    /\ LET t == MountTopic(ptopic[p]) IN
         /\ mounted' = t
         /\ ptopic' = [ptopic EXCEPT ![p] = t]
         /\ \/ /\ pdelay[p] = 0
               /\ ready' = [ready EXCEPT ![t] =
                               Append(@, [id |-> m, attempt |-> 1])]
               /\ UNCHANGED <<delayed, promoterOn, quit, done, gpc, gtopic>>
            \/ /\ pdelay[p] > 0
               /\ delayed' = [delayed EXCEPT ![t] =
                     @ \cup {[id |-> m, readyAt |-> now + pdelay[p]]}]
               /\ StartPromoter(t)
               /\ UNCHANGED ready
    /\ ppc' = [ppc EXCEPT ![p] = "signal"]
    /\ used' = used \cup {m}
    /\ availableAt' = [availableAt EXCEPT ![m] = now + pdelay[p]]
    /\ UNCHANGED <<now, closed, created, head, inflight, visHeap, doneClosed,
                   panicked, pdelay, consVars, gdue, gnext, gdone, closeVars,
                   delivered>>

(* enqueue finds the adapter closed and returns ErrClosed.                 *)
EnqueueClosed(p) ==
    /\ ProducerAt(p, "enqueue")
    /\ closed
    /\ ppc' = [ppc EXCEPT ![p] = "idle"]
    /\ ptopic' = [ptopic EXCEPT ![p] = None]
    /\ UNCHANGED <<now, closed, mounted, created, topicVars, promoVars, pdelay,
                   consVars, gVars, closeVars, histVars>>

(* After the unlock: signal() for a ready message; for a delayed one the   *)
(* send on promoteCh, which reaches a promoter parked in waitForPromote    *)
(* and is dropped when none is.                                            *)
PushSignal(p) ==
    /\ ProducerAt(p, "signal")
    /\ \/ /\ pdelay[p] = 0
          /\ cpc' \in Signalled(cpc, ptopic[p])
          /\ UNCHANGED gpc
       \/ /\ pdelay[p] > 0
          /\ IF Parked(ptopic[p]) = {}
             THEN UNCHANGED gpc
             ELSE \E g \in Parked(ptopic[p]) : gpc' = [gpc EXCEPT ![g] = "top"]
          /\ UNCHANGED cpc
    /\ ppc' = [ppc EXCEPT ![p] = "idle"]
    /\ ptopic' = [ptopic EXCEPT ![p] = None]
    /\ UNCHANGED <<now, closed, mounted, created, topicVars, promoVars, pdelay,
                   ctopic, cmsg, gtopic, gdue, gnext, gdone, closeVars,
                   histVars>>

-----------------------------------------------------------------------------
(* Pop: getTopic, then popWithTopic's loop of reclaimExpired, tryPopReady  *)
(* and, on a miss, a select on the context, notify and the poll timer.     *)

(* getTopic finds a topic.  (With none, Pop returns ErrEmpty: no change.)  *)
PopTopic(c) ==
    /\ ConsumerAt(c, {"idle"})
    /\ mounted # None
    /\ ctopic' = [ctopic EXCEPT ![c] = mounted]
    /\ cpc' = [cpc EXCEPT ![c] = "reclaim"]
    /\ UNCHANGED <<now, closed, mounted, created, topicVars, promoVars,
                   prodVars, cmsg, gVars, closeVars, histVars>>

(* reclaimFromHeap pops the entries whose deadline has come.  The leases   *)
(* they lead to are reclaimed when now is past their deadline; an entry    *)
(* that is exactly due and still current is pushed back.  (A superseded    *)
(* entry tied with it may stay in the heap a little longer; it is inert.)  *)
HeapLapsedUnchecked(t) ==
    {e \in inflight[t] : \E h \in visHeap[t] : h.id = e.id /\ h.deadline < now}

HeapLapsed(t) ==
    {e \in inflight[t] :
        /\ now > e.deadline
        /\ \E h \in visHeap[t] : h.id = e.id /\ h.deadline < now}

HeapKeptDue(t) == {h \in visHeap[t] : h.deadline > now}

HeapKept(t) ==
    {h \in visHeap[t] :
        \/ h.deadline > now
        \/ /\ h.deadline = now
           /\ \E e \in inflight[t] : e.id = h.id /\ e.deadline = now}

(* reclaimFromMap scans inflight, but only when the heap reclaimed nothing *)
(* and is empty.                                                           *)
LapsedLate(t) == {e \in inflight[t] : now > e.deadline + Visibility}

Lapsed(t) ==
    IF HeapLapsed(t) = {} /\ HeapKept(t) = {}
    THEN {e \in inflight[t] : now > e.deadline}
    ELSE HeapLapsed(t)

(* reclaimEntry: the message of a lapsed lease, with the attempt raised.   *)
reclaimEntrySame(e) == [id |-> e.id, attempt |-> e.attempt]

reclaimEntry(e) == [id |-> e.id, attempt |-> e.attempt + 1]

(* reclaimExpired: every lapsed lease ends and its message goes back to    *)
(* the end of the ready list, in the order of their deadlines.             *)
Reclaim(c) ==
    /\ ConsumerAt(c, {"reclaim"})
    /\ LET t == ctopic[c] IN
         /\ \E s \in Orderings(Lapsed(t)) :
               /\ \A i, j \in DOMAIN s :
                     i < j => s[i].deadline <= s[j].deadline
               /\ ready' = [ready EXCEPT ![t] = @ \o
                     [i \in 1..Len(s) |-> reclaimEntry(s[i])]]
         /\ inflight' = [inflight EXCEPT ![t] = @ \ Lapsed(t)]
         /\ visHeap' = [visHeap EXCEPT ![t] = HeapKept(t)]
         /\ cpc' = [cpc EXCEPT ![c] =
                       IF Lapsed(t) = {} THEN "try" ELSE "reclaimed"]
    /\ UNCHANGED <<now, closed, mounted, created, head, delayed, promoVars,
                   prodVars, ctopic, cmsg, gVars, closeVars, histVars>>

(* reclaimExpired signals after its unlock.                                *)
ReclaimSignal(c) ==
    /\ ConsumerAt(c, {"reclaimed"})
    /\ cpc' \in Signalled([cpc EXCEPT ![c] = "try"], ctopic[c])
    /\ UNCHANGED <<now, closed, mounted, created, topicVars, promoVars,
                   prodVars, ctopic, cmsg, gVars, closeVars, histVars>>

(* tryPopReady finds a message: it leaves the ready list, whose dead       *)
(* prefix grows by one, is cleared when the list is drained, and is        *)
(* compacted when it dominates; the message is leased until now plus the   *)
(* visibility timeout.                                                     *)
HeadAfterPop(t) ==
    LET h == head[t] + 1
        n == head[t] + Len(ready[t])
    IN  IF h = n \/ (h > CompactAt /\ 2 * h >= n) THEN 0 ELSE h

TryPop(c) ==
    /\ ConsumerAt(c, {"try"})
    /\ LET t == ctopic[c]
           m == Head(ready[t])
       IN  /\ ready[t] # <<>>
           /\ ready' = [ready EXCEPT ![t] = Tail(@)]
           /\ head' = [head EXCEPT ![t] = HeadAfterPop(t)]
           /\ inflight' = [inflight EXCEPT ![t] =
                 {e \in @ : e.id # m.id} \cup
                 {[id |-> m.id, attempt |-> m.attempt,
                   deadline |-> now + Visibility]}]
           /\ visHeap' = [visHeap EXCEPT ![t] = @ \cup
                 {[id |-> m.id, deadline |-> now + Visibility]}]
           /\ cmsg' = [cmsg EXCEPT ![c] = m]
           /\ delivered' = delivered \cup {m}
    /\ cpc' = [cpc EXCEPT ![c] = "holding"]
    /\ UNCHANGED <<now, closed, mounted, created, delayed, promoVars, prodVars,
                   ctopic, gVars, closeVars, used, availableAt>>

(* tryPopReady finds nothing.                                              *)
PopMiss(c) ==
    /\ ConsumerAt(c, {"try"})
    /\ ready[ctopic[c]] = <<>>
    /\ cpc' = [cpc EXCEPT ![c] = "missed"]
    /\ UNCHANGED <<now, closed, mounted, created, topicVars, promoVars,
                   prodVars, ctopic, cmsg, gVars, closeVars, histVars>>

(* penders++,                                                              *)
PopPend(c) ==
    /\ ConsumerAt(c, {"missed"})
    /\ cpc' = [cpc EXCEPT ![c] = "pended"]
    /\ UNCHANGED <<now, closed, mounted, created, topicVars, promoVars,
                   prodVars, ctopic, cmsg, gVars, closeVars, histVars>>

(* then the select: only from here on can a signal reach this consumer.    *)
PopPark(c) ==
    /\ ConsumerAt(c, {"pended"})
    /\ cpc' = [cpc EXCEPT ![c] = "wait"]
    /\ UNCHANGED <<now, closed, mounted, created, topicVars, promoVars,
                   prodVars, ctopic, cmsg, gVars, closeVars, histVars>>

(* The select returns because the poll timer fired or the context is done. *)
(* (Its third case, notify, is Signalled's.)  When the timer fires is the  *)
(* scheduler's choice: PollTimeout bears no fixed relation to the clock    *)
(* the deadlines are compared with.                                        *)
PopWake(c, cause) ==
    /\ ConsumerAt(c, {"wait"})
    /\ cpc' = [cpc EXCEPT ![c] = cause]
    /\ UNCHANGED <<now, closed, mounted, created, topicVars, promoVars,
                   prodVars, ctopic, cmsg, gVars, closeVars, histVars>>

(* penders--, then the loop again after a signal, sweepTopic and           *)
(* EmptyError after the timer, an error when the context is done.          *)
PopUnpend(c) ==
    /\ ConsumerAt(c, {"woken", "expired", "cancelled"})
    /\ \/ /\ cpc[c] = "woken"
          /\ cpc' = [cpc EXCEPT ![c] = "reclaim"]
          /\ UNCHANGED ctopic
       \/ /\ cpc[c] = "expired"
          /\ cpc' = [cpc EXCEPT ![c] = "sweep"]
          /\ UNCHANGED ctopic
       \/ /\ cpc[c] = "cancelled"
          /\ cpc' = [cpc EXCEPT ![c] = "idle"]
          /\ ctopic' = [ctopic EXCEPT ![c] = None]
    /\ UNCHANGED <<now, closed, mounted, created, topicVars, promoVars,
                   prodVars, cmsg, gVars, closeVars, histVars>>

-----------------------------------------------------------------------------
(* Ack, Nack and Length: read the mounted topic, work on it, sweep it.     *)

(* The handler returns.  With no topic mounted, Ack and Nack have nothing  *)
(* to do; otherwise they keep the topic they read.  A Nack that requeues   *)
(* is bounded by MaxAttempt.                                               *)
Settle(c, step) ==
    /\ ConsumerAt(c, {"holding"})
    /\ step = "nackRequeue" => cmsg[c].attempt < MaxAttempt
    /\ \/ /\ mounted = None
          /\ cpc' = [cpc EXCEPT ![c] = "idle"]
          /\ ctopic' = [ctopic EXCEPT ![c] = None]
          /\ cmsg' = [cmsg EXCEPT ![c] = None]
       \/ /\ mounted # None
          /\ cpc' = [cpc EXCEPT ![c] = step]
          /\ ctopic' = [ctopic EXCEPT ![c] = mounted]
          /\ UNCHANGED cmsg
    /\ UNCHANGED <<now, closed, mounted, created, topicVars, promoVars,
                   prodVars, gVars, closeVars, histVars>>

(* The handler dies without settling.                                      *)
Abandon(c) ==
    /\ ConsumerAt(c, {"holding"})
    /\ cpc' = [cpc EXCEPT ![c] = "idle"]
    /\ ctopic' = [ctopic EXCEPT ![c] = None]
    /\ cmsg' = [cmsg EXCEPT ![c] = None]
    /\ UNCHANGED <<now, closed, mounted, created, topicVars, promoVars,
                   prodVars, gVars, closeVars, histVars>>

(* The lease a settlement is about: same id and same attempt.              *)
SettledAnyAttempt(c) == {e \in inflight[ctopic[c]] : e.id = cmsg[c].id}

Settled(c) ==
    {e \in inflight[ctopic[c]] :
        e.id = cmsg[c].id /\ e.attempt = cmsg[c].attempt}

(* Ack, and Nack without requeue: the lease goes, and the message with it. *)
Remove(c) ==
    /\ ConsumerAt(c, {"ack", "nackDrop"})
    /\ inflight' = [inflight EXCEPT ![ctopic[c]] = @ \ Settled(c)]
    /\ cpc' = [cpc EXCEPT ![c] = "sweep"]
    /\ cmsg' = [cmsg EXCEPT ![c] = None]
    /\ UNCHANGED <<now, closed, mounted, created, ready, head, delayed,
                   visHeap, promoVars, prodVars, ctopic, gVars, closeVars,
                   histVars>>

(* What Nack with requeue appends to the ready list: the message it held,  *)
(* with the attempt raised, if the lease was still its own.                *)
RequeuedUnchecked(c) ==
    <<[id |-> cmsg[c].id, attempt |-> cmsg[c].attempt + 1]>>

Requeued(c) ==
    IF Settled(c) = {}
    THEN <<>>
    ELSE <<[id |-> cmsg[c].id, attempt |-> cmsg[c].attempt + 1]>>

(* Nack with requeue.  The signal after the sweep is sent whenever the id *)
(* is in flight, under this attempt or a later one.                        *)
Requeue(c) ==
    /\ ConsumerAt(c, {"nackRequeue"})
    /\ LET t == ctopic[c] IN
         /\ inflight' = [inflight EXCEPT ![t] = @ \ Settled(c)]
         /\ ready' = [ready EXCEPT ![t] = @ \o Requeued(c)]
         /\ cpc' = [cpc EXCEPT ![c] =
               IF \E e \in inflight[t] : e.id = cmsg[c].id
               THEN "sweepSignal"
               ELSE "sweep"]
    /\ cmsg' = [cmsg EXCEPT ![c] = None]
    /\ UNCHANGED <<now, closed, mounted, created, head, delayed, visHeap,
                   promoVars, prodVars, ctopic, gVars, closeVars, histVars>>

(* Length (and IsEmpty) read the topic's length and sweep it.              *)
LengthUnchecked(c) ==
    /\ ConsumerAt(c, {"idle"})
    /\ ctopic' = [ctopic EXCEPT ![c] = mounted]
    /\ cpc' = [cpc EXCEPT ![c] = "sweep"]
    /\ UNCHANGED <<now, closed, mounted, created, topicVars, promoVars,
                   prodVars, cmsg, gVars, closeVars, histVars>>

Length(c) ==
    /\ ConsumerAt(c, {"idle"})
    /\ mounted # None
    /\ ctopic' = [ctopic EXCEPT ![c] = mounted]
    /\ cpc' = [cpc EXCEPT ![c] = "sweep"]
    /\ UNCHANGED <<now, closed, mounted, created, topicVars, promoVars,
                   prodVars, cmsg, gVars, closeVars, histVars>>

(* sweepTopic: a drained topic whose promoter is on is told to quit and    *)
(* unmounted; one without a promoter stays mounted and is reset.           *)
Sweep(c) ==
    /\ ConsumerAt(c, {"sweep", "sweepSignal"})
    /\ LET t == ctopic[c] IN
         \/ /\ mounted = t /\ Drained(t) /\ promoterOn[t]
            /\ quit' = [quit EXCEPT ![t] = TRUE]
            /\ mounted' = None
            /\ UNCHANGED <<visHeap, head>>
         \/ /\ mounted = t /\ Drained(t) /\ ~promoterOn[t]
            /\ visHeap' = [visHeap EXCEPT ![t] = {}]
            /\ head' = [head EXCEPT ![t] = 0]
            /\ UNCHANGED <<quit, mounted>>
         \/ /\ mounted # t \/ ~Drained(t)
            /\ UNCHANGED <<quit, mounted, visHeap, head>>
    /\ \/ /\ cpc[c] = "sweep"
          /\ cpc' = [cpc EXCEPT ![c] = "idle"]
          /\ ctopic' = [ctopic EXCEPT ![c] = None]
       \/ /\ cpc[c] = "sweepSignal"
          /\ cpc' = [cpc EXCEPT ![c] = "signal"]
          /\ UNCHANGED ctopic
    /\ UNCHANGED <<now, closed, created, ready, delayed, inflight, promoterOn,
                   done, doneClosed, panicked, prodVars, cmsg, gVars,
                   closeVars, histVars>>

(* Nack's signal, the last thing it does.                                  *)
NackSignal(c) ==
    /\ ConsumerAt(c, {"signal"})
    /\ cpc' \in Signalled([cpc EXCEPT ![c] = "idle"], ctopic[c])
    /\ ctopic' = [ctopic EXCEPT ![c] = None]
    /\ UNCHANGED <<now, closed, mounted, created, topicVars, promoVars,
                   prodVars, cmsg, gVars, closeVars, histVars>>

-----------------------------------------------------------------------------
(* promote(): the goroutine that files due messages on the ready list.     *)

(* The loop's select on quit.                                              *)
PromoteTop(g) ==
    /\ PromoterAt(g, "top")
    /\ gpc' = [gpc EXCEPT ![g] =
                  IF quit[gtopic[g]] THEN "defer" ELSE "collect"]
    /\ UNCHANGED <<now, closed, mounted, created, topicVars, promoVars,
                   prodVars, consVars, gtopic, gdue, gnext, gdone, closeVars,
                   histVars>>

DueEarly(t) == {e \in delayed[t] : e.readyAt <= now + 1}

Due(t) == {e \in delayed[t] : e.readyAt <= now}

(* What stays in the delayed heap when the due entries have been popped.   *)
NotDueOverlap(t) == {e \in delayed[t] : e.readyAt >= now}

NotDue(t) == delayed[t] \ Due(t)

(* The step after the due entries, if any, have been filed.                *)
AfterDue(next) == IF next = None THEN "off" ELSE "wait"

(* collectDue: the due entries leave the heap, and are for now in no list. *)
Collect(g) ==
    /\ PromoterAt(g, "collect")
    /\ LET t    == gtopic[g]
           rest == NotDue(t)
       IN  /\ delayed' = [delayed EXCEPT ![t] = rest]
           /\ gdue' = [gdue EXCEPT ![g] = Due(t)]
           /\ \/ /\ rest = {}
                 /\ gnext' = [gnext EXCEPT ![g] = None]
              \/ \E e \in rest :
                    /\ \A f \in rest : e.readyAt <= f.readyAt
                    /\ gnext' = [gnext EXCEPT ![g] = e.readyAt]
           /\ gpc' = [gpc EXCEPT ![g] =
                         IF Due(t) # {} THEN "append" ELSE AfterDue(gnext'[g])]
    /\ UNCHANGED <<now, closed, mounted, created, ready, head, inflight,
                   visHeap, promoVars, prodVars, consVars, gtopic, gdone,
                   closeVars, histVars>>

(* appendDue, in the order the heap yielded the entries.                   *)
AppendDue(g) ==
    /\ PromoterAt(g, "append")
    /\ \E s \in Orderings(gdue[g]) :
          /\ \A i, j \in DOMAIN s : i < j => s[i].readyAt <= s[j].readyAt
          /\ ready' = [ready EXCEPT ![gtopic[g]] = @ \o
                [i \in 1..Len(s) |-> [id |-> s[i].id, attempt |-> 1]]]
    /\ gdue' = [gdue EXCEPT ![g] = {}]
    /\ gpc' = [gpc EXCEPT ![g] = "signal"]
    /\ UNCHANGED <<now, closed, mounted, created, head, delayed, inflight,
                   visHeap, promoVars, prodVars, consVars, gtopic, gnext,
                   gdone, closeVars, histVars>>

PromoteSignal(g) ==
    /\ PromoterAt(g, "signal")
    /\ cpc' \in Signalled(cpc, gtopic[g])
    /\ gpc' = [gpc EXCEPT ![g] = AfterDue(gnext[g])]
    /\ UNCHANGED <<now, closed, mounted, created, topicVars, promoVars,
                   prodVars, ctopic, cmsg, gtopic, gdue, gnext, gdone,
                   closeVars, histVars>>

(* waitForPromote: quit is closed, or the timer set to nextDue fires.      *)
(* (The third case, promoteCh, is PushSignal's.)                           *)
PromoteWake(g) ==
    /\ PromoterAt(g, "wait")
    /\ quit[gtopic[g]] \/ now >= gnext[g]
    /\ gpc' = [gpc EXCEPT ![g] = "top"]
    /\ UNCHANGED <<now, closed, mounted, created, topicVars, promoVars,
                   prodVars, consVars, gtopic, gdue, gnext, gdone, closeVars,
                   histVars>>

(* Mutant of PromoteOff: the goroutine returns and closes nothing.         *)
PromoteOffSilently(g) ==
    /\ PromoterAt(g, "off")
    /\ promoterOn' = [promoterOn EXCEPT ![gtopic[g]] = FALSE]
    /\ gpc' = [gpc EXCEPT ![g] = "exited"]
    /\ UNCHANGED <<now, closed, mounted, created, topicVars, quit, done,
                   doneClosed, panicked, prodVars, consVars, gtopic, gdue,
                   gnext, gdone, closeVars, histVars>>

(* No delayed message was left when collectDue looked: promoterOn is       *)
(* cleared and the goroutine returns.                                      *)
PromoteOff(g) ==
    /\ PromoterAt(g, "off")
    /\ promoterOn' = [promoterOn EXCEPT ![gtopic[g]] = FALSE]
    /\ gpc' = [gpc EXCEPT ![g] = "defer"]
    /\ UNCHANGED <<now, closed, mounted, created, topicVars, quit, done,
                   doneClosed, panicked, prodVars, consVars, gtopic, gdue,
                   gnext, gdone, closeVars, histVars>>

(* The deferred function clears promoterOn again, reads topicQueue.done    *)
(* as it is now,                                                           *)
PromoteDefer(g) ==
    /\ PromoterAt(g, "defer")
    /\ promoterOn' = [promoterOn EXCEPT ![gtopic[g]] = FALSE]
    /\ gdone' = [gdone EXCEPT ![g] = done[gtopic[g]]]
    /\ gpc' = [gpc EXCEPT ![g] = "close"]
    /\ UNCHANGED <<now, closed, mounted, created, topicVars, quit, done,
                   doneClosed, panicked, prodVars, consVars, gtopic, gdue,
                   gnext, closeVars, histVars>>

(* and closes it.  Closing a closed channel panics.                        *)
PromoteClose(g) ==
    /\ PromoterAt(g, "close")
    /\ panicked' = (gdone[g] \in doneClosed)
    /\ doneClosed' = doneClosed \cup {gdone[g]}
    /\ gpc' = [gpc EXCEPT ![g] = "exited"]
    /\ UNCHANGED <<now, closed, mounted, created, topicVars, promoterOn, quit,
                   done, prodVars, consVars, gtopic, gdue, gnext, gdone,
                   closeVars, histVars>>

-----------------------------------------------------------------------------
(* Close: mark the adapter closed, then stop and join the promoter of the  *)
(* topic that was mounted.  A second Close returns at once: no change.     *)
CloseBegin ==
    /\ CloserAt("idle")
    /\ closed' = TRUE
    /\ xtopic' = mounted
    /\ xpc' = IF mounted = None THEN "closed" ELSE "read"
    /\ UNCHANGED <<now, mounted, created, topicVars, promoVars, prodVars,
                   consVars, gVars, xdone, histVars>>

CloseRead ==
    /\ CloserAt("read")
    /\ xdone' = done[xtopic]
    /\ xpc' = IF promoterOn[xtopic] THEN "quit" ELSE "closed"
    /\ UNCHANGED <<now, closed, mounted, created, topicVars, promoVars,
                   prodVars, consVars, gVars, xtopic, histVars>>

CloseQuit ==
    /\ CloserAt("quit")
    /\ quit' = [quit EXCEPT ![xtopic] = TRUE]
    /\ xpc' = "join"
    /\ UNCHANGED <<now, closed, mounted, created, topicVars, promoterOn, done,
                   doneClosed, panicked, prodVars, consVars, gVars, xtopic,
                   xdone, histVars>>

CloseJoin ==
    /\ CloserAt("join")
    /\ xdone \in doneClosed
    /\ xpc' = "closed"
    /\ UNCHANGED <<now, closed, mounted, created, topicVars, promoVars,
                   prodVars, consVars, gVars, xtopic, xdone, histVars>>

-----------------------------------------------------------------------------
ProducerStep(p) ==
    \/ \E d \in Delays : PushTopic(p, d)
    \/ PushSpace(p)
    \/ PushCancel(p)
    \/ \E m \in Messages : Enqueue(p, m)
    \/ EnqueueClosed(p)
    \/ PushSignal(p)

ConsumerStep(c) ==
    \/ PopTopic(c)
    \/ Reclaim(c)
    \/ ReclaimSignal(c)
    \/ TryPop(c)
    \/ PopMiss(c)
    \/ PopPend(c)
    \/ PopPark(c)
    \/ \E cause \in {"expired", "cancelled"} : PopWake(c, cause)
    \/ PopUnpend(c)
    \/ \E step \in {"ack", "nackDrop", "nackRequeue"} : Settle(c, step)
    \/ Abandon(c)
    \/ Remove(c)
    \/ Requeue(c)
    \/ Length(c)
    \/ Sweep(c)
    \/ NackSignal(c)

PromoterStep(g) ==
    \/ PromoteTop(g)
    \/ Collect(g)
    \/ AppendDue(g)
    \/ PromoteSignal(g)
    \/ PromoteWake(g)
    \/ PromoteOff(g)
    \/ PromoteDefer(g)
    \/ PromoteClose(g)

CloseStep == CloseBegin \/ CloseRead \/ CloseQuit \/ CloseJoin

Next ==
    \/ Tick
    \/ \E p \in Producers : ProducerStep(p)
    \/ \E c \in Consumers : ConsumerStep(c)
    \/ \E g \in Promoters : PromoterStep(g)
    \/ CloseStep

Spec == Init /\ [][Next]_vars

(* The fairness of the Go scheduler and of the timers: the clock advances, *)
(* a goroutine that can run does, a parked Pop wakes up at the latest with *)
(* its poll timer, a handler returns (Worker bounds it by its drain        *)
(* timeout) or dies, and a worker that is idle pops again, whoever else    *)
(* calls Length in between.  Nothing makes a producer push, anyone call    *)
(* Length or Close, or a context end.                                      *)
FairSpec ==
    /\ Spec
    /\ WF_vars(Tick)
    /\ \A p \in Producers :
          WF_vars(\/ PushSpace(p) \/ EnqueueClosed(p) \/ PushSignal(p)
                  \/ \E m \in Messages : Enqueue(p, m))
    /\ \A c \in Consumers :
          /\ SF_vars(PopTopic(c))
          /\ WF_vars(\/ Reclaim(c) \/ ReclaimSignal(c) \/ TryPop(c)
                     \/ PopMiss(c) \/ PopPend(c) \/ PopPark(c)
                     \/ PopWake(c, "expired") \/ PopUnpend(c)
                     \/ Abandon(c) \/ Remove(c) \/ Requeue(c)
                     \/ Sweep(c) \/ NackSignal(c))
    /\ \A g \in Promoters : WF_vars(PromoterStep(g))
    /\ WF_vars(CloseRead \/ CloseQuit \/ CloseJoin)

-----------------------------------------------------------------------------
(* Properties.                                                             *)

(* Every variable has the type of the Go field it stands for, and no       *)
(* goroutine that is past its topic lookup works on a nil topicQueue.      *)
TypeOK ==
    /\ now \in Nat
    /\ closed \in BOOLEAN
    /\ mounted \in Queues \cup {None}
    /\ created \subseteq Queues
    /\ ready \in [Queues -> Seq(Message)]
    /\ head \in [Queues -> Nat]
    /\ delayed \in [Queues -> SUBSET Delayed]
    /\ inflight \in [Queues -> SUBSET Lease]
    /\ visHeap \in [Queues -> SUBSET Expiry]
    /\ promoterOn \in [Queues -> BOOLEAN]
    /\ quit \in [Queues -> BOOLEAN]
    /\ done \in [Queues -> Promoters \cup {None}]
    /\ doneClosed \subseteq Promoters \cup {None}
    /\ panicked \in BOOLEAN
    /\ ppc \in [Producers -> {"idle", "space", "enqueue", "signal"}]
    /\ ptopic \in [Producers -> Queues \cup {None}]
    /\ pdelay \in [Producers -> Nat]
    /\ cpc \in [Consumers -> ConsumerSteps]
    /\ ctopic \in [Consumers -> Queues \cup {None}]
    /\ cmsg \in [Consumers -> Message \cup {None}]
    /\ gpc \in [Promoters -> PromoterSteps]
    /\ gtopic \in [Promoters -> Queues \cup {None}]
    /\ gdue \in [Promoters -> SUBSET Delayed]
    /\ gnext \in [Promoters -> Nat \cup {None}]
    /\ gdone \in [Promoters -> Promoters \cup {None}]
    /\ xpc \in {"idle", "read", "quit", "join", "closed"}
    /\ xtopic \in Queues \cup {None}
    /\ xdone \in Promoters \cup {None}
    /\ used \subseteq Messages
    /\ availableAt \in [Messages -> Nat]
    /\ delivered \subseteq Message
    /\ \A p \in Producers : ppc[p] # "idle" => ptopic[p] # None
    /\ \A c \in Consumers : cpc[c] # "idle" => ctopic[c] # None
    /\ \A g \in Promoters : gpc[g] # "unborn" => gtopic[g] # None
    /\ xpc \in {"read", "quit", "join"} => xtopic # None

(* Where a message may be.                                                 *)
InReady(t, m)   == \E i \in DOMAIN ready[t] : ready[t][i].id = m
InDelayed(t, m) == \E e \in delayed[t] : e.id = m
InFlight(t, m)  == \E e \in inflight[t] : e.id = m
InDue(g, m)     == \E e \in gdue[g] : e.id = m

OneReady ==
    \A t \in Queues : \A i, j \in DOMAIN ready[t] :
        ready[t][i].id = ready[t][j].id => i = j

OneLease == \A t \in Queues : \A e, f \in inflight[t] : e.id = f.id => e = f

OneDelayed == \A t \in Queues : \A e, f \in delayed[t] : e.id = f.id => e = f

OneDue == \A g \in Promoters : \A e, f \in gdue[g] : e.id = f.id => e = f

OnePlace ==
    \A m \in Messages :
        /\ \A t, u \in Queues :
              /\ InReady(t, m) /\ InReady(u, m) => t = u
              /\ InDelayed(t, m) /\ InDelayed(u, m) => t = u
              /\ InFlight(t, m) /\ InFlight(u, m) => t = u
              /\ InReady(t, m) => ~InDelayed(u, m) /\ ~InFlight(u, m)
              /\ InDelayed(t, m) => ~InFlight(u, m)
        /\ \A g \in Promoters : InDue(g, m) =>
              /\ \A h \in Promoters : InDue(h, m) => g = h
              /\ \A t \in Queues :
                    ~InReady(t, m) /\ ~InDelayed(t, m) /\ ~InFlight(t, m)

(* A message is in at most one place at a time: one slot of one topic's    *)
(* ready list, one delayed entry, one lease, or one promoter's hands.  Two *)
(* copies would be delivered and settled independently of each other.      *)
SingleCopy == OneReady /\ OneLease /\ OneDelayed /\ OneDue /\ OnePlace

(* What waits to be delivered has not been delivered under its attempt or  *)
(* a later one: Pop never returns the same (id, attempt) twice, which is   *)
(* what lets Ack and Nack recognise a stale holder by its attempt.         *)
FreshDelivery ==
    /\ \A t \in Queues : \A i \in DOMAIN ready[t] : \A d \in delivered :
          d.id = ready[t][i].id => d.attempt < ready[t][i].attempt
    /\ \A t \in Queues : \A e \in delayed[t] : \A d \in delivered : d.id # e.id
    /\ \A g \in Promoters : \A e \in gdue[g] : \A d \in delivered : d.id # e.id

(* Every lease has its expiry entry in the visibility heap, so a pass of   *)
(* reclaimExpired over the heap alone finds every lapsed lease (an         *)
(* acknowledged or superseded entry may linger; a missing one would leave  *)
(* the message invisible for good while the heap is not empty).            *)
LeaseIndexed ==
    \A t \in Queues : \A e \in inflight[t] :
        [id |-> e.id, deadline |-> e.deadline] \in visHeap[t]

(* A delayed message is deliverable only once its delay has elapsed.       *)
NeverEarly ==
    /\ \A t \in Queues : \A i \in DOMAIN ready[t] :
          availableAt[ready[t][i].id] <= now
    /\ \A d \in delivered : availableAt[d.id] <= now

LeaseEndsRightly ==
    \A t \in Queues : \A e \in inflight[t] :
        \/ e \in inflight'[t]
        \/ now > e.deadline
        \/ \E c \in Consumers :
              /\ cpc[c] \in {"ack", "nackDrop", "nackRequeue"}
              /\ cmsg[c].id = e.id /\ cmsg[c].attempt = e.attempt

(* A lease ends in one of two ways: the holder of exactly that delivery    *)
(* settles it, or its visibility timeout has passed.  A consumer whose own *)
(* lease has lapsed cannot end the lease of the consumer that was handed   *)
(* the message next.                                                       *)
LeaseFence == [][LeaseEndsRightly]_vars

(* The adapter keeps the contract of core/queue: an accepted message is    *)
(* waiting (ready, delayed or in a promoter's hands), leased, or gone, and *)
(* it is gone only through a settlement of its current lease; every        *)
(* delivery is of a waiting message, and every return raises its attempt   *)
(* by one.                                                                 *)
Held(m) == {e \in UNION {inflight[t] : t \in Queues} : e.id = m}

Queued(m) ==
    {r \in UNION {{ready[t][i] : i \in DOMAIN ready[t]} : t \in Queues} :
        r.id = m}

Pending(m) ==
    \/ \E t \in Queues : InDelayed(t, m)
    \/ \E g \in Promoters : InDue(g, m)

PlaceOf(m) ==
    CASE m \notin used                    -> "absent"
      [] m \in used /\ Held(m) # {}       -> "leased"
      [] m \in used /\ Held(m) = {} /\ (Queued(m) # {} \/ Pending(m)) -> "waiting"
      [] OTHER                            -> "gone"

AttemptOf(m) ==
    CASE PlaceOf(m) = "leased"  -> (CHOOSE e \in Held(m) : TRUE).attempt
      [] PlaceOf(m) = "waiting" ->
            IF Queued(m) # {} THEN (CHOOSE r \in Queued(m) : TRUE).attempt
                              ELSE 1
      [] OTHER                  -> 0

Contract == INSTANCE QueueContract WITH
                place   <- [m \in Messages |-> PlaceOf(m)],
                attempt <- [m \in Messages |-> AttemptOf(m)]

KeepsContract == Contract!Spec

(* A lease whose holder died ends: the consumers that keep popping reclaim *)
(* it.  (Leases that outlive MaxTime are beyond the modelled clock.)       *)
LeaseEnds ==
    \A t \in Queues, m \in Messages, n \in 1..MaxTime + MaxAttempt :
        (\E e \in inflight[t] :
            e.id = m /\ e.attempt = n /\ e.deadline < MaxTime)
        ~> ~(\E e \in inflight[t] : e.id = m /\ e.attempt = n)

(* Close does not wait for ever: the done channel it read is closed, or a  *)
(* promoter of the topic is still there to close it.  (A promoter that     *)
(* closed the channel of its successor instead makes the successor panic.) *)
CloseIsAnswered ==
    xpc \in {"quit", "join"} /\ ~panicked =>
        \/ xdone \in doneClosed
        \/ \E g \in Promoters :
              gtopic[g] = xtopic /\ gpc[g] \notin {"unborn", "exited"}

-----------------------------------------------------------------------------
(* What the documentation says and the code does not keep.                 *)

(* core/queue/queue.go:19: "PushDelayed enqueues a message on topic that   *)
(* becomes available after delay."  An accepted message that has not been  *)
(* settled stays where a Pop or a promoter can get at it: not in a         *)
(* topicQueue that is no longer mounted.                                   *)
NothingStranded ==
    \A t \in Queues \ {mounted} :
        ready[t] = <<>> /\ delayed[t] = {} /\ inflight[t] = {}

(* core/queue/queue.go:19 again, as liveness: a delayed message whose time *)
(* comes within the modelled clock leaves the delayed list.                *)
DelayedPromoted ==
    \A t \in Queues, m \in Messages :
        (\E e \in delayed[t] : e.id = m /\ e.readyAt <= MaxTime)
        ~> ~InDelayed(t, m)

(* core/queue/doc.go:23: "Concurrency: safe for concurrent use unless      *)
(* noted."  No interleaving of calls makes the adapter panic.              *)
NoPanic == ~panicked

=============================================================================
