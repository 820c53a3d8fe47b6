------------------------- MODULE MemoryQueueProofs -------------------------
(***************************************************************************)
(* What holds of the in-memory queue for any number of producers,          *)
(* consumers, promoters and messages, any delays, visibility timeout and   *)
(* buffer.                                                                 *)
(*                                                                         *)
(* SingleCopy is not inductive as it stands.  Inv adds what the actions    *)
(* rely on: the types; that only ids enqueue has accepted are anywhere, so *)
(* that a new message is new everywhere (Known); and that a promoter's     *)
(* hands are empty except between collectDue and appendDue (HandsFull),    *)
(* so that its next collectDue overwrites nothing.  FreshDelivery needs in *)
(* addition that a lease is the latest delivery of its message             *)
(* (LeasedLatest): the message it returns then has an attempt nobody saw.  *)
(* NeverEarly needs the times in the delayed heap, in a promoter's hands   *)
(* and under a lease (TimeInv); CloseIsAnswered that somebody has yet to   *)
(* close the channel topicQueue.done holds now, and that Close reads it    *)
(* when no promoter can be started any more (CloseInv).  The refinement of *)
(* the queue contract rests on Inv: PlaceFacts reads the mapping off it.   *)
(***************************************************************************)
EXTENDS MemoryQueue, FiniteSetTheorems, TLAPS

(* The lists an action enumerates are finite.                              *)
FiniteLists ==
    /\ \A t \in Queues : IsFiniteSet(delayed[t]) /\ IsFiniteSet(inflight[t])
    /\ \A g \in Promoters : IsFiniteSet(gdue[g])

(* A Signal wakes at most one consumer, one that waits.                    *)
LEMMA SignalledType ==
    ASSUME NEW pcs \in [Consumers -> ConsumerSteps], NEW t,
           NEW q \in Signalled(pcs, t)
    PROVE  /\ q \in [Consumers -> ConsumerSteps]
           /\ \A c \in Consumers :
                 \/ q[c] = pcs[c]
                 \/ pcs[c] = "wait" /\ ctopic[c] = t /\ q[c] = "woken"
<1>1. CASE Waiting(pcs, t) = {}
  BY <1>1 DEF Signalled
<1>2. CASE Waiting(pcs, t) # {}
  <2>1. PICK c \in Waiting(pcs, t) : q = [pcs EXCEPT ![c] = "woken"]
    BY <1>2 DEF Signalled
  <2>2. c \in Consumers /\ pcs[c] = "wait" /\ ctopic[c] = t
    BY <2>1 DEF Waiting
  <2>3. "woken" \in ConsumerSteps
    BY DEF ConsumerSteps
  <2> QED BY <2>1, <2>2, <2>3
<1> QED BY <1>1, <1>2

(* An ordering of a finite set lists each of its elements once.            *)
LEMMA OrderingsSeq ==
    ASSUME NEW S, IsFiniteSet(S), NEW s \in Orderings(S)
    PROVE  /\ s \in Seq(S)
           /\ \A i, j \in 1..Len(s) : s[i] = s[j] => i = j
           /\ \A e \in S : \E i \in 1..Len(s) : s[i] = e
<1>1. Cardinality(S) \in Nat
  BY FS_CardinalityType
<1>2. s \in [1..Cardinality(S) -> S]
  BY DEF Orderings
<1>3. s \in Seq(S) /\ Len(s) = Cardinality(S)
  BY <1>1, <1>2
<1> QED BY <1>3 DEF Orderings

(* Every step of a producer, consumer, promoter or Close keeps the types.  *)
LEMMA TypeOKStep == TypeOK /\ FiniteLists /\ [Next]_vars => TypeOK'
<1> SUFFICES ASSUME TypeOK, FiniteLists, [Next]_vars PROVE TypeOK'
  OBVIOUS
<1> USE DEF topicVars, promoVars, prodVars, consVars, gVars, closeVars,
            histVars
<1>1. CASE Tick
  BY <1>1 DEF TypeOK, Tick
<1>2. ASSUME NEW p \in Producers, NEW d \in Delays, PushTopic(p, d) PROVE TypeOK'
  <2>1. d \in Nat /\ None \notin Queues
    BY ConstantsAssumption
  <2>2. PICK t \in Queues : /\ mounted' = t
                            /\ created' \in SUBSET Queues
                            /\ ptopic' = [ptopic EXCEPT ![p] = t]
    BY <1>2 DEF PushTopic, TypeOK
  <2>3. /\ ppc' = [ppc EXCEPT ![p] = "space"]
        /\ pdelay' = [pdelay EXCEPT ![p] = d]
        /\ UNCHANGED <<now, closed, topicVars, promoVars, consVars, gVars,
                       closeVars, histVars>>
    BY <1>2 DEF PushTopic
  <2> QED BY <2>1, <2>2, <2>3 DEF TypeOK
<1>3. ASSUME NEW p \in Producers, PushSpace(p) PROVE TypeOK'
  BY <1>3 DEF TypeOK, PushSpace, ProducerAt
<1>4. ASSUME NEW p \in Producers, PushCancel(p) PROVE TypeOK'
  BY <1>4 DEF TypeOK, PushCancel, ProducerAt
<1>5. ASSUME NEW p \in Producers, EnqueueClosed(p) PROVE TypeOK'
  BY <1>5 DEF TypeOK, EnqueueClosed, ProducerAt
<1>6. ASSUME NEW p \in Producers, NEW m \in Messages, Enqueue(p, m) PROVE TypeOK'
  <2> DEFINE t == MountTopic(ptopic[p])
  <2>1. ppc[p] = "enqueue"
    BY <1>6 DEF Enqueue, ProducerAt
  <2>2. t \in Queues /\ t # None /\ now + pdelay[p] \in Nat /\ None \notin Queues
    BY <2>1, ConstantsAssumption DEF MountTopic, TypeOK
  <2>3. /\ ready' \in [Queues -> Seq(Message)]
        /\ delayed' \in [Queues -> SUBSET Delayed]
    <3>1. [id |-> m, attempt |-> 1] \in Message
      BY DEF Message
    <3>2. [id |-> m, readyAt |-> now + pdelay[p]] \in Delayed
      BY <2>2 DEF Delayed
    <3>3. CASE pdelay[p] = 0
      <4>1. /\ ready' = [ready EXCEPT ![t] = Append(@, [id |-> m, attempt |-> 1])]
            /\ delayed' = delayed
        BY <1>6, <3>3 DEF Enqueue
      <4> QED BY <2>2, <3>1, <4>1 DEF TypeOK
    <3>4. CASE pdelay[p] > 0
      <4>1. /\ delayed' = [delayed EXCEPT ![t] =
                   @ \cup {[id |-> m, readyAt |-> now + pdelay[p]]}]
            /\ ready' = ready
        BY <1>6, <3>4 DEF Enqueue
      <4> QED BY <2>2, <3>2, <4>1 DEF TypeOK
    <3> QED BY <1>6, <3>3, <3>4 DEF Enqueue
  <2>4. /\ promoterOn' \in [Queues -> BOOLEAN]
        /\ quit' \in [Queues -> BOOLEAN]
        /\ done' \in [Queues -> Promoters \cup {None}]
        /\ gpc' \in [Promoters -> PromoterSteps]
        /\ gtopic' \in [Promoters -> Queues \cup {None}]
        /\ \A g \in Promoters : gpc'[g] # "unborn" => gtopic'[g] # None
    <3>1. \/ UNCHANGED <<promoterOn, quit, done, gpc, gtopic>>
          \/ StartPromoter(t)
      BY <1>6 DEF Enqueue
    <3>2. CASE UNCHANGED <<promoterOn, quit, done, gpc, gtopic>>
      BY <3>2 DEF TypeOK
    <3>3. CASE StartPromoter(t) /\ ~UNCHANGED <<promoterOn, quit, done, gpc, gtopic>>
      <4>1. PICK g \in Promoters :
              /\ gpc' = [h \in Promoters |->
                    IF h = g \/ (quit[t] /\ h \in Parked(t)) THEN "top" ELSE gpc[h]]
              /\ gtopic' = [gtopic EXCEPT ![g] = t]
              /\ done' = [done EXCEPT ![t] = g]
              /\ promoterOn' = [promoterOn EXCEPT ![t] = TRUE]
              /\ quit' = [quit EXCEPT ![t] = FALSE]
        BY <3>3 DEF StartPromoter
      <4>2. gpc' \in [Promoters -> PromoterSteps]
        BY <4>1 DEF TypeOK, PromoterSteps
      <4>3. \A h \in Promoters : gpc'[h] # "unborn" => gtopic'[h] # None
        BY <4>1, <2>2 DEF TypeOK, Parked
      <4> QED BY <4>1, <4>2, <4>3, <2>2 DEF TypeOK
    <3> QED BY <3>1, <3>2, <3>3
  <2>5. /\ mounted' = t
        /\ ptopic' = [ptopic EXCEPT ![p] = t]
        /\ ppc' = [ppc EXCEPT ![p] = "signal"]
        /\ used' = used \cup {m}
        /\ availableAt' = [availableAt EXCEPT ![m] = now + pdelay[p]]
        /\ UNCHANGED <<now, closed, created, head, inflight, visHeap,
                       doneClosed, panicked, pdelay, consVars, gdue, gnext,
                       gdone, closeVars, delivered>>
    BY <1>6 DEF Enqueue
  <2> QED BY <2>2, <2>3, <2>4, <2>5 DEF TypeOK
<1>7. ASSUME NEW p \in Producers, PushSignal(p) PROVE TypeOK'
  <2>1. /\ cpc' \in [Consumers -> ConsumerSteps]
        /\ \A c \in Consumers : cpc'[c] # "idle" => cpc[c] # "idle"
    <3>1. CASE cpc' = cpc
      BY <3>1 DEF TypeOK
    <3>2. CASE cpc' \in Signalled(cpc, ptopic[p])
      <4>1. cpc \in [Consumers -> ConsumerSteps]
        BY DEF TypeOK
      <4> QED BY <3>2, <4>1, SignalledType
    <3> QED BY <1>7, <3>1, <3>2 DEF PushSignal
  <2>2. /\ gpc' \in [Promoters -> PromoterSteps]
        /\ \A g \in Promoters : gpc'[g] # "unborn" => gpc[g] # "unborn"
    BY <1>7 DEF PushSignal, TypeOK, Parked, PromoterSteps
  <2>3. /\ ppc' = [ppc EXCEPT ![p] = "idle"]
        /\ ptopic' = [ptopic EXCEPT ![p] = None]
        /\ UNCHANGED <<now, closed, mounted, created, topicVars, promoVars,
                       pdelay, ctopic, cmsg, gtopic, gdue, gnext, gdone,
                       closeVars, histVars>>
    BY <1>7 DEF PushSignal
  <2> QED BY <2>1, <2>2, <2>3 DEF TypeOK
<1>8. ASSUME NEW c \in Consumers, PopTopic(c) PROVE TypeOK'
  BY <1>8 DEF TypeOK, PopTopic, ConsumerAt, ConsumerSteps
<1>9. ASSUME NEW c \in Consumers, Reclaim(c) PROVE TypeOK'
  <2> DEFINE t == ctopic[c]
  <2>1. t \in Queues
    BY <1>9 DEF Reclaim, ConsumerAt, TypeOK
  <2>2. Lapsed(t) \subseteq inflight[t] /\ HeapKept(t) \subseteq visHeap[t]
    BY DEF Lapsed, HeapLapsed, HeapKept
  <2>3. PICK s \in Orderings(Lapsed(t)) :
          ready' = [ready EXCEPT ![t] = @ \o [i \in 1..Len(s) |-> reclaimEntry(s[i])]]
    BY <1>9 DEF Reclaim
  <2>4. s \in Seq(Lapsed(t))
    <3>1. IsFiniteSet(Lapsed(t))
      BY <2>1, <2>2, FS_Subset DEF FiniteLists
    <3> QED BY <3>1, OrderingsSeq
  <2>5. [i \in 1..Len(s) |-> reclaimEntry(s[i])] \in Seq(Message)
    <3>1. \A i \in 1..Len(s) : reclaimEntry(s[i]) \in Message
      BY <2>1, <2>2, <2>4 DEF TypeOK, reclaimEntry, Lease, Message
    <3> QED BY <2>4, <3>1
  <2>6. ready' \in [Queues -> Seq(Message)]
    BY <2>1, <2>3, <2>5 DEF TypeOK
  <2>7. /\ inflight' = [inflight EXCEPT ![t] = @ \ Lapsed(t)]
        /\ visHeap' = [visHeap EXCEPT ![t] = HeapKept(t)]
        /\ cpc' = [cpc EXCEPT ![c] = IF Lapsed(t) = {} THEN "try" ELSE "reclaimed"]
        /\ UNCHANGED <<now, closed, mounted, created, head, delayed, promoVars,
                       prodVars, ctopic, cmsg, gVars, closeVars, histVars>>
    BY <1>9 DEF Reclaim
  <2>8. cpc' \in [Consumers -> ConsumerSteps] /\ cpc[c] # "idle"
    BY <1>9, <2>7 DEF TypeOK, ConsumerSteps, Reclaim, ConsumerAt
  <2> QED BY <2>1, <2>2, <2>6, <2>7, <2>8 DEF TypeOK
<1>10. ASSUME NEW c \in Consumers, ReclaimSignal(c) PROVE TypeOK'
  <2> DEFINE pcs == [cpc EXCEPT ![c] = "try"]
  <2>1. pcs \in [Consumers -> ConsumerSteps] /\ cpc[c] # "idle"
    BY <1>10 DEF TypeOK, ConsumerSteps, ReclaimSignal, ConsumerAt
  <2>2. cpc' \in Signalled(pcs, ctopic[c])
    BY <1>10 DEF ReclaimSignal
  <2> HIDE DEF pcs
  <2>3. /\ cpc' \in [Consumers -> ConsumerSteps]
        /\ \A b \in Consumers : cpc'[b] = pcs[b] \/ pcs[b] = "wait"
    BY <2>1, <2>2, SignalledType
  <2>4. \A b \in Consumers : cpc'[b] # "idle" => cpc[b] # "idle"
    BY <2>1, <2>3 DEF pcs, TypeOK
  <2> QED BY <1>10, <2>3, <2>4 DEF TypeOK, ReclaimSignal
<1>11. ASSUME NEW c \in Consumers, TryPop(c) PROVE TypeOK'
  <2> DEFINE t == ctopic[c]
             m == Head(ready[t])
             e == [id |-> m.id, attempt |-> m.attempt, deadline |-> now + Visibility]
             h == [id |-> m.id, deadline |-> now + Visibility]
  <2>1. t \in Queues /\ ready[t] # <<>> /\ cpc[c] = "try"
    BY <1>11 DEF TryPop, ConsumerAt, TypeOK
  <2>2. m \in Message /\ Tail(ready[t]) \in Seq(Message)
    BY <2>1 DEF TypeOK
  <2>3. e \in Lease /\ h \in Expiry
    <3>1. m.id \in Messages /\ m.attempt \in Nat /\ now + Visibility \in Nat
      BY <2>2, ConstantsAssumption DEF TypeOK, Message
    <3> HIDE DEF m
    <3> QED BY <3>1 DEF Lease, Expiry
  <2>4. HeadAfterPop(t) \in Nat
    BY <2>1 DEF HeadAfterPop, TypeOK
  <2>5. /\ ready' = [ready EXCEPT ![t] = Tail(@)]
        /\ head' = [head EXCEPT ![t] = HeadAfterPop(t)]
        /\ inflight' = [inflight EXCEPT ![t] = {x \in @ : x.id # m.id} \cup {e}]
        /\ visHeap' = [visHeap EXCEPT ![t] = @ \cup {h}]
        /\ cmsg' = [cmsg EXCEPT ![c] = m]
        /\ delivered' = delivered \cup {m}
        /\ cpc' = [cpc EXCEPT ![c] = "holding"]
        /\ UNCHANGED <<now, closed, mounted, created, delayed, promoVars,
                       prodVars, ctopic, gVars, closeVars, used, availableAt>>
    BY <1>11 DEF TryPop
  <2>6. cpc' \in [Consumers -> ConsumerSteps]
    BY <2>5 DEF TypeOK, ConsumerSteps
  <2> HIDE DEF m, e, h
  <2> QED BY <2>1, <2>2, <2>3, <2>4, <2>5, <2>6 DEF TypeOK
<1>12. ASSUME NEW c \in Consumers, PopMiss(c) PROVE TypeOK'
  BY <1>12 DEF TypeOK, PopMiss, ConsumerAt, ConsumerSteps
<1>13. ASSUME NEW c \in Consumers, PopPend(c) PROVE TypeOK'
  BY <1>13 DEF TypeOK, PopPend, ConsumerAt, ConsumerSteps
<1>14. ASSUME NEW c \in Consumers, PopPark(c) PROVE TypeOK'
  BY <1>14 DEF TypeOK, PopPark, ConsumerAt, ConsumerSteps
<1>15. ASSUME NEW c \in Consumers, PopUnpend(c) PROVE TypeOK'
  BY <1>15 DEF TypeOK, PopUnpend, ConsumerAt, ConsumerSteps
<1>16. ASSUME NEW c \in Consumers, Abandon(c) PROVE TypeOK'
  BY <1>16 DEF TypeOK, Abandon, ConsumerAt, ConsumerSteps
<1>17. ASSUME NEW c \in Consumers, Remove(c) PROVE TypeOK'
  BY <1>17 DEF TypeOK, Remove, ConsumerAt, ConsumerSteps
<1>18. ASSUME NEW c \in Consumers, Requeue(c) PROVE TypeOK'
  <2> DEFINE t == ctopic[c]
  <2>1. t \in Queues /\ cpc[c] = "nackRequeue"
    BY <1>18 DEF Requeue, ConsumerAt, TypeOK
  <2>2. Requeued(c) \in Seq(Message)
    <3>1. CASE Settled(c) = {}
      BY <3>1 DEF Requeued
    <3>2. CASE Settled(c) # {}
      <4>1. PICK e \in inflight[t] : e.id = cmsg[c].id /\ e.attempt = cmsg[c].attempt
        BY <3>2 DEF Settled
      <4>2. [id |-> cmsg[c].id, attempt |-> cmsg[c].attempt + 1] \in Message
        BY <2>1, <4>1 DEF TypeOK, Lease, Message
      <4> QED BY <3>2, <4>2 DEF Requeued
    <3> QED BY <3>1, <3>2
  <2>3. ready' \in [Queues -> Seq(Message)]
    BY <1>18, <2>1, <2>2 DEF Requeue, TypeOK
  <2>4. inflight' \in [Queues -> SUBSET Lease]
    BY <1>18, <2>1 DEF Requeue, TypeOK
  <2>5. /\ cpc' \in [Consumers -> ConsumerSteps]
        /\ \A b \in Consumers : cpc'[b] # "idle" => cpc[b] # "idle"
    BY <1>18, <2>1 DEF Requeue, TypeOK, ConsumerSteps
  <2> QED BY <1>18, <2>3, <2>4, <2>5 DEF TypeOK, Requeue
<1>19. ASSUME NEW c \in Consumers, Length(c) PROVE TypeOK'
  BY <1>19 DEF TypeOK, Length, ConsumerAt, ConsumerSteps
<1>20. ASSUME NEW c \in Consumers, Sweep(c) PROVE TypeOK'
  <2>1. ctopic[c] \in Queues
    BY <1>20 DEF Sweep, ConsumerAt, TypeOK
  <2>2. /\ mounted' \in Queues \cup {None}
        /\ quit' \in [Queues -> BOOLEAN]
        /\ visHeap' \in [Queues -> SUBSET Expiry]
        /\ head' \in [Queues -> Nat]
    <3>1. CASE UNCHANGED <<visHeap, head>> /\ mounted' = None
                 /\ quit' = [quit EXCEPT ![ctopic[c]] = TRUE]
      BY <2>1, <3>1 DEF TypeOK
    <3>2. CASE /\ visHeap' = [visHeap EXCEPT ![ctopic[c]] = {}]
               /\ head' = [head EXCEPT ![ctopic[c]] = 0]
               /\ UNCHANGED <<quit, mounted>>
      BY <2>1, <3>2 DEF TypeOK
    <3>3. CASE UNCHANGED <<quit, mounted, visHeap, head>>
      BY <3>3 DEF TypeOK
    <3> QED BY <1>20, <3>1, <3>2, <3>3 DEF Sweep
  <2>3. /\ cpc' \in [Consumers -> ConsumerSteps]
        /\ ctopic' \in [Consumers -> Queues \cup {None}]
        /\ \A b \in Consumers : cpc'[b] # "idle" => ctopic'[b] # None
    BY <1>20, <2>1 DEF Sweep, TypeOK, ConsumerSteps
  <2> QED BY <1>20, <2>2, <2>3 DEF TypeOK, Sweep
<1>21. ASSUME NEW c \in Consumers, NackSignal(c) PROVE TypeOK'
  <2> DEFINE pcs == [cpc EXCEPT ![c] = "idle"]
  <2>1. pcs \in [Consumers -> ConsumerSteps]
    BY DEF TypeOK, ConsumerSteps
  <2>2. cpc' \in Signalled(pcs, ctopic[c])
    BY <1>21 DEF NackSignal
  <2> HIDE DEF pcs
  <2>3. /\ cpc' \in [Consumers -> ConsumerSteps]
        /\ \A b \in Consumers : cpc'[b] = pcs[b] \/ pcs[b] = "wait"
    BY <2>1, <2>2, SignalledType
  <2>4. \A b \in Consumers : cpc'[b] # "idle" => cpc[b] # "idle" /\ b # c
    BY <2>3 DEF pcs, TypeOK
  <2> QED BY <1>21, <2>3, <2>4 DEF TypeOK, NackSignal
<1>22. ASSUME NEW c \in Consumers, NEW cause \in {"expired", "cancelled"}, PopWake(c, cause) PROVE TypeOK'
  BY <1>22 DEF TypeOK, PopWake, ConsumerAt, ConsumerSteps
<1>23. ASSUME NEW c \in Consumers, NEW step \in {"ack", "nackDrop", "nackRequeue"},
              Settle(c, step) PROVE TypeOK'
  <2>1. cpc' \in [Consumers -> ConsumerSteps]
    BY <1>23 DEF Settle, TypeOK, ConsumerSteps
  <2>2. /\ ctopic' \in [Consumers -> Queues \cup {None}]
        /\ cmsg' \in [Consumers -> Message \cup {None}]
        /\ \A b \in Consumers : cpc'[b] # "idle" => ctopic'[b] # None
    <3>1. CASE /\ cpc' = [cpc EXCEPT ![c] = "idle"]
               /\ ctopic' = [ctopic EXCEPT ![c] = None]
               /\ cmsg' = [cmsg EXCEPT ![c] = None]
      BY <3>1 DEF TypeOK
    <3>2. CASE /\ mounted # None
               /\ cpc' = [cpc EXCEPT ![c] = step]
               /\ ctopic' = [ctopic EXCEPT ![c] = mounted]
               /\ cmsg' = cmsg
      BY <3>2 DEF TypeOK
    <3> QED BY <1>23, <3>1, <3>2 DEF Settle
  <2> QED BY <1>23, <2>1, <2>2 DEF TypeOK, Settle
<1>24. ASSUME NEW g \in Promoters, PromoteTop(g) PROVE TypeOK'
  BY <1>24 DEF TypeOK, PromoteTop, PromoterAt, PromoterSteps
<1>25. ASSUME NEW g \in Promoters, Collect(g) PROVE TypeOK'
  <2> DEFINE t == gtopic[g]
  <2>1. t \in Queues /\ gpc[g] = "collect"
    BY <1>25 DEF Collect, PromoterAt, TypeOK
  <2>2. Due(t) \subseteq delayed[t] /\ NotDue(t) \subseteq delayed[t]
    BY DEF Due, NotDue
  <2>3. gnext' \in [Promoters -> Nat \cup {None}]
    <3>1. \A e \in NotDue(t) : e.readyAt \in Nat
      BY <2>1, <2>2 DEF TypeOK, Delayed
    <3> QED BY <1>25, <3>1 DEF Collect, TypeOK
  <2>4. /\ gpc' \in [Promoters -> PromoterSteps]
        /\ \A h \in Promoters : gpc'[h] # "unborn" => gpc[h] # "unborn"
    BY <1>25, <2>1 DEF Collect, TypeOK, PromoterSteps, AfterDue
  <2> QED BY <1>25, <2>1, <2>2, <2>3, <2>4 DEF TypeOK, Collect
<1>26. ASSUME NEW g \in Promoters, AppendDue(g) PROVE TypeOK'
  <2> DEFINE t == gtopic[g]
  <2>1. t \in Queues /\ gpc[g] = "append"
    BY <1>26 DEF AppendDue, PromoterAt, TypeOK
  <2>2. PICK s \in Orderings(gdue[g]) :
          ready' = [ready EXCEPT ![t] = @ \o
                       [i \in 1..Len(s) |-> [id |-> s[i].id, attempt |-> 1]]]
    BY <1>26 DEF AppendDue
  <2>3. s \in Seq(gdue[g])
    BY <2>2, OrderingsSeq, FS_Subset DEF FiniteLists
  <2>4. [i \in 1..Len(s) |-> [id |-> s[i].id, attempt |-> 1]] \in Seq(Message)
    <3>1. \A i \in 1..Len(s) : [id |-> s[i].id, attempt |-> 1] \in Message
      BY <2>3 DEF TypeOK, Delayed, Message
    <3> QED BY <2>3, <3>1
  <2>5. ready' \in [Queues -> Seq(Message)]
    BY <2>1, <2>2, <2>4 DEF TypeOK
  <2>6. /\ gpc' \in [Promoters -> PromoterSteps]
        /\ \A h \in Promoters : gpc'[h] # "unborn" => gpc[h] # "unborn"
    BY <1>26, <2>1 DEF AppendDue, TypeOK, PromoterSteps
  <2>7. gdue' \in [Promoters -> SUBSET Delayed]
    BY <1>26 DEF AppendDue, TypeOK
  <2> QED BY <1>26, <2>5, <2>6, <2>7 DEF TypeOK, AppendDue
<1>27. ASSUME NEW g \in Promoters, PromoteSignal(g) PROVE TypeOK'
  <2>1. /\ cpc' \in [Consumers -> ConsumerSteps]
        /\ \A c \in Consumers : cpc'[c] # "idle" => cpc[c] # "idle"
    <3>1. cpc \in [Consumers -> ConsumerSteps] /\ cpc' \in Signalled(cpc, gtopic[g])
      BY <1>27 DEF PromoteSignal, TypeOK
    <3> QED BY <3>1, SignalledType
  <2>2. /\ gpc' \in [Promoters -> PromoterSteps]
        /\ \A h \in Promoters : gpc'[h] # "unborn" => gpc[h] # "unborn"
    BY <1>27 DEF PromoteSignal, PromoterAt, TypeOK, PromoterSteps, AfterDue
  <2> QED BY <1>27, <2>1, <2>2 DEF TypeOK, PromoteSignal
<1>28. ASSUME NEW g \in Promoters, PromoteWake(g) PROVE TypeOK'
  BY <1>28 DEF TypeOK, PromoteWake, PromoterAt, PromoterSteps
<1>29. ASSUME NEW g \in Promoters, PromoteOff(g) PROVE TypeOK'
  BY <1>29 DEF TypeOK, PromoteOff, PromoterAt, PromoterSteps
<1>30. ASSUME NEW g \in Promoters, PromoteDefer(g) PROVE TypeOK'
  BY <1>30 DEF TypeOK, PromoteDefer, PromoterAt, PromoterSteps
<1>31. ASSUME NEW g \in Promoters, PromoteClose(g) PROVE TypeOK'
  BY <1>31 DEF TypeOK, PromoteClose, PromoterAt, PromoterSteps
<1>32. CASE CloseBegin
  BY <1>32 DEF TypeOK, CloseBegin, CloserAt
<1>33. CASE CloseRead
  BY <1>33 DEF TypeOK, CloseRead, CloserAt
<1>34. CASE CloseQuit
  BY <1>34 DEF TypeOK, CloseQuit, CloserAt
<1>35. CASE CloseJoin
  BY <1>35 DEF TypeOK, CloseJoin, CloserAt
<1>36. CASE UNCHANGED vars
  BY <1>36 DEF TypeOK, vars
<1> QED
  BY <1>1, <1>2, <1>3, <1>4, <1>5, <1>6, <1>7, <1>8, <1>9, <1>10, <1>11,
     <1>12, <1>13, <1>14, <1>15, <1>16, <1>17, <1>18, <1>19, <1>20, <1>21, <1>22,
     <1>23, <1>24, <1>25, <1>26, <1>27, <1>28, <1>29, <1>30, <1>31, <1>32, <1>33,
     <1>34, <1>35, <1>36
     DEF Next, ProducerStep, ConsumerStep, PromoterStep, CloseStep

(* The state the messages are in, and the actions that move them.          *)
places == <<ready, delayed, inflight, gdue, used, delivered, availableAt>>

MovesMessages ==
    \/ \E p \in Producers, m \in Messages : Enqueue(p, m)
    \/ \E c \in Consumers : Reclaim(c) \/ TryPop(c) \/ Remove(c) \/ Requeue(c)
    \/ \E g \in Promoters : Collect(g) \/ AppendDue(g)

(* Every other step leaves the messages where they are.                    *)
LEMMA Frame == [Next]_vars => MovesMessages \/ UNCHANGED places
<1> SUFFICES ASSUME [Next]_vars, ~MovesMessages PROVE UNCHANGED places
  OBVIOUS
<1> USE DEF places, topicVars, histVars, gVars
<1>1. CASE Tick
  BY <1>1 DEF Tick
<1>2. ASSUME NEW p \in Producers, ProducerStep(p) PROVE UNCHANGED places
  BY <1>2 DEF ProducerStep, MovesMessages, PushTopic, PushSpace, PushCancel,
              EnqueueClosed, PushSignal
<1>3. ASSUME NEW c \in Consumers, ConsumerStep(c) PROVE UNCHANGED places
  <2>1. CASE PopTopic(c) \/ ReclaimSignal(c) \/ PopMiss(c) \/ PopPend(c)
             \/ PopPark(c) \/ PopUnpend(c) \/ Abandon(c)
    BY <2>1 DEF PopTopic, ReclaimSignal, PopMiss, PopPend, PopPark, PopUnpend,
                Abandon
  <2>2. CASE Length(c) \/ Sweep(c) \/ NackSignal(c)
    BY <2>2 DEF Length, Sweep, NackSignal
  <2>3. CASE \E cause \in {"expired", "cancelled"} : PopWake(c, cause)
    BY <2>3 DEF PopWake
  <2>4. CASE \E step \in {"ack", "nackDrop", "nackRequeue"} : Settle(c, step)
    BY <2>4 DEF Settle
  <2> QED BY <1>3, <2>1, <2>2, <2>3, <2>4 DEF ConsumerStep, MovesMessages
<1>4. ASSUME NEW g \in Promoters, PromoterStep(g) PROVE UNCHANGED places
  BY <1>4 DEF PromoterStep, MovesMessages, PromoteTop, PromoteSignal,
              PromoteWake, PromoteOff, PromoteDefer, PromoteClose
<1>5. CASE CloseStep
  BY <1>5 DEF CloseStep, CloseBegin, CloseRead, CloseQuit, CloseJoin
<1>6. CASE UNCHANGED vars
  BY <1>6 DEF vars
<1> QED BY <1>1, <1>2, <1>3, <1>4, <1>5, <1>6 DEF Next

(* The lists stay finite: a step adds at most one entry to one of them.    *)
LEMMA FiniteStep == TypeOK /\ FiniteLists /\ [Next]_vars => FiniteLists'
<1> SUFFICES ASSUME TypeOK, FiniteLists, [Next]_vars PROVE FiniteLists'
  OBVIOUS
<1>1. CASE UNCHANGED places
  BY <1>1 DEF places, FiniteLists
<1>2. ASSUME NEW p \in Producers, NEW m \in Messages, Enqueue(p, m)
      PROVE FiniteLists'
  <2> DEFINE e == [id |-> m, readyAt |-> now + pdelay[p]]
  <2>1. \A t \in Queues : delayed'[t] \subseteq delayed[t] \cup {e}
    <3>1. \/ delayed' = delayed
          \/ delayed' = [delayed EXCEPT ![MountTopic(ptopic[p])] = @ \cup {e}]
      BY <1>2 DEF Enqueue
    <3> HIDE DEF e
    <3> QED BY <3>1 DEF TypeOK
  <2>2. inflight' = inflight /\ gdue' = gdue
    BY <1>2 DEF Enqueue
  <2> HIDE DEF e
  <2> QED BY <2>1, <2>2, FS_AddElement, FS_Subset DEF FiniteLists
<1>3. ASSUME NEW c \in Consumers, Reclaim(c) \/ Remove(c) \/ Requeue(c)
      PROVE FiniteLists'
  <2>1. \A t \in Queues : inflight'[t] \subseteq inflight[t]
    <3>1. CASE Reclaim(c)
      BY <3>1 DEF Reclaim, TypeOK
    <3>2. CASE Remove(c)
      BY <3>2 DEF Remove, TypeOK
    <3>3. CASE Requeue(c)
      BY <3>3 DEF Requeue, TypeOK
    <3> QED BY <1>3, <3>1, <3>2, <3>3
  <2>2. delayed' = delayed /\ gdue' = gdue
    BY <1>3 DEF Reclaim, Remove, Requeue, gVars
  <2> QED BY <2>1, <2>2, FS_Subset DEF FiniteLists
<1>4. ASSUME NEW c \in Consumers, TryPop(c) PROVE FiniteLists'
  <2>1. PICK e : \A t \in Queues : inflight'[t] \subseteq inflight[t] \cup {e}
    <3> DEFINE m == Head(ready[ctopic[c]])
               e == [id |-> m.id, attempt |-> m.attempt,
                     deadline |-> now + Visibility]
    <3>1. inflight' = [inflight EXCEPT ![ctopic[c]] =
                          {x \in @ : x.id # m.id} \cup {e}]
      BY <1>4 DEF TryPop
    <3> HIDE DEF m, e
    <3>2. \A t \in Queues : inflight'[t] \subseteq inflight[t] \cup {e}
      BY <3>1 DEF TypeOK
    <3> QED BY <3>2
  <2>2. delayed' = delayed /\ gdue' = gdue
    BY <1>4 DEF TryPop, gVars
  <2> QED BY <2>1, <2>2, FS_AddElement, FS_Subset DEF FiniteLists
<1>5. ASSUME NEW g \in Promoters, Collect(g) PROVE FiniteLists'
  <2>1. gtopic[g] \in Queues
    BY <1>5 DEF Collect, PromoterAt, TypeOK
  <2>2. \A t \in Queues : delayed'[t] \subseteq delayed[t]
    BY <1>5 DEF Collect, TypeOK, NotDue
  <2>3. \A h \in Promoters : \/ gdue'[h] = gdue[h]
                             \/ gdue'[h] \subseteq delayed[gtopic[g]]
    BY <1>5 DEF Collect, TypeOK, Due
  <2>4. inflight' = inflight
    BY <1>5 DEF Collect
  <2> QED BY <2>1, <2>2, <2>3, <2>4, FS_Subset DEF FiniteLists
<1>6. ASSUME NEW g \in Promoters, AppendDue(g) PROVE FiniteLists'
  BY <1>6, FS_EmptySet DEF AppendDue, TypeOK, FiniteLists
<1> QED BY <1>1, <1>2, <1>3, <1>4, <1>5, <1>6, Frame DEF MovesMessages

(* The adapter starts with no topic mounted and all lists empty.           *)
LEMMA TypeOKInit == Init => TypeOK /\ FiniteLists
<1> SUFFICES ASSUME Init PROVE TypeOK /\ FiniteLists
  OBVIOUS
<1>1. FiniteLists
  BY FS_EmptySet DEF Init, FiniteLists
<1>2. /\ cpc \in [Consumers -> ConsumerSteps]
      /\ gpc \in [Promoters -> PromoterSteps]
  BY DEF Init, ConsumerSteps, PromoterSteps
<1>3. ready \in [Queues -> Seq(Message)]
  BY DEF Init
<1>4. TypeOK
  BY <1>2, <1>3 DEF Init, TypeOK
<1> QED BY <1>1, <1>4

(* Every behaviour of the adapter is type-correct, and no goroutine works  *)
(* on a nil topicQueue.                                                    *)
THEOREM TypeCorrect == Spec => []TypeOK
<1>1. Init => TypeOK /\ FiniteLists
  BY TypeOKInit
<1>2. TypeOK /\ FiniteLists /\ [Next]_vars => (TypeOK /\ FiniteLists)'
  BY TypeOKStep, FiniteStep
<1> QED BY <1>1, <1>2, PTL DEF Spec

-----------------------------------------------------------------------------
(* Facts about the ids in a list of messages.                              *)
Ids(s) == {s[i].id : i \in DOMAIN s}

Distinct(s) == \A i, j \in DOMAIN s : s[i].id = s[j].id => i = j

(* The ids of a concatenation, as enqueue, Nack and appendDue build it.    *)
LEMMA ConcatIds ==
    ASSUME NEW s \in Seq(Message), NEW r \in Seq(Message)
    PROVE  /\ s \o r \in Seq(Message)
           /\ Ids(s \o r) = Ids(s) \cup Ids(r)
           /\ Distinct(s) /\ Distinct(r) /\ Ids(s) \cap Ids(r) = {}
                => Distinct(s \o r)
<1>1. /\ s \o r \in Seq(Message)
      /\ DOMAIN (s \o r) = 1..(Len(s) + Len(r))
      /\ \A i \in 1..Len(s) : (s \o r)[i] = s[i]
      /\ \A i \in 1..Len(r) : (s \o r)[Len(s) + i] = r[i]
      /\ DOMAIN s = 1..Len(s) /\ DOMAIN r = 1..Len(r)
      /\ Len(s) \in Nat /\ Len(r) \in Nat
  OBVIOUS
<1>2. \A i \in 1..(Len(s) + Len(r)) :
         \/ i \in 1..Len(s)
         \/ \E j \in 1..Len(r) : i = Len(s) + j
  <2> SUFFICES ASSUME NEW i \in 1..(Len(s) + Len(r)), i \notin 1..Len(s)
               PROVE  \E j \in 1..Len(r) : i = Len(s) + j
    OBVIOUS
  <2>1. i - Len(s) \in 1..Len(r) /\ i = Len(s) + (i - Len(s))
    BY <1>1
  <2> QED BY <2>1
<1>3. Ids(s \o r) \subseteq Ids(s) \cup Ids(r)
  <2> SUFFICES ASSUME NEW i \in DOMAIN (s \o r)
               PROVE  (s \o r)[i].id \in Ids(s) \cup Ids(r)
    BY DEF Ids
  <2>1. CASE i \in 1..Len(s)
    BY <1>1, <2>1 DEF Ids
  <2>2. CASE \E j \in 1..Len(r) : i = Len(s) + j
    BY <1>1, <2>2 DEF Ids
  <2> QED BY <1>1, <1>2, <2>1, <2>2
<1>4. Ids(s) \subseteq Ids(s \o r)
  <2>1. \A i \in 1..Len(s) : i \in 1..(Len(s) + Len(r))
    BY <1>1
  <2> QED BY <1>1, <2>1 DEF Ids
<1>5. Ids(r) \subseteq Ids(s \o r)
  <2> SUFFICES ASSUME NEW i \in 1..Len(r) PROVE r[i].id \in Ids(s \o r)
    BY <1>1 DEF Ids
  <2>1. Len(s) + i \in 1..(Len(s) + Len(r))
    BY <1>1
  <2>2. (s \o r)[Len(s) + i].id = r[i].id
    BY <1>1
  <2> QED BY <1>1, <2>1, <2>2 DEF Ids
<1>6. ASSUME Distinct(s), Distinct(r), Ids(s) \cap Ids(r) = {}
      PROVE  Distinct(s \o r)
  <2> SUFFICES ASSUME NEW i \in DOMAIN (s \o r), NEW j \in DOMAIN (s \o r),
                      (s \o r)[i].id = (s \o r)[j].id
               PROVE  i = j
    BY DEF Distinct
  <2>1. CASE i \in 1..Len(s) /\ j \in 1..Len(s)
    BY <1>1, <1>6, <2>1 DEF Distinct
  <2>2. CASE i \in 1..Len(s) /\ \E l \in 1..Len(r) : j = Len(s) + l
    <3>1. PICK l \in 1..Len(r) : j = Len(s) + l
      BY <2>2
    <3>2. (s \o r)[i].id \in Ids(s) /\ (s \o r)[j].id \in Ids(r)
      BY <1>1, <2>2, <3>1 DEF Ids
    <3> QED BY <1>6, <3>2
  <2>3. CASE j \in 1..Len(s) /\ \E k \in 1..Len(r) : i = Len(s) + k
    <3>1. PICK k \in 1..Len(r) : i = Len(s) + k
      BY <2>3
    <3>2. (s \o r)[j].id \in Ids(s) /\ (s \o r)[i].id \in Ids(r)
      BY <1>1, <2>3, <3>1 DEF Ids
    <3> QED BY <1>6, <3>2
  <2>4. CASE (\E k \in 1..Len(r) : i = Len(s) + k)
             /\ (\E l \in 1..Len(r) : j = Len(s) + l)
    <3>1. PICK k \in 1..Len(r), l \in 1..Len(r) : i = Len(s) + k /\ j = Len(s) + l
      BY <2>4
    <3>2. r[k].id = r[l].id
      BY <1>1, <3>1
    <3> QED BY <1>1, <1>6, <3>1, <3>2 DEF Distinct
  <2> QED BY <1>1, <1>2, <2>1, <2>2, <2>3, <2>4
<1> QED BY <1>1, <1>3, <1>4, <1>5, <1>6

(* The ids of a list whose head tryPop has taken.                          *)
LEMMA TailIds ==
    ASSUME NEW s \in Seq(Message), s # <<>>, Distinct(s)
    PROVE  /\ Tail(s) \in Seq(Message)
           /\ Distinct(Tail(s))
           /\ Ids(Tail(s)) = Ids(s) \ {Head(s).id}
           /\ Head(s).id \in Ids(s)
<1>1. /\ Tail(s) \in Seq(Message)
      /\ DOMAIN s = 1..Len(s) /\ Len(s) \in Nat \ {0}
      /\ DOMAIN Tail(s) = 1..(Len(s) - 1)
      /\ Head(s) = s[1]
  OBVIOUS
<1>2. \A i \in 1..(Len(s) - 1) : i + 1 \in 1..Len(s) /\ Tail(s)[i] = s[i + 1]
  BY <1>1
<1>3. Distinct(Tail(s))
  BY <1>1, <1>2 DEF Distinct
<1>4. Head(s).id \in Ids(s)
  BY <1>1 DEF Ids
<1>5. Ids(Tail(s)) \subseteq Ids(s) \ {Head(s).id}
  <2> SUFFICES ASSUME NEW i \in 1..(Len(s) - 1)
               PROVE  s[i + 1].id \in Ids(s) /\ s[i + 1].id # s[1].id
    BY <1>1, <1>2 DEF Ids
  <2>1. i + 1 # 1 /\ 1 \in 1..Len(s) /\ i + 1 \in 1..Len(s)
    BY <1>1
  <2> QED BY <1>1, <2>1 DEF Ids, Distinct
<1>6. Ids(s) \ {Head(s).id} \subseteq Ids(Tail(s))
  <2> SUFFICES ASSUME NEW i \in 1..Len(s), s[i].id # s[1].id
               PROVE  s[i].id \in Ids(Tail(s))
    BY <1>1 DEF Ids
  <2>1. i - 1 \in 1..(Len(s) - 1) /\ (i - 1) + 1 = i
    BY <1>1
  <2>2. Tail(s)[i - 1] = s[i]
    BY <1>2, <2>1
  <2> QED BY <1>1, <2>1, <2>2 DEF Ids
<1> QED BY <1>1, <1>3, <1>4, <1>5, <1>6

(* The messages made from an enumeration of a set of entries with distinct *)
(* ids have distinct ids, and the ids of the set.                          *)
LEMMA FiledIds ==
    ASSUME NEW S, IsFiniteSet(S), NEW s \in Orderings(S),
           \A e, f \in S : e.id = f.id => e = f,
           NEW r, r \in Seq(Message), Len(r) = Len(s),
           \A i \in 1..Len(s) : r[i].id = s[i].id
    PROVE  Distinct(r) /\ Ids(r) = {e.id : e \in S}
<1>1. /\ s \in Seq(S)
      /\ \A i, j \in 1..Len(s) : s[i] = s[j] => i = j
      /\ \A e \in S : \E i \in 1..Len(s) : s[i] = e
  BY OrderingsSeq
<1>2. DOMAIN r = 1..Len(s) /\ \A i \in 1..Len(s) : s[i] \in S
  BY <1>1
<1>3. Distinct(r)
  BY <1>1, <1>2 DEF Distinct
<1>4. Ids(r) \subseteq {e.id : e \in S}
  BY <1>2 DEF Ids
<1>5. {e.id : e \in S} \subseteq Ids(r)
  <2> SUFFICES ASSUME NEW e \in S PROVE e.id \in Ids(r)
    OBVIOUS
  <2>1. PICK i \in 1..Len(s) : s[i] = e
    BY <1>1
  <2>2. r[i].id = e.id /\ i \in DOMAIN r
    BY <1>2, <2>1
  <2> QED BY <2>2 DEF Ids
<1> QED BY <1>3, <1>4, <1>5

-----------------------------------------------------------------------------
(* The ids in each place a message may be in.                              *)
RI(t) == Ids(ready[t])
DI(t) == {e.id : e \in delayed[t]}
LI(t) == {e.id : e \in inflight[t]}
GI(g) == {e.id : e \in gdue[g]}

(* SingleCopy in terms of these sets.                                      *)
ReadyOnce == \A t \in Queues : Distinct(ready[t])

(* Two places never hold the same id.                                      *)
Apart ==
    \A m \in Messages :
        /\ \A t, u \in Queues :
              /\ m \in RI(t) /\ m \in RI(u) => t = u
              /\ m \in DI(t) /\ m \in DI(u) => t = u
              /\ m \in LI(t) /\ m \in LI(u) => t = u
              /\ m \in RI(t) => m \notin DI(u) /\ m \notin LI(u)
              /\ m \in DI(t) => m \notin LI(u)
        /\ \A g \in Promoters : m \in GI(g) =>
              /\ \A h \in Promoters : m \in GI(h) => g = h
              /\ \A t \in Queues : m \notin RI(t) /\ m \notin DI(t) /\ m \notin LI(t)

(* Only an id that enqueue has accepted is anywhere.                       *)
Known ==
    /\ \A t \in Queues : RI(t) \cup DI(t) \cup LI(t) \subseteq used
    /\ \A g \in Promoters : GI(g) \subseteq used

(* A promoter holds due messages only between collectDue and appendDue.    *)
HandsFull == \A g \in Promoters : gpc[g] # "append" => gdue[g] = {}

(* The inductive invariant behind SingleCopy.                              *)
Inv == TypeOK /\ FiniteLists /\ ReadyOnce /\ OneLease /\ OneDelayed /\ OneDue
       /\ Apart /\ Known /\ HandsFull

(* SingleCopy follows from its form over the sets of ids.                  *)
LEMMA SingleCopySets ==
    SingleCopy <=> ReadyOnce /\ OneLease /\ OneDelayed /\ OneDue /\ Apart
<1>1. OneReady <=> ReadyOnce
  BY DEF OneReady, ReadyOnce, Distinct
<1>2. /\ \A t, m : InReady(t, m) <=> m \in RI(t)
      /\ \A t, m : InDelayed(t, m) <=> m \in DI(t)
      /\ \A t, m : InFlight(t, m) <=> m \in LI(t)
      /\ \A g, m : InDue(g, m) <=> m \in GI(g)
  BY DEF InReady, InDelayed, InFlight, InDue, RI, DI, LI, GI, Ids
<1>3. OnePlace <=> Apart
  BY <1>2 DEF OnePlace, Apart
<1> QED BY <1>1, <1>3 DEF SingleCopy

(* No message is anywhere at the start.                                    *)
LEMMA InvInit == Init => Inv
<1> SUFFICES ASSUME Init PROVE Inv
  OBVIOUS
<1>1. \A t \in Queues : ready[t] = <<>> /\ delayed[t] = {} /\ inflight[t] = {}
  BY DEF Init
<1>2. \A g \in Promoters : gdue[g] = {}
  BY DEF Init
<1>3. \A t \in Queues : RI(t) = {} /\ DI(t) = {} /\ LI(t) = {}
  BY <1>1 DEF RI, DI, LI, Ids
<1>4. \A g \in Promoters : GI(g) = {}
  BY <1>2 DEF GI
<1>5. ReadyOnce /\ OneLease /\ OneDelayed /\ OneDue
  BY <1>1, <1>2 DEF ReadyOnce, Distinct, OneLease, OneDelayed, OneDue
<1> QED BY <1>2, <1>3, <1>4, <1>5, TypeOKInit DEF Inv, Apart, Known, HandsFull

(* A new message goes to the ready list or to the delayed list.            *)
LEMMA EnqueueApart ==
    ASSUME Inv, NEW p \in Producers, NEW m \in Messages, Enqueue(p, m)
    PROVE  (ReadyOnce /\ OneLease /\ OneDelayed /\ OneDue /\ Apart /\ Known)'
<1> DEFINE t == MountTopic(ptopic[p])
           r == [id |-> m, attempt |-> 1]
           e == [id |-> m, readyAt |-> now + pdelay[p]]
<1>1. t \in Queues
  BY ConstantsAssumption DEF Inv, TypeOK, MountTopic, Enqueue, ProducerAt
<1>2. /\ m \notin used
      /\ used' = used \cup {m}
      /\ inflight' = inflight
      /\ gdue' = gdue
      /\ \/ delayed' = delayed /\ ready' = [ready EXCEPT ![t] = Append(@, r)]
         \/ ready' = ready /\ delayed' = [delayed EXCEPT ![t] = @ \cup {e}]
  BY DEF Enqueue
<1>3. /\ \A u \in Queues : LI(u)' = LI(u)
      /\ \A g \in Promoters : GI(g)' = GI(g)
      /\ OneLease' /\ OneDue'
  BY <1>2 DEF LI, GI, OneLease, OneDue, Inv
<1>4. r \in Message /\ r.id = m /\ e.id = m
  BY DEF Message
<1> HIDE DEF t, r, e
<1>5. CASE delayed' = delayed /\ ready' = [ready EXCEPT ![t] = Append(@, r)]
  <2>1. /\ <<r>> \in Seq(Message) /\ Ids(<<r>>) = {m} /\ Distinct(<<r>>)
        /\ Append(ready[t], r) = ready[t] \o <<r>>
        /\ ready[t] \in Seq(Message)
    BY <1>1, <1>4 DEF Ids, Distinct, Inv, TypeOK
  <2>2. Distinct(ready[t]) /\ m \notin Ids(ready[t])
    BY <1>1, <1>2 DEF Inv, ReadyOnce, Known, RI
  <2>3. Ids(ready'[t]) = Ids(ready[t]) \cup {m} /\ Distinct(ready'[t])
    <3>1. ready'[t] = ready[t] \o <<r>>
      BY <1>1, <1>5, <2>1 DEF Inv, TypeOK
    <3>2. Ids(ready[t]) \cap Ids(<<r>>) = {}
      BY <2>1, <2>2
    <3> QED BY <2>1, <2>2, <3>1, <3>2, ConcatIds
  <2>4. \A u \in Queues : u # t => ready'[u] = ready[u]
    BY <1>5 DEF Inv, TypeOK
  <2>5. /\ ReadyOnce'
        /\ \A u \in Queues : RI(u)' = IF u = t THEN RI(u) \cup {m} ELSE RI(u)
    BY <1>1, <2>3, <2>4 DEF ReadyOnce, RI, Inv
  <2>6. OneDelayed' /\ \A u \in Queues : DI(u)' = DI(u)
    BY <1>5 DEF OneDelayed, DI, Inv
  <2>7. Known'
    BY <1>2, <1>3, <2>5, <2>6 DEF Known, Inv
  <2>8. Apart'
    BY <1>1, <1>2, <1>3, <2>5, <2>6 DEF Apart, Known, Inv
  <2> QED BY <1>3, <2>5, <2>6, <2>7, <2>8
<1>6. CASE ready' = ready /\ delayed' = [delayed EXCEPT ![t] = @ \cup {e}]
  <2>1. \A u \in Queues : delayed'[u] = IF u = t THEN delayed[u] \cup {e}
                                                 ELSE delayed[u]
    BY <1>6 DEF Inv, TypeOK
  <2>2. \A f \in delayed[t] : f.id # m
    BY <1>1, <1>2 DEF Inv, Known, DI
  <2>3. OneDelayed'
    BY <1>1, <1>4, <2>1, <2>2 DEF OneDelayed, Inv
  <2>4. \A u \in Queues : DI(u)' = IF u = t THEN DI(u) \cup {m} ELSE DI(u)
    BY <1>4, <2>1 DEF DI
  <2>5. ReadyOnce' /\ \A u \in Queues : RI(u)' = RI(u)
    BY <1>6 DEF ReadyOnce, RI, Inv
  <2>6. Known'
    BY <1>2, <1>3, <2>4, <2>5 DEF Known, Inv
  <2>7. Apart'
    BY <1>1, <1>2, <1>3, <2>4, <2>5 DEF Apart, Known, Inv
  <2> QED BY <1>3, <2>3, <2>5, <2>6, <2>7
<1> QED BY <1>2, <1>5, <1>6

(* Leases L end and their messages go back to the ready list as r.         *)
LEMMA ReturnApart ==
    ASSUME Inv, NEW t \in Queues, NEW L, L \subseteq inflight[t],
           NEW r \in Seq(Message), Distinct(r), Ids(r) = {e.id : e \in L},
           ready' = [ready EXCEPT ![t] = @ \o r],
           inflight' = [inflight EXCEPT ![t] = @ \ L],
           UNCHANGED <<delayed, gdue, used>>
    PROVE  (ReadyOnce /\ OneLease /\ OneDelayed /\ OneDue /\ Apart /\ Known)'
<1>1. /\ \A u \in Queues : DI(u)' = DI(u)
      /\ \A g \in Promoters : GI(g)' = GI(g)
      /\ OneDelayed' /\ OneDue'
  BY DEF DI, GI, OneDelayed, OneDue, Inv
<1>2. \A u \in Queues : /\ ready'[u] = IF u = t THEN ready[u] \o r ELSE ready[u]
                        /\ inflight'[u] = IF u = t THEN inflight[u] \ L
                                                   ELSE inflight[u]
  BY DEF Inv, TypeOK
<1>3. ready[t] \in Seq(Message) /\ Distinct(ready[t])
  BY DEF Inv, TypeOK, ReadyOnce
<1>4. Ids(r) \subseteq LI(t) /\ LI(t) \subseteq Messages
  BY DEF LI, Inv, TypeOK, Lease
<1>5. Ids(ready[t]) \cap Ids(r) = {}
  BY <1>4 DEF Inv, Apart, RI
<1>6. Ids(ready[t] \o r) = Ids(ready[t]) \cup Ids(r) /\ Distinct(ready[t] \o r)
  BY <1>3, <1>5, ConcatIds
<1>7. /\ ReadyOnce'
      /\ \A u \in Queues : RI(u)' = IF u = t THEN RI(u) \cup Ids(r) ELSE RI(u)
  <2>1. ready'[t] = ready[t] \o r
    BY <1>2
  <2>2. \A u \in Queues : u # t => ready'[u] = ready[u]
    BY <1>2
  <2>3. Ids(ready'[t]) = Ids(ready[t]) \cup Ids(r) /\ Distinct(ready'[t])
    BY <1>6, <2>1
  <2>4. ReadyOnce'
    BY <2>2, <2>3 DEF ReadyOnce, Inv
  <2>5. RI(t)' = RI(t) \cup Ids(r)
    BY <2>3 DEF RI
  <2>6. \A u \in Queues : u # t => RI(u)' = RI(u)
    BY <2>2 DEF RI
  <2> QED BY <2>4, <2>5, <2>6, Zenon
<1>8. \A u \in Queues : LI(u)' = IF u = t THEN LI(u) \ Ids(r) ELSE LI(u)
  <2>1. {e.id : e \in inflight[t] \ L} = LI(t) \ Ids(r)
    BY DEF LI, Inv, OneLease
  <2> QED BY <1>2, <2>1 DEF LI
<1>9. OneLease'
  BY <1>2 DEF OneLease, Inv
<1>10. Known'
  BY <1>1, <1>4, <1>7, <1>8 DEF Known, Inv
<1>11. Apart'
  BY <1>1, <1>4, <1>7, <1>8 DEF Apart, Inv
<1> QED BY <1>1, <1>7, <1>9, <1>10, <1>11

(* reclaimExpired moves lapsed leases back to the ready list.              *)
LEMMA ReclaimApart ==
    ASSUME Inv, NEW c \in Consumers, Reclaim(c)
    PROVE  (ReadyOnce /\ OneLease /\ OneDelayed /\ OneDue /\ Apart /\ Known)'
<1> DEFINE t == ctopic[c]
<1>1. t \in Queues
  BY DEF Inv, TypeOK, Reclaim, ConsumerAt
<1>2. PICK s \in Orderings(Lapsed(t)) :
        ready' = [ready EXCEPT ![t] = @ \o [i \in 1..Len(s) |-> reclaimEntry(s[i])]]
  BY DEF Reclaim
<1> DEFINE r == [i \in 1..Len(s) |-> reclaimEntry(s[i])]
<1>3. Lapsed(t) \subseteq inflight[t]
  BY DEF Lapsed, HeapLapsed
<1>4. IsFiniteSet(Lapsed(t))
  BY <1>1, <1>3, FS_Subset DEF Inv, FiniteLists
<1>5. s \in Seq(Lapsed(t))
  BY <1>4, OrderingsSeq
<1>6. \A i \in 1..Len(s) : reclaimEntry(s[i]) \in Message
  BY <1>1, <1>3, <1>5 DEF Inv, TypeOK, reclaimEntry, Lease, Message
<1>7. r \in Seq(Message) /\ Len(r) = Len(s)
  BY <1>5, <1>6
<1>8. \A i \in 1..Len(s) : r[i].id = s[i].id
  BY DEF reclaimEntry
<1>9. \A e, f \in Lapsed(t) : e.id = f.id => e = f
  BY <1>1, <1>3 DEF Inv, OneLease
<1>10. /\ inflight' = [inflight EXCEPT ![t] = @ \ Lapsed(t)]
       /\ UNCHANGED <<delayed, gdue, used>>
  BY DEF Reclaim, gVars, histVars
<1>11. ready' = [ready EXCEPT ![t] = @ \o r]
  BY <1>2
<1> HIDE DEF r, t
<1>12. Distinct(r) /\ Ids(r) = {e.id : e \in Lapsed(t)}
  BY <1>4, <1>7, <1>8, <1>9, FiledIds
<1> QED BY <1>1, <1>3, <1>7, <1>10, <1>11, <1>12, ReturnApart

(* Nack with requeue moves one lease back to the ready list.               *)
LEMMA RequeueApart ==
    ASSUME Inv, NEW c \in Consumers, Requeue(c)
    PROVE  (ReadyOnce /\ OneLease /\ OneDelayed /\ OneDue /\ Apart /\ Known)'
<1> DEFINE t == ctopic[c]
<1>1. t \in Queues
  BY DEF Inv, TypeOK, Requeue, ConsumerAt
<1>2. Settled(c) \subseteq inflight[t] /\ \A e \in Settled(c) : e.id = cmsg[c].id
  BY DEF Settled
<1>3. /\ ready' = [ready EXCEPT ![t] = @ \o Requeued(c)]
      /\ inflight' = [inflight EXCEPT ![t] = @ \ Settled(c)]
      /\ UNCHANGED <<delayed, gdue, used>>
  BY DEF Requeue, gVars, histVars
<1>4. /\ Requeued(c) \in Seq(Message)
      /\ Distinct(Requeued(c))
      /\ Ids(Requeued(c)) = {e.id : e \in Settled(c)}
  <2>1. CASE Settled(c) = {}
    BY <2>1 DEF Requeued, Distinct, Ids
  <2>2. CASE Settled(c) # {}
    <3> DEFINE q == [id |-> cmsg[c].id, attempt |-> cmsg[c].attempt + 1]
    <3>1. PICK e \in inflight[t] : e.id = cmsg[c].id /\ e.attempt = cmsg[c].attempt
      BY <2>2 DEF Settled
    <3>2. q \in Message /\ q.id = cmsg[c].id
      BY <1>1, <3>1 DEF Inv, TypeOK, Lease, Message
    <3>3. Requeued(c) = <<q>>
      BY <2>2 DEF Requeued
    <3>4. {f.id : f \in Settled(c)} = {cmsg[c].id}
      BY <1>2, <2>2
    <3> HIDE DEF q
    <3> QED BY <3>2, <3>3, <3>4 DEF Distinct, Ids
  <2> QED BY <2>1, <2>2
<1> HIDE DEF t
<1> QED BY <1>1, <1>2, <1>3, <1>4, ReturnApart

(* Ack and Nack without requeue remove one lease.                          *)
LEMMA RemoveApart ==
    ASSUME Inv, NEW c \in Consumers, Remove(c)
    PROVE  (ReadyOnce /\ OneLease /\ OneDelayed /\ OneDue /\ Apart /\ Known)'
<1>1. \A u \in Queues : inflight'[u] \subseteq inflight[u]
  BY DEF Remove, Inv, TypeOK
<1>2. UNCHANGED <<ready, delayed, gdue, used>>
  BY DEF Remove, gVars, histVars
<1>3. /\ \A u \in Queues : RI(u)' = RI(u) /\ DI(u)' = DI(u) /\ LI(u)' \subseteq LI(u)
      /\ \A g \in Promoters : GI(g)' = GI(g)
  BY <1>1, <1>2 DEF RI, DI, LI, GI
<1>4. (ReadyOnce /\ OneLease /\ OneDelayed /\ OneDue)'
  BY <1>1, <1>2 DEF ReadyOnce, OneLease, OneDelayed, OneDue, Inv
<1>5. Known'
  BY <1>2, <1>3 DEF Known, Inv
<1>6. Apart'
  BY <1>3 DEF Apart, Inv
<1> QED BY <1>4, <1>5, <1>6

(* tryPop moves the head of the ready list into a lease.                   *)
LEMMA TryPopApart ==
    ASSUME Inv, NEW c \in Consumers, TryPop(c)
    PROVE  (ReadyOnce /\ OneLease /\ OneDelayed /\ OneDue /\ Apart /\ Known)'
<1> DEFINE t == ctopic[c]
           m == Head(ready[t])
           e == [id |-> m.id, attempt |-> m.attempt, deadline |-> now + Visibility]
<1>1. t \in Queues /\ ready[t] # <<>>
  BY DEF Inv, TypeOK, TryPop, ConsumerAt
<1>2. /\ ready' = [ready EXCEPT ![t] = Tail(@)]
      /\ inflight' = [inflight EXCEPT ![t] = {f \in @ : f.id # m.id} \cup {e}]
      /\ UNCHANGED <<delayed, gdue, used>>
  BY DEF TryPop, gVars
<1>3. ready[t] \in Seq(Message) /\ Distinct(ready[t])
  BY <1>1 DEF Inv, TypeOK, ReadyOnce
<1>4. /\ Distinct(Tail(ready[t]))
      /\ Ids(Tail(ready[t])) = Ids(ready[t]) \ {m.id}
      /\ m.id \in Ids(ready[t])
  BY <1>1, <1>3, TailIds
<1>5. e.id = m.id /\ m.id \in Messages
  <2>1. m \in Message
    BY <1>1, <1>3
  <2> HIDE DEF m
  <2> QED BY <2>1 DEF Message
<1> HIDE DEF m, e, t
<1>6. \A u \in Queues :
        /\ ready'[u] = IF u = t THEN Tail(ready[u]) ELSE ready[u]
        /\ inflight'[u] = IF u = t THEN {f \in inflight[u] : f.id # m.id} \cup {e}
                                   ELSE inflight[u]
  BY <1>2 DEF Inv, TypeOK
<1>7. /\ ReadyOnce'
      /\ \A u \in Queues : RI(u)' = IF u = t THEN RI(u) \ {m.id} ELSE RI(u)
  BY <1>4, <1>6 DEF ReadyOnce, RI, Inv
<1>8. \A u \in Queues : LI(u)' = IF u = t THEN LI(u) \cup {m.id} ELSE LI(u)
  <2>1. ASSUME NEW u \in Queues, u = t PROVE LI(u)' = LI(u) \cup {m.id}
    BY <1>5, <1>6, <2>1 DEF LI
  <2>2. ASSUME NEW u \in Queues, u # t PROVE LI(u)' = LI(u)
    BY <1>6, <2>2 DEF LI
  <2> QED BY <2>1, <2>2
<1>9. OneLease'
  <2> SUFFICES ASSUME NEW u \in Queues, NEW x \in inflight'[u], NEW y \in inflight'[u],
                      x.id = y.id
               PROVE  x = y
    BY DEF OneLease
  <2>1. CASE u = t
    <3>1. \A z \in inflight'[t] : z = e \/ (z \in inflight[t] /\ z.id # m.id)
      <4>1. inflight'[t] = {f \in inflight[t] : f.id # m.id} \cup {e}
        BY <1>1, <1>6
      <4> QED BY <4>1
    <3> QED BY <1>1, <1>5, <2>1, <3>1 DEF OneLease, Inv
  <2>2. CASE u # t
    BY <1>6, <2>2 DEF OneLease, Inv
  <2> QED BY <2>1, <2>2
<1>10. /\ \A u \in Queues : DI(u)' = DI(u)
       /\ \A g \in Promoters : GI(g)' = GI(g)
       /\ OneDelayed' /\ OneDue'
  BY <1>2 DEF DI, GI, OneDelayed, OneDue, Inv
<1>11. m.id \in RI(t)
  BY <1>4 DEF RI
<1>12. Known'
  BY <1>1, <1>2, <1>7, <1>8, <1>10, <1>11 DEF Known, Inv
<1>13. Apart'
  BY <1>1, <1>5, <1>7, <1>8, <1>10, <1>11 DEF Apart, Inv
<1> QED BY <1>7, <1>9, <1>10, <1>12, <1>13

(* collectDue moves due entries into the promoter's hands.                 *)
LEMMA CollectApart ==
    ASSUME Inv, NEW g \in Promoters, Collect(g)
    PROVE  (ReadyOnce /\ OneLease /\ OneDelayed /\ OneDue /\ Apart /\ Known)'
<1> DEFINE t == gtopic[g]
<1>1. t \in Queues
  BY DEF Inv, TypeOK, Collect, PromoterAt
<1>2. /\ delayed' = [delayed EXCEPT ![t] = @ \ Due(t)]
      /\ gdue' = [gdue EXCEPT ![g] = Due(t)]
      /\ UNCHANGED <<ready, inflight, used>>
  BY DEF Collect, NotDue, histVars, Inv, TypeOK
<1>3. Due(t) \subseteq delayed[t]
  BY DEF Due
<1> DEFINE D == {e.id : e \in Due(t)}
<1>4. D \subseteq DI(t) /\ DI(t) \subseteq Messages
  BY <1>1, <1>3 DEF DI, Inv, TypeOK, Delayed
<1>5. /\ \A u \in Queues : delayed'[u] = IF u = t THEN delayed[u] \ Due(t)
                                                   ELSE delayed[u]
      /\ \A h \in Promoters : gdue'[h] = IF h = g THEN Due(t) ELSE gdue[h]
  BY <1>2 DEF Inv, TypeOK
<1>6. \A u \in Queues : DI(u)' = IF u = t THEN DI(u) \ D ELSE DI(u)
  <2>1. {e.id : e \in delayed[t] \ Due(t)} = DI(t) \ D
    BY <1>1, <1>3 DEF DI, Inv, OneDelayed
  <2> QED BY <1>5, <2>1 DEF DI
<1>7. \A h \in Promoters : GI(h)' = IF h = g THEN D ELSE GI(h)
  BY <1>5 DEF GI
<1>8. GI(g) = {}
  BY DEF GI, Inv, HandsFull, Collect, PromoterAt
<1>9. OneDelayed' /\ OneDue'
  <2>1. \A u \in Queues : delayed'[u] \subseteq delayed[u]
    BY <1>5
  <2>2. \A h \in Promoters : gdue'[h] = gdue[h] \/ gdue'[h] \subseteq delayed[t]
    BY <1>3, <1>5
  <2>3. OneDelayed'
    BY <2>1 DEF OneDelayed, Inv
  <2>4. OneDue'
    <3> SUFFICES ASSUME NEW h \in Promoters, NEW x \in gdue'[h], NEW y \in gdue'[h],
                        x.id = y.id
                 PROVE  x = y
      BY DEF OneDue
    <3>1. CASE gdue'[h] = gdue[h]
      BY <3>1 DEF OneDue, Inv
    <3>2. CASE gdue'[h] \subseteq delayed[t]
      BY <1>1, <3>2 DEF OneDelayed, Inv
    <3> QED BY <2>2, <3>1, <3>2
  <2> QED BY <2>3, <2>4
<1>10. /\ \A u \in Queues : RI(u)' = RI(u) /\ LI(u)' = LI(u)
       /\ ReadyOnce' /\ OneLease'
  BY <1>2 DEF RI, LI, ReadyOnce, OneLease, Inv
<1> HIDE DEF D, t
<1>11. Known'
  BY <1>1, <1>2, <1>4, <1>6, <1>7, <1>10 DEF Known, Inv
<1>12. Apart'
  BY <1>1, <1>4, <1>6, <1>7, <1>8, <1>10 DEF Apart, Inv
<1> QED BY <1>9, <1>10, <1>11, <1>12

(* appendDue moves what a promoter holds to the ready list.                *)
LEMMA AppendDueApart ==
    ASSUME Inv, NEW g \in Promoters, AppendDue(g)
    PROVE  (ReadyOnce /\ OneLease /\ OneDelayed /\ OneDue /\ Apart /\ Known)'
<1> DEFINE t == gtopic[g]
<1>1. t \in Queues
  BY DEF Inv, TypeOK, AppendDue, PromoterAt
<1>2. PICK s \in Orderings(gdue[g]) :
        ready' = [ready EXCEPT ![t] = @ \o
                     [i \in 1..Len(s) |-> [id |-> s[i].id, attempt |-> 1]]]
  BY DEF AppendDue
<1> DEFINE r == [i \in 1..Len(s) |-> [id |-> s[i].id, attempt |-> 1]]
<1>3. IsFiniteSet(gdue[g]) /\ gdue[g] \subseteq Delayed
  BY DEF Inv, FiniteLists, TypeOK
<1>4. s \in Seq(gdue[g])
  BY <1>3, OrderingsSeq
<1>5. \A i \in 1..Len(s) : [id |-> s[i].id, attempt |-> 1] \in Message
  BY <1>3, <1>4 DEF Delayed, Message
<1>6. r \in Seq(Message) /\ Len(r) = Len(s)
  BY <1>4, <1>5
<1>7. \A i \in 1..Len(s) : r[i].id = s[i].id
  OBVIOUS
<1>8. \A e, f \in gdue[g] : e.id = f.id => e = f
  BY DEF Inv, OneDue
<1>9. ready' = [ready EXCEPT ![t] = @ \o r]
  BY <1>2
<1>10. gdue' = [gdue EXCEPT ![g] = {}] /\ UNCHANGED <<delayed, inflight, used>>
  BY DEF AppendDue, histVars
<1> HIDE DEF r, t
<1>11. Distinct(r) /\ Ids(r) = GI(g)
  BY <1>3, <1>6, <1>7, <1>8, FiledIds DEF GI
<1>12. GI(g) \subseteq Messages
  BY <1>3 DEF GI, Delayed
<1>13. ready[t] \in Seq(Message) /\ Distinct(ready[t]) /\ Ids(ready[t]) \cap Ids(r) = {}
  BY <1>1, <1>11, <1>12 DEF Inv, TypeOK, ReadyOnce, Apart, RI
<1>14. Ids(ready[t] \o r) = Ids(ready[t]) \cup GI(g) /\ Distinct(ready[t] \o r)
  BY <1>6, <1>11, <1>13, ConcatIds
<1>15. /\ \A u \in Queues : ready'[u] = IF u = t THEN ready[u] \o r ELSE ready[u]
       /\ \A h \in Promoters : gdue'[h] = IF h = g THEN {} ELSE gdue[h]
  BY <1>9, <1>10 DEF Inv, TypeOK
<1>16. /\ ReadyOnce'
       /\ \A u \in Queues : RI(u)' = IF u = t THEN RI(u) \cup GI(g) ELSE RI(u)
  BY <1>14, <1>15 DEF ReadyOnce, RI, Inv
<1>17. OneDue' /\ \A h \in Promoters : GI(h)' = IF h = g THEN {} ELSE GI(h)
  BY <1>15 DEF OneDue, GI, Inv
<1>18. /\ \A u \in Queues : DI(u)' = DI(u) /\ LI(u)' = LI(u)
       /\ OneDelayed' /\ OneLease'
  BY <1>10 DEF DI, LI, OneDelayed, OneLease, Inv
<1>19. Known'
  BY <1>1, <1>10, <1>16, <1>17, <1>18 DEF Known, Inv
<1>20. Apart'
  BY <1>1, <1>12, <1>16, <1>17, <1>18 DEF Apart, Inv
<1> QED BY <1>16, <1>17, <1>18, <1>19, <1>20

(* Hands are full only between collectDue and appendDue, after any step.   *)
LEMMA HandsFullStep == Inv /\ [Next]_vars => HandsFull'
<1> SUFFICES ASSUME Inv, [Next]_vars PROVE HandsFull'
  OBVIOUS
<1>1. ASSUME NEW g \in Promoters, PromoterStep(g) PROVE HandsFull'
  <2>1. CASE Collect(g)
    BY <2>1 DEF Collect, HandsFull, Inv, TypeOK
  <2>2. CASE AppendDue(g)
    BY <2>2 DEF AppendDue, HandsFull, Inv, TypeOK
  <2>3. CASE PromoteTop(g) \/ PromoteSignal(g) \/ PromoteWake(g)
    BY <2>3 DEF PromoteTop, PromoteSignal, PromoteWake, PromoterAt, HandsFull,
                Inv, TypeOK, AfterDue
  <2>4. CASE PromoteOff(g) \/ PromoteDefer(g) \/ PromoteClose(g)
    BY <2>4 DEF PromoteOff, PromoteDefer, PromoteClose, PromoterAt, HandsFull,
                Inv, TypeOK
  <2> QED BY <1>1, <2>1, <2>2, <2>3, <2>4 DEF PromoterStep
<1>2. ASSUME NEW p \in Producers, ProducerStep(p) PROVE HandsFull'
  <2>1. gdue' = gdue
    BY <1>2 DEF ProducerStep, PushTopic, PushSpace, PushCancel, Enqueue,
                EnqueueClosed, PushSignal, gVars
  <2>2. \A g \in Promoters : gpc'[g] = gpc[g] \/ gpc[g] # "append"
    <3>1. CASE PushSignal(p)
      BY <3>1 DEF PushSignal, Parked, Inv, TypeOK
    <3>2. CASE \E m \in Messages : Enqueue(p, m)
      <4>1. gpc' = gpc \/ StartPromoter(MountTopic(ptopic[p]))
        BY <3>2 DEF Enqueue
      <4>2. CASE gpc' # gpc
        <5> DEFINE t == MountTopic(ptopic[p])
        <5>1. PICK g \in Promoters :
                /\ gpc[g] = "unborn"
                /\ gpc' = [h \in Promoters |->
                      IF h = g \/ (quit[t] /\ h \in Parked(t)) THEN "top" ELSE gpc[h]]
          BY <4>1, <4>2 DEF StartPromoter
        <5> HIDE DEF t
        <5> QED BY <5>1 DEF Parked
      <4> QED BY <4>2
    <3>3. CASE ~PushSignal(p) /\ ~\E m \in Messages : Enqueue(p, m)
      BY <1>2, <3>3 DEF ProducerStep, PushTopic, PushSpace, PushCancel,
                        EnqueueClosed, gVars
    <3> QED BY <3>1, <3>2, <3>3
  <2> QED BY <2>1, <2>2 DEF HandsFull, Inv
<1>3. ASSUME NEW c \in Consumers, ConsumerStep(c) PROVE HandsFull'
  <2>1. gdue' = gdue /\ gpc' = gpc
    <3> USE DEF gVars
    <3>1. CASE PopTopic(c) \/ ReclaimSignal(c) \/ PopMiss(c) \/ PopPend(c)
               \/ PopPark(c) \/ PopUnpend(c) \/ Abandon(c)
      BY <3>1 DEF PopTopic, ReclaimSignal, PopMiss, PopPend, PopPark, PopUnpend,
                  Abandon
    <3>2. CASE Length(c) \/ Sweep(c) \/ NackSignal(c)
      BY <3>2 DEF Length, Sweep, NackSignal
    <3>3. CASE \E cause \in {"expired", "cancelled"} : PopWake(c, cause)
      BY <3>3 DEF PopWake
    <3>4. CASE \E step \in {"ack", "nackDrop", "nackRequeue"} : Settle(c, step)
      BY <3>4 DEF Settle
    <3>5. CASE Reclaim(c) \/ TryPop(c) \/ Remove(c) \/ Requeue(c)
      BY <3>5 DEF Reclaim, TryPop, Remove, Requeue
    <3> QED BY <1>3, <3>1, <3>2, <3>3, <3>4, <3>5 DEF ConsumerStep
  <2> QED BY <2>1 DEF HandsFull, Inv
<1>4. CASE Tick \/ CloseStep \/ UNCHANGED vars
  BY <1>4 DEF Tick, CloseStep, CloseBegin, CloseRead, CloseQuit, CloseJoin,
              vars, gVars, HandsFull, Inv
<1> QED BY <1>1, <1>2, <1>3, <1>4 DEF Next

(* Every step keeps the inductive invariant.                               *)
LEMMA InvStep == Inv /\ [Next]_vars => Inv'
<1> SUFFICES ASSUME Inv, [Next]_vars PROVE Inv'
  OBVIOUS
<1>1. TypeOK' /\ FiniteLists' /\ HandsFull'
  BY TypeOKStep, FiniteStep, HandsFullStep DEF Inv
<1>2. CASE UNCHANGED places
  <2>1. /\ \A t \in Queues : RI(t)' = RI(t) /\ DI(t)' = DI(t) /\ LI(t)' = LI(t)
        /\ \A g \in Promoters : GI(g)' = GI(g)
        /\ used' = used
    BY <1>2 DEF places, RI, DI, LI, GI
  <2>2. (ReadyOnce /\ OneLease /\ OneDelayed /\ OneDue)'
    BY <1>2 DEF places, ReadyOnce, OneLease, OneDelayed, OneDue, Inv
  <2>3. Known' /\ Apart'
    BY <2>1 DEF Known, Apart, Inv
  <2> QED BY <1>1, <2>2, <2>3 DEF Inv
<1>3. CASE MovesMessages
  <2>1. (ReadyOnce /\ OneLease /\ OneDelayed /\ OneDue /\ Apart /\ Known)'
    BY <1>3, EnqueueApart, ReclaimApart, TryPopApart, RemoveApart,
       RequeueApart, CollectApart, AppendDueApart DEF MovesMessages
  <2> QED BY <1>1, <2>1 DEF Inv
<1> QED BY <1>2, <1>3, Frame

(* In every behaviour every message is in at most one place.               *)
THEOREM OneCopy == Spec => []SingleCopy
<1>1. Init => Inv
  BY InvInit
<1>2. Inv /\ [Next]_vars => Inv'
  BY InvStep
<1>3. Inv => SingleCopy
  BY SingleCopySets DEF Inv
<1> QED BY <1>1, <1>2, <1>3, PTL DEF Spec

-----------------------------------------------------------------------------
(* No step ends a lease but its holder's settlement or its timeout.        *)
LEMMA LeaseEndsRightlyStep == Inv /\ [Next]_vars => LeaseEndsRightly
<1> SUFFICES ASSUME Inv, [Next]_vars, NEW t \in Queues, NEW e \in inflight[t],
                    e \notin inflight'[t]
             PROVE  \/ now > e.deadline
                    \/ \E c \in Consumers :
                          /\ cpc[c] \in {"ack", "nackDrop", "nackRequeue"}
                          /\ cmsg[c].id = e.id /\ cmsg[c].attempt = e.attempt
  BY DEF LeaseEndsRightly
<1>1. ASSUME NEW c \in Consumers, Reclaim(c) PROVE now > e.deadline
  <2>1. e \in Lapsed(t)
    BY <1>1 DEF Reclaim, Inv, TypeOK
  <2> QED BY <2>1 DEF Lapsed, HeapLapsed
<1>2. ASSUME NEW c \in Consumers, Remove(c) \/ Requeue(c)
      PROVE  /\ cpc[c] \in {"ack", "nackDrop", "nackRequeue"}
             /\ cmsg[c].id = e.id /\ cmsg[c].attempt = e.attempt
  <2>1. inflight' = [inflight EXCEPT ![ctopic[c]] = @ \ Settled(c)]
    BY <1>2 DEF Remove, Requeue
  <2>2. ctopic[c] = t /\ e \in Settled(c)
    BY <2>1 DEF Inv, TypeOK
  <2> QED BY <1>2, <2>2 DEF Remove, Requeue, ConsumerAt, Settled
<1>3. ASSUME NEW c \in Consumers, TryPop(c) PROVE FALSE
  <2> DEFINE m == Head(ready[ctopic[c]])
             f == [id |-> m.id, attempt |-> m.attempt, deadline |-> now + Visibility]
  <2>1. ctopic[c] \in Queues /\ ready[ctopic[c]] # <<>>
    BY <1>3 DEF TryPop, ConsumerAt, Inv, TypeOK
  <2>2. inflight' = [inflight EXCEPT ![ctopic[c]] = {x \in @ : x.id # m.id} \cup {f}]
    BY <1>3 DEF TryPop
  <2>3. m.id \in RI(ctopic[c])
    <3>1. ready[ctopic[c]] \in Seq(Message) /\ Distinct(ready[ctopic[c]])
      BY <2>1 DEF Inv, TypeOK, ReadyOnce
    <3> QED BY <2>1, <3>1, TailIds DEF RI
  <2> HIDE DEF m, f
  <2>4. ctopic[c] = t /\ e.id = m.id
    BY <2>2 DEF Inv, TypeOK
  <2>5. e.id \in LI(t) /\ e.id \in Messages
    BY DEF LI, Inv, TypeOK, Lease
  <2> QED BY <2>3, <2>4, <2>5 DEF Inv, Apart
<1>4. CASE UNCHANGED places
  BY <1>4 DEF places
<1>5. ASSUME NEW p \in Producers, NEW m \in Messages, Enqueue(p, m) PROVE FALSE
  BY <1>5 DEF Enqueue
<1>6. ASSUME NEW g \in Promoters, Collect(g) \/ AppendDue(g) PROVE FALSE
  BY <1>6 DEF Collect, AppendDue
<1> QED BY <1>1, <1>2, <1>3, <1>4, <1>5, <1>6, Frame DEF MovesMessages

(* A consumer whose lease has lapsed never ends the lease of the next one. *)
THEOREM LeasesAreFenced == Spec => LeaseFence
<1>1. Init => Inv
  BY InvInit
<1>2. Inv /\ [Next]_vars => Inv'
  BY InvStep
<1>3. Inv /\ [Next]_vars => LeaseEndsRightly
  BY LeaseEndsRightlyStep
<1> QED BY <1>1, <1>2, <1>3, PTL DEF Spec, LeaseFence

-----------------------------------------------------------------------------
(* Attempts and delivered messages.                                        *)

(* A lease is the latest delivery of its message.                          *)
LeasedLatest ==
    \A t \in Queues : \A e \in inflight[t] : \A d \in delivered :
        d.id = e.id => d.attempt <= e.attempt

(* Only accepted messages are delivered.                                   *)
DeliveredKnown == \A d \in delivered : d.id \in used

(* The inductive invariant behind FreshDelivery, beside Inv.               *)
FreshInv == FreshDelivery /\ LeasedLatest /\ DeliveredKnown

(* The conjuncts of FreshDelivery.                                         *)
ReadyFresh ==
    \A t \in Queues : \A i \in DOMAIN ready[t] : \A d \in delivered :
        d.id = ready[t][i].id => d.attempt < ready[t][i].attempt

DelayedFresh == \A t \in Queues : \A e \in delayed[t] : \A d \in delivered : d.id # e.id

DueFresh == \A g \in Promoters : \A e \in gdue[g] : \A d \in delivered : d.id # e.id

(* What a concatenation holds comes from one of its parts.                 *)
LEMMA ConcatElements ==
    ASSUME NEW s \in Seq(Message), NEW r \in Seq(Message),
           NEW i \in DOMAIN (s \o r)
    PROVE  \/ \E j \in DOMAIN s : (s \o r)[i] = s[j]
           \/ \E j \in DOMAIN r : (s \o r)[i] = r[j]
<1>1. /\ DOMAIN (s \o r) = 1..(Len(s) + Len(r))
      /\ DOMAIN s = 1..Len(s) /\ DOMAIN r = 1..Len(r)
      /\ Len(s) \in Nat /\ Len(r) \in Nat
  OBVIOUS
<1>2. CASE i <= Len(s)
  <2>1. i \in DOMAIN s /\ (s \o r)[i] = s[i]
    BY <1>1, <1>2
  <2> QED BY <2>1
<1>3. CASE i > Len(s)
  <2>1. i - Len(s) \in DOMAIN r /\ (s \o r)[i] = r[i - Len(s)]
    BY <1>1, <1>3
  <2> QED BY <2>1
<1> QED BY <1>1, <1>2, <1>3

(* The ready list grows by messages with a fresh attempt.                  *)
LEMMA ReadyGrowsFresh ==
    ASSUME Inv, ReadyFresh, NEW t \in Queues, NEW r \in Seq(Message),
           ready' = [ready EXCEPT ![t] = @ \o r], delivered' = delivered,
           \A i \in DOMAIN r : \A d \in delivered :
               d.id = r[i].id => d.attempt < r[i].attempt
    PROVE  ReadyFresh'
<1> SUFFICES ASSUME NEW u \in Queues, NEW i \in DOMAIN ready'[u],
                    NEW d \in delivered, d.id = ready'[u][i].id
             PROVE  d.attempt < ready'[u][i].attempt
  BY DEF ReadyFresh
<1>1. CASE u # t
  <2>1. ready'[u] = ready[u]
    BY <1>1 DEF Inv, TypeOK
  <2> QED BY <2>1 DEF ReadyFresh
<1>2. CASE u = t
  <2>1. ready'[u] = ready[t] \o r /\ ready[t] \in Seq(Message)
    BY <1>2 DEF Inv, TypeOK
  <2>2. \/ \E j \in DOMAIN ready[t] : ready'[u][i] = ready[t][j]
        \/ \E j \in DOMAIN r : ready'[u][i] = r[j]
    <3>1. i \in DOMAIN (ready[t] \o r)
      BY <2>1
    <3>2. \/ \E j \in DOMAIN ready[t] : (ready[t] \o r)[i] = ready[t][j]
          \/ \E j \in DOMAIN r : (ready[t] \o r)[i] = r[j]
      BY <2>1, <3>1, ConcatElements
    <3> QED BY <2>1, <3>2
  <2> QED BY <2>2 DEF ReadyFresh
<1> QED BY <1>1, <1>2

(* Every step keeps attempts ahead of what was delivered.                  *)
LEMMA FreshStep == Inv /\ FreshInv /\ [Next]_vars => FreshInv'
<1> SUFFICES ASSUME Inv, FreshInv, [Next]_vars PROVE FreshInv'
  OBVIOUS
<1>0. ReadyFresh /\ DelayedFresh /\ DueFresh /\ LeasedLatest /\ DeliveredKnown
  BY DEF FreshInv, FreshDelivery, ReadyFresh, DelayedFresh, DueFresh
<1>a. SUFFICES ReadyFresh' /\ DelayedFresh' /\ DueFresh' /\ LeasedLatest'
               /\ DeliveredKnown'
  BY <1>a DEF FreshInv, FreshDelivery, ReadyFresh, DelayedFresh, DueFresh
<1> DEFINE Goal == ReadyFresh /\ DelayedFresh /\ DueFresh /\ LeasedLatest
                   /\ DeliveredKnown
<1>1. CASE UNCHANGED places
  BY <1>0, <1>1 DEF places, ReadyFresh, DelayedFresh, DueFresh, LeasedLatest,
                    DeliveredKnown
<1>2. ASSUME NEW p \in Producers, NEW m \in Messages, Enqueue(p, m) PROVE Goal'
  <2> DEFINE t == MountTopic(ptopic[p])
             r == [id |-> m, attempt |-> 1]
             e == [id |-> m, readyAt |-> now + pdelay[p]]
  <2>1. t \in Queues
    BY <1>2, ConstantsAssumption DEF Inv, TypeOK, MountTopic, Enqueue,
       ProducerAt
  <2>2. /\ m \notin used /\ used' = used \cup {m}
        /\ UNCHANGED <<inflight, gdue, delivered>>
        /\ \/ delayed' = delayed /\ ready' = [ready EXCEPT ![t] = Append(@, r)]
           \/ ready' = ready /\ delayed' = [delayed EXCEPT ![t] = @ \cup {e}]
    BY <1>2 DEF Enqueue
  <2>3. r \in Message /\ r.id = m /\ e.id = m
    BY DEF Message
  <2>4. \A d \in delivered : d.id # m
    BY <1>0, <2>2 DEF DeliveredKnown
  <2> HIDE DEF t, r, e
  <2>5. DueFresh' /\ LeasedLatest' /\ DeliveredKnown'
    BY <1>0, <2>2 DEF DueFresh, LeasedLatest, DeliveredKnown
  <2>6. CASE delayed' = delayed /\ ready' = [ready EXCEPT ![t] = Append(@, r)]
    <3>1. /\ <<r>> \in Seq(Message)
          /\ \A i \in DOMAIN <<r>> : <<r>>[i] = r
          /\ ready' = [ready EXCEPT ![t] = @ \o <<r>>]
      <4>1. Append(ready[t], r) = ready[t] \o <<r>>
        <5>1. ready[t] \in Seq(Message)
          BY <2>1 DEF Inv, TypeOK
        <5> QED BY <2>3, <5>1
      <4>2. ready' = [ready EXCEPT ![t] = @ \o <<r>>]
        BY <2>6, <4>1
      <4> QED BY <2>3, <4>2
    <3>2. \A i \in DOMAIN <<r>> : \A d \in delivered :
             d.id = <<r>>[i].id => d.attempt < <<r>>[i].attempt
      BY <2>3, <2>4, <3>1
    <3>3. ReadyFresh'
      BY <1>0, <2>1, <2>2, <3>1, <3>2, ReadyGrowsFresh
    <3>4. DelayedFresh'
      BY <1>0, <2>2, <2>6 DEF DelayedFresh
    <3> QED BY <2>5, <3>3, <3>4
  <2>7. CASE ready' = ready /\ delayed' = [delayed EXCEPT ![t] = @ \cup {e}]
    <3>1. \A u \in Queues : delayed'[u] \subseteq delayed[u] \cup {e}
      BY <2>7 DEF Inv, TypeOK
    <3>2. DelayedFresh'
      BY <1>0, <2>2, <2>3, <2>4, <3>1 DEF DelayedFresh
    <3>3. ReadyFresh'
      BY <1>0, <2>2, <2>7 DEF ReadyFresh
    <3> QED BY <2>5, <3>2, <3>3
  <2> QED BY <2>2, <2>6, <2>7
<1>3. ASSUME NEW c \in Consumers, Reclaim(c) PROVE Goal'
  <2> DEFINE t == ctopic[c]
  <2>1. t \in Queues
    BY <1>3 DEF Inv, TypeOK, Reclaim, ConsumerAt
  <2>2. PICK s \in Orderings(Lapsed(t)) :
          ready' = [ready EXCEPT ![t] = @ \o [i \in 1..Len(s) |-> reclaimEntry(s[i])]]
    BY <1>3 DEF Reclaim
  <2> DEFINE r == [i \in 1..Len(s) |-> reclaimEntry(s[i])]
  <2>3. Lapsed(t) \subseteq inflight[t] /\ inflight[t] \subseteq Lease
    BY <2>1 DEF Lapsed, HeapLapsed, Inv, TypeOK
  <2>4. s \in Seq(Lapsed(t))
    <3>1. IsFiniteSet(Lapsed(t))
      BY <2>1, <2>3, FS_Subset DEF Inv, FiniteLists
    <3> QED BY <3>1, OrderingsSeq
  <2>5. \A i \in 1..Len(s) : /\ s[i] \in inflight[t]
                             /\ reclaimEntry(s[i]) \in Message
                             /\ reclaimEntry(s[i]).id = s[i].id
                             /\ reclaimEntry(s[i]).attempt = s[i].attempt + 1
                             /\ s[i].attempt \in Nat
    BY <2>3, <2>4 DEF reclaimEntry, Lease, Message
  <2>6. /\ r \in Seq(Message)
        /\ DOMAIN r = 1..Len(s)
        /\ \A i \in 1..Len(s) : r[i] = reclaimEntry(s[i])
    BY <2>4, <2>5
  <2>7. /\ ready' = [ready EXCEPT ![t] = @ \o r]
        /\ inflight' = [inflight EXCEPT ![t] = @ \ Lapsed(t)]
        /\ UNCHANGED <<delayed, gdue, used, delivered>>
    BY <1>3, <2>2 DEF Reclaim, gVars, histVars
  <2> HIDE DEF r, t
  <2>8. \A i \in DOMAIN r : \A d \in delivered :
            d.id = r[i].id => d.attempt < r[i].attempt
    <3> SUFFICES ASSUME NEW i \in 1..Len(s), NEW d \in delivered, d.id = s[i].id
                 PROVE  d.attempt < s[i].attempt + 1
      BY <2>5, <2>6
    <3>1. d.attempt <= s[i].attempt /\ d.attempt \in Nat
      BY <1>0, <2>1, <2>5 DEF LeasedLatest, Inv, TypeOK, Message
    <3> QED BY <2>5, <3>1
  <2>9. ReadyFresh'
    BY <1>0, <2>1, <2>6, <2>7, <2>8, ReadyGrowsFresh
  <2>10. \A u \in Queues : inflight'[u] \subseteq inflight[u]
    BY <2>7 DEF Inv, TypeOK
  <2> QED BY <1>0, <2>7, <2>9, <2>10 DEF DelayedFresh, DueFresh, LeasedLatest,
                                         DeliveredKnown
<1>4. ASSUME NEW c \in Consumers, TryPop(c) PROVE Goal'
  <2> DEFINE t == ctopic[c]
             m == Head(ready[t])
             e == [id |-> m.id, attempt |-> m.attempt, deadline |-> now + Visibility]
  <2>1. t \in Queues /\ ready[t] # <<>>
    BY <1>4 DEF Inv, TypeOK, TryPop, ConsumerAt
  <2>2. /\ ready' = [ready EXCEPT ![t] = Tail(@)]
        /\ inflight' = [inflight EXCEPT ![t] = {f \in @ : f.id # m.id} \cup {e}]
        /\ delivered' = delivered \cup {m}
        /\ UNCHANGED <<delayed, gdue, used>>
    BY <1>4 DEF TryPop, gVars
  <2>3. ready[t] \in Seq(Message) /\ Distinct(ready[t])
    BY <2>1 DEF Inv, TypeOK, ReadyOnce
  <2>4. Ids(Tail(ready[t])) = RI(t) \ {m.id} /\ m.id \in RI(t)
    BY <2>1, <2>3, TailIds DEF RI
  <2>5. m \in Message /\ m = ready[t][1] /\ 1 \in DOMAIN ready[t]
    BY <2>1, <2>3
  <2>6. \A i \in DOMAIN Tail(ready[t]) :
           /\ i + 1 \in DOMAIN ready[t]
           /\ Tail(ready[t])[i] = ready[t][i + 1]
           /\ Tail(ready[t])[i].id # m.id
    <3>1. \A i \in DOMAIN Tail(ready[t]) : /\ i + 1 \in DOMAIN ready[t]
                                           /\ Tail(ready[t])[i] = ready[t][i + 1]
      BY <2>1, <2>3
    <3>2. \A i \in DOMAIN Tail(ready[t]) : Tail(ready[t])[i].id \in Ids(Tail(ready[t]))
      BY DEF Ids
    <3> QED BY <2>4, <3>1, <3>2
  <2> HIDE DEF m, t
  <2>7. /\ e.id = m.id /\ e.attempt = m.attempt
        /\ m.id \in Messages /\ m.attempt \in Nat
    BY <2>5 DEF Message
  <2> HIDE DEF e
  <2>8. \A u \in Queues :
          /\ ready'[u] = IF u = t THEN Tail(ready[u]) ELSE ready[u]
          /\ inflight'[u] \subseteq {f \in inflight[u] : u = t => f.id # m.id} \cup {e}
    BY <2>2 DEF Inv, TypeOK
  <2>9. ReadyFresh'
    <3> SUFFICES ASSUME NEW u \in Queues, NEW i \in DOMAIN ready'[u],
                        NEW d \in delivered', d.id = ready'[u][i].id
                 PROVE  d.attempt < ready'[u][i].attempt
      BY DEF ReadyFresh
    <3>1. CASE u = t
      <4>1. /\ ready'[u] = Tail(ready[t])
            /\ ready'[u][i] = ready[t][i + 1] /\ i + 1 \in DOMAIN ready[t]
            /\ ready'[u][i].id # m.id
        BY <2>1, <2>6, <2>8, <3>1
      <4>2. d \in delivered
        BY <2>2, <4>1
      <4> QED BY <1>0, <2>1, <4>1, <4>2 DEF ReadyFresh
    <3>2. CASE u # t
      <4>1. ready'[u] = ready[u]
        BY <2>8, <3>2
      <4>2. ready[u][i].id \in RI(u)
        BY <4>1 DEF RI, Ids
      <4>3. ready[u][i].id # m.id
        BY <2>1, <2>4, <2>7, <3>2, <4>2 DEF Inv, Apart
      <4>4. d \in delivered
        BY <2>2, <4>1, <4>3
      <4> QED BY <1>0, <4>1, <4>4 DEF ReadyFresh
    <3> QED BY <3>1, <3>2
  <2>10. DelayedFresh'
    <3> SUFFICES ASSUME NEW u \in Queues, NEW f \in delayed[u], NEW d \in delivered'
                 PROVE  d.id # f.id
      BY <2>2 DEF DelayedFresh
    <3>1. f.id \in DI(u)
      BY DEF DI
    <3>2. f.id # m.id
      BY <2>1, <2>4, <2>7, <3>1 DEF Inv, Apart
    <3> QED BY <1>0, <2>2, <3>2 DEF DelayedFresh
  <2>11. DueFresh'
    <3> SUFFICES ASSUME NEW g \in Promoters, NEW f \in gdue[g], NEW d \in delivered'
                 PROVE  d.id # f.id
      BY <2>2 DEF DueFresh
    <3>1. f.id \in GI(g)
      BY DEF GI
    <3>2. f.id # m.id
      BY <2>1, <2>4, <2>7, <3>1 DEF Inv, Apart
    <3> QED BY <1>0, <2>2, <3>2 DEF DueFresh
  <2>12. LeasedLatest'
    <3> SUFFICES ASSUME NEW u \in Queues, NEW f \in inflight'[u],
                        NEW d \in delivered', d.id = f.id
                 PROVE  d.attempt <= f.attempt
      BY DEF LeasedLatest
    <3>1. CASE f = e
      <4>1. CASE d = m
        BY <2>7, <3>1, <4>1
      <4>2. CASE d \in delivered
        <5>1. d.attempt < m.attempt
          BY <1>0, <2>1, <2>5, <2>7, <3>1, <4>2 DEF ReadyFresh
        <5>2. d.attempt \in Nat
          BY <4>2 DEF Inv, TypeOK, Message
        <5> QED BY <2>7, <3>1, <5>1, <5>2
      <4> QED BY <2>2, <4>1, <4>2
    <3>2. CASE f # e
      <4>1. f \in inflight[u] /\ f.id \in LI(u)
        BY <2>8, <3>2 DEF LI
      <4>2. f.id # m.id
        BY <2>1, <2>4, <2>7, <4>1 DEF Inv, Apart
      <4>3. d \in delivered
        BY <2>2, <4>2
      <4> QED BY <1>0, <4>1, <4>3 DEF LeasedLatest
    <3> QED BY <3>1, <3>2
  <2>13. DeliveredKnown'
    <3>1. m.id \in used
      BY <2>1, <2>4 DEF Inv, Known
    <3> QED BY <1>0, <2>2, <3>1 DEF DeliveredKnown
  <2> QED BY <2>9, <2>10, <2>11, <2>12, <2>13
<1>5. ASSUME NEW c \in Consumers, Remove(c) PROVE Goal'
  <2>1. \A u \in Queues : inflight'[u] \subseteq inflight[u]
    BY <1>5 DEF Remove, Inv, TypeOK
  <2>2. UNCHANGED <<ready, delayed, gdue, used, delivered>>
    BY <1>5 DEF Remove, gVars, histVars
  <2> QED BY <1>0, <2>1, <2>2 DEF ReadyFresh, DelayedFresh, DueFresh,
                                  LeasedLatest, DeliveredKnown
<1>6. ASSUME NEW c \in Consumers, Requeue(c) PROVE Goal'
  <2> DEFINE t == ctopic[c]
             q == [id |-> cmsg[c].id, attempt |-> cmsg[c].attempt + 1]
  <2>1. t \in Queues
    BY <1>6 DEF Inv, TypeOK, Requeue, ConsumerAt
  <2>2. /\ ready' = [ready EXCEPT ![t] = @ \o Requeued(c)]
        /\ inflight' = [inflight EXCEPT ![t] = @ \ Settled(c)]
        /\ UNCHANGED <<delayed, gdue, used, delivered>>
    BY <1>6 DEF Requeue, gVars, histVars
  <2>3. \A u \in Queues : inflight'[u] \subseteq inflight[u]
    BY <2>2 DEF Inv, TypeOK
  <2>4. DelayedFresh' /\ DueFresh' /\ LeasedLatest' /\ DeliveredKnown'
    BY <1>0, <2>2, <2>3 DEF DelayedFresh, DueFresh, LeasedLatest, DeliveredKnown
  <2>5. /\ Requeued(c) \in Seq(Message)
        /\ \A i \in DOMAIN Requeued(c) : \A d \in delivered :
              d.id = Requeued(c)[i].id => d.attempt < Requeued(c)[i].attempt
    <3>1. CASE Settled(c) = {}
      BY <3>1 DEF Requeued
    <3>2. CASE Settled(c) # {}
      <4>1. PICK e \in inflight[t] : e.id = cmsg[c].id /\ e.attempt = cmsg[c].attempt
        BY <3>2 DEF Settled
      <4>2. e.id \in Messages /\ e.attempt \in Nat
        BY <2>1 DEF Inv, TypeOK, Lease
      <4>3. q \in Message /\ q.id = e.id /\ q.attempt = e.attempt + 1
        BY <4>1, <4>2 DEF Message
      <4>4. Requeued(c) = <<q>>
        BY <3>2 DEF Requeued
      <4> HIDE DEF q
      <4>5. \A d \in delivered : d.id = q.id => d.attempt < q.attempt
        <5>1. \A d \in delivered : d.attempt \in Nat
          BY DEF Inv, TypeOK, Message
        <5>2. \A d \in delivered : d.id = e.id => d.attempt <= e.attempt
          BY <1>0, <2>1 DEF LeasedLatest
        <5> QED BY <4>2, <4>3, <5>1, <5>2
      <4> QED BY <4>3, <4>4, <4>5
    <3> QED BY <3>1, <3>2
  <2> HIDE DEF t
  <2>6. ReadyFresh'
    BY <1>0, <2>1, <2>2, <2>5, ReadyGrowsFresh
  <2> QED BY <2>4, <2>6
<1>7. ASSUME NEW g \in Promoters, Collect(g) PROVE Goal'
  <2>1. gtopic[g] \in Queues
    BY <1>7 DEF Collect, PromoterAt, Inv, TypeOK
  <2>2. /\ \A u \in Queues : delayed'[u] \subseteq delayed[u]
        /\ \A h \in Promoters : \/ gdue'[h] = gdue[h]
                                 \/ gdue'[h] \subseteq delayed[gtopic[g]]
        /\ UNCHANGED <<ready, inflight, used, delivered>>
    BY <1>7 DEF Collect, NotDue, Due, Inv, TypeOK, histVars
  <2>3. DueFresh'
    BY <1>0, <2>1, <2>2 DEF DueFresh, DelayedFresh
  <2> QED BY <1>0, <2>2, <2>3 DEF ReadyFresh, DelayedFresh, LeasedLatest,
                                  DeliveredKnown
<1>8. ASSUME NEW g \in Promoters, AppendDue(g) PROVE Goal'
  <2> DEFINE t == gtopic[g]
  <2>1. t \in Queues
    BY <1>8 DEF Inv, TypeOK, AppendDue, PromoterAt
  <2>2. PICK s \in Orderings(gdue[g]) :
          ready' = [ready EXCEPT ![t] = @ \o
                       [i \in 1..Len(s) |-> [id |-> s[i].id, attempt |-> 1]]]
    BY <1>8 DEF AppendDue
  <2> DEFINE r == [i \in 1..Len(s) |-> [id |-> s[i].id, attempt |-> 1]]
  <2>3. s \in Seq(gdue[g]) /\ gdue[g] \subseteq Delayed
    <3>1. IsFiniteSet(gdue[g]) /\ gdue[g] \subseteq Delayed
      BY DEF Inv, FiniteLists, TypeOK
    <3> QED BY <3>1, OrderingsSeq
  <2>4. \A i \in 1..Len(s) : /\ s[i] \in gdue[g]
                             /\ [id |-> s[i].id, attempt |-> 1] \in Message
    BY <2>3 DEF Delayed, Message
  <2>5. /\ r \in Seq(Message)
        /\ DOMAIN r = 1..Len(s)
        /\ \A i \in 1..Len(s) : r[i].id = s[i].id
    BY <2>3, <2>4
  <2>6. /\ ready' = [ready EXCEPT ![t] = @ \o r]
        /\ gdue' = [gdue EXCEPT ![g] = {}]
        /\ UNCHANGED <<delayed, inflight, used, delivered>>
    BY <1>8, <2>2 DEF AppendDue, histVars
  <2> HIDE DEF r, t
  <2>7. \A i \in DOMAIN r : \A d \in delivered :
            d.id = r[i].id => d.attempt < r[i].attempt
    BY <1>0, <2>4, <2>5 DEF DueFresh
  <2>8. ReadyFresh'
    BY <1>0, <2>1, <2>5, <2>6, <2>7, ReadyGrowsFresh
  <2>9. \A h \in Promoters : gdue'[h] \subseteq gdue[h]
    BY <2>6 DEF Inv, TypeOK
  <2> QED BY <1>0, <2>6, <2>8, <2>9 DEF DelayedFresh, DueFresh, LeasedLatest,
                                        DeliveredKnown
<1> QED BY <1>1, <1>2, <1>3, <1>4, <1>5, <1>6, <1>7, <1>8, Frame DEF
   MovesMessages

(* Pop never returns the same message twice under the same attempt.        *)
THEOREM DeliveriesAreFresh == Spec => []FreshDelivery
<1>1. Init => Inv /\ FreshInv
  <2>1. Init => FreshInv
    BY DEF Init, FreshInv, FreshDelivery, LeasedLatest, DeliveredKnown
  <2> QED BY <2>1, InvInit
<1>2. Inv /\ FreshInv /\ [Next]_vars => (Inv /\ FreshInv)'
  BY InvStep, FreshStep
<1>3. FreshInv => FreshDelivery
  BY DEF FreshInv
<1> QED BY <1>1, <1>2, <1>3, PTL DEF Spec

-----------------------------------------------------------------------------
(* Only Reclaim, TryPop, Remove and Requeue change the leases, and Sweep   *)
(* the heap of a topic that has none.                                      *)
LEMMA LeaseFrame ==
    ASSUME TypeOK, [Next]_vars,
           ~\E c \in Consumers : Reclaim(c) \/ TryPop(c) \/ Remove(c) \/ Requeue(c)
    PROVE  /\ inflight' = inflight
           /\ \A t \in Queues : inflight[t] # {} => visHeap'[t] = visHeap[t]
<1> USE DEF topicVars
<1>1. CASE Tick
  BY <1>1 DEF Tick
<1>2. ASSUME NEW p \in Producers, ProducerStep(p)
      PROVE  inflight' = inflight /\ visHeap' = visHeap
  BY <1>2 DEF ProducerStep, PushTopic, PushSpace, PushCancel, Enqueue,
              EnqueueClosed, PushSignal
<1>3. ASSUME NEW c \in Consumers, ConsumerStep(c), ~Sweep(c)
      PROVE  inflight' = inflight /\ visHeap' = visHeap
  <2>1. CASE PopTopic(c) \/ ReclaimSignal(c) \/ PopMiss(c) \/ PopPend(c)
             \/ PopPark(c) \/ PopUnpend(c) \/ Abandon(c)
    BY <2>1 DEF PopTopic, ReclaimSignal, PopMiss, PopPend, PopPark, PopUnpend,
                Abandon
  <2>2. CASE Length(c) \/ NackSignal(c)
    BY <2>2 DEF Length, NackSignal
  <2>3. CASE \E cause \in {"expired", "cancelled"} : PopWake(c, cause)
    BY <2>3 DEF PopWake
  <2>4. CASE \E step \in {"ack", "nackDrop", "nackRequeue"} : Settle(c, step)
    BY <2>4 DEF Settle
  <2> QED BY <1>3, <2>1, <2>2, <2>3, <2>4 DEF ConsumerStep
<1>4. ASSUME NEW c \in Consumers, Sweep(c)
      PROVE  /\ inflight' = inflight
             /\ \A t \in Queues : inflight[t] # {} => visHeap'[t] = visHeap[t]
  <2>1. \/ visHeap' = visHeap
        \/ /\ visHeap' = [visHeap EXCEPT ![ctopic[c]] = {}]
           /\ inflight[ctopic[c]] = {}
    BY <1>4 DEF Sweep, Drained
  <2> QED BY <1>4, <2>1 DEF Sweep, TypeOK
<1>5. ASSUME NEW g \in Promoters, PromoterStep(g)
      PROVE  inflight' = inflight /\ visHeap' = visHeap
  BY <1>5 DEF PromoterStep, PromoteTop, Collect, AppendDue, PromoteSignal,
              PromoteWake, PromoteOff, PromoteDefer, PromoteClose
<1>6. CASE CloseStep
  BY <1>6 DEF CloseStep, CloseBegin, CloseRead, CloseQuit, CloseJoin
<1>7. CASE UNCHANGED vars
  BY <1>7 DEF vars
<1> QED BY <1>1, <1>2, <1>3, <1>4, <1>5, <1>6, <1>7 DEF Next

(* A pass over the heap drops the entry of a lease only with the lease.    *)
LEMMA ReclaimIndexed ==
    ASSUME TypeOK, LeaseIndexed, NEW c \in Consumers, Reclaim(c)
    PROVE  LeaseIndexed'
<1> DEFINE t == ctopic[c]
<1>1. t \in Queues
  BY DEF TypeOK, Reclaim, ConsumerAt
<1>2. /\ inflight' = [inflight EXCEPT ![t] = @ \ Lapsed(t)]
      /\ visHeap' = [visHeap EXCEPT ![t] = HeapKept(t)]
  BY DEF Reclaim
<1>3. ASSUME NEW e \in inflight[t], e \notin Lapsed(t)
      PROVE  [id |-> e.id, deadline |-> e.deadline] \in HeapKept(t)
  <2>1. PICK h \in visHeap[t] : /\ h.id = e.id /\ h.deadline = e.deadline
                                /\ h = [id |-> e.id, deadline |-> e.deadline]
    BY <1>1, <1>3 DEF LeaseIndexed
  <2>2. now \in Nat /\ e.deadline \in Nat
    BY <1>1, <1>3 DEF TypeOK, Lease
  <2>3. CASE now > e.deadline
    BY <1>3, <2>1, <2>2, <2>3 DEF Lapsed, HeapLapsed
  <2>4. CASE now = e.deadline
    BY <1>3, <2>1, <2>4 DEF HeapKept
  <2>5. CASE now < e.deadline
    BY <2>1, <2>2, <2>5 DEF HeapKept
  <2> QED BY <2>2, <2>3, <2>4, <2>5
<1> HIDE DEF t
<1>4. \A u \in Queues : u # t => inflight'[u] = inflight[u] /\ visHeap'[u] = visHeap[u]
  BY <1>1, <1>2 DEF TypeOK
<1>5. inflight'[t] = inflight[t] \ Lapsed(t) /\ visHeap'[t] = HeapKept(t)
  BY <1>1, <1>2 DEF TypeOK
<1>6. ASSUME NEW u \in Queues, NEW e \in inflight'[u]
      PROVE  [id |-> e.id, deadline |-> e.deadline] \in visHeap'[u]
  <2>1. CASE u = t
    BY <1>3, <1>5, <1>6, <2>1
  <2>2. CASE u # t
    BY <1>4, <1>6, <2>2 DEF LeaseIndexed
  <2> QED BY <2>1, <2>2
<1> QED BY <1>6 DEF LeaseIndexed

(* tryPopReady files the expiry entry together with the lease.             *)
LEMMA TryPopIndexed ==
    ASSUME TypeOK, LeaseIndexed, NEW c \in Consumers, TryPop(c)
    PROVE  LeaseIndexed'
<1> DEFINE t == ctopic[c]
           m == Head(ready[t])
           f == [id |-> m.id, attempt |-> m.attempt, deadline |-> now + Visibility]
           h == [id |-> m.id, deadline |-> now + Visibility]
<1>1. t \in Queues
  BY DEF TypeOK, TryPop, ConsumerAt
<1>2. /\ inflight' = [inflight EXCEPT ![t] = {e \in @ : e.id # m.id} \cup {f}]
      /\ visHeap' = [visHeap EXCEPT ![t] = @ \cup {h}]
  BY DEF TryPop
<1>3. [id |-> f.id, deadline |-> f.deadline] = h
  OBVIOUS
<1> HIDE DEF t, m, f, h
<1>4. \A u \in Queues : /\ inflight'[u] \subseteq inflight[u] \cup {f}
                        /\ visHeap[u] \subseteq visHeap'[u]
                        /\ u # t => inflight'[u] = inflight[u]
                        /\ u = t => h \in visHeap'[u]
  BY <1>1, <1>2 DEF TypeOK
<1>5. ASSUME NEW u \in Queues, NEW e \in inflight'[u]
      PROVE  [id |-> e.id, deadline |-> e.deadline] \in visHeap'[u]
  <2>1. CASE e \in inflight[u]
    BY <1>4, <2>1 DEF LeaseIndexed
  <2>2. CASE e \notin inflight[u]
    BY <1>3, <1>4, <1>5, <2>2
  <2> QED BY <2>1, <2>2
<1> QED BY <1>5 DEF LeaseIndexed

(* No step loses the expiry entry of a lease.                              *)
LEMMA LeaseIndexedStep == TypeOK /\ LeaseIndexed /\ [Next]_vars => LeaseIndexed'
<1> SUFFICES ASSUME TypeOK, LeaseIndexed, [Next]_vars PROVE LeaseIndexed'
  OBVIOUS
<1>1. ASSUME NEW c \in Consumers, Reclaim(c) PROVE LeaseIndexed'
  BY <1>1, ReclaimIndexed
<1>2. ASSUME NEW c \in Consumers, TryPop(c) PROVE LeaseIndexed'
  BY <1>2, TryPopIndexed
<1>3. ASSUME NEW c \in Consumers, Remove(c) \/ Requeue(c) PROVE LeaseIndexed'
  <2>1. /\ inflight' = [inflight EXCEPT ![ctopic[c]] = @ \ Settled(c)]
        /\ visHeap' = visHeap
    BY <1>3 DEF Remove, Requeue
  <2>2. \A t \in Queues : inflight'[t] \subseteq inflight[t]
    BY <2>1 DEF TypeOK
  <2> QED BY <2>1, <2>2 DEF LeaseIndexed
<1>4. CASE ~\E c \in Consumers : Reclaim(c) \/ TryPop(c) \/ Remove(c) \/ Requeue(c)
  <2>1. /\ inflight' = inflight
        /\ \A t \in Queues : inflight[t] # {} => visHeap'[t] = visHeap[t]
    BY <1>4, LeaseFrame
  <2> QED BY <2>1 DEF LeaseIndexed
<1> QED BY <1>1, <1>2, <1>3, <1>4

(* A pass of reclaimExpired over the heap alone finds every lapsed lease,  *)
(* in every behaviour: none stays invisible while the heap is not empty.   *)
THEOREM LeasesAreIndexed == Spec => []LeaseIndexed
<1>1. Init => TypeOK /\ FiniteLists /\ LeaseIndexed
  <2>1. Init => LeaseIndexed
    BY DEF Init, LeaseIndexed
  <2> QED BY <2>1, TypeOKInit
<1>2. TypeOK /\ FiniteLists /\ LeaseIndexed /\ [Next]_vars
        => (TypeOK /\ FiniteLists /\ LeaseIndexed)'
  BY TypeOKStep, FiniteStep, LeaseIndexedStep
<1> QED BY <1>1, <1>2, PTL DEF Spec

-----------------------------------------------------------------------------
(* The times behind NeverEarly: a delayed entry says when its message may  *)
(* be delivered, and what a promoter or a lease holds may be by now.       *)
DelayedTimed ==
    \A t \in Queues : \A e \in delayed[t] : availableAt[e.id] <= e.readyAt

DueTimed == \A g \in Promoters : \A e \in gdue[g] : availableAt[e.id] <= now

LeasedTimed == \A t \in Queues : \A e \in inflight[t] : availableAt[e.id] <= now

TimeInv == DelayedTimed /\ DueTimed /\ LeasedTimed /\ NeverEarly

(* The conjuncts of NeverEarly.                                            *)
ReadyTimed ==
    \A t \in Queues : \A i \in DOMAIN ready[t] : availableAt[ready[t][i].id] <= now

DeliveredTimed == \A d \in delivered : availableAt[d.id] <= now

(* The clock never goes back.                                              *)
LEMMA ClockStep ==
    ASSUME TypeOK, [Next]_vars
    PROVE  now' >= now
<1>1. now' = now \/ (Tick /\ now' = now + 1)
  <2>1. ASSUME NEW p \in Producers, ProducerStep(p) PROVE now' = now
    BY <2>1 DEF ProducerStep, PushTopic, PushSpace, PushCancel, Enqueue,
                EnqueueClosed, PushSignal
  <2>2. ASSUME NEW c \in Consumers, ConsumerStep(c) PROVE now' = now
    <3>1. CASE PopTopic(c) \/ ReclaimSignal(c) \/ PopMiss(c) \/ PopPend(c)
               \/ PopPark(c) \/ PopUnpend(c) \/ Abandon(c)
      BY <3>1 DEF PopTopic, ReclaimSignal, PopMiss, PopPend, PopPark, PopUnpend,
                  Abandon
    <3>2. CASE Length(c) \/ NackSignal(c) \/ Sweep(c)
      BY <3>2 DEF Length, NackSignal, Sweep
    <3>3. CASE \E cause \in {"expired", "cancelled"} : PopWake(c, cause)
      BY <3>3 DEF PopWake
    <3>4. CASE \E step \in {"ack", "nackDrop", "nackRequeue"} : Settle(c, step)
      BY <3>4 DEF Settle
    <3>5. CASE Reclaim(c) \/ TryPop(c) \/ Remove(c) \/ Requeue(c)
      BY <3>5 DEF Reclaim, TryPop, Remove, Requeue
    <3> QED BY <2>2, <3>1, <3>2, <3>3, <3>4, <3>5 DEF ConsumerStep
  <2>3. ASSUME NEW g \in Promoters, PromoterStep(g) PROVE now' = now
    BY <2>3 DEF PromoterStep, PromoteTop, Collect, AppendDue, PromoteSignal,
                PromoteWake, PromoteOff, PromoteDefer, PromoteClose
  <2>4. CASE CloseStep
    BY <2>4 DEF CloseStep, CloseBegin, CloseRead, CloseQuit, CloseJoin
  <2>5. CASE Tick \/ UNCHANGED vars
    BY <2>5 DEF Tick, vars
  <2> QED BY <2>1, <2>2, <2>3, <2>4, <2>5 DEF Next
<1> QED BY <1>1 DEF TypeOK

(* The ready list grows by messages whose time has come.                   *)
LEMMA ReadyGrowsTimed ==
    ASSUME TypeOK, ReadyTimed, NEW t \in Queues, NEW r \in Seq(Message),
           ready' = [ready EXCEPT ![t] = @ \o r],
           \A i \in DOMAIN r : availableAt[r[i].id] <= now
    PROVE  \A u \in Queues : \A i \in DOMAIN ready'[u] :
              availableAt[ready'[u][i].id] <= now
<1> SUFFICES ASSUME NEW u \in Queues, NEW i \in DOMAIN ready'[u]
             PROVE  availableAt[ready'[u][i].id] <= now
  OBVIOUS
<1>1. CASE u # t
  <2>1. ready'[u] = ready[u]
    BY <1>1 DEF TypeOK
  <2> QED BY <2>1 DEF ReadyTimed
<1>2. CASE u = t
  <2>1. ready'[u] = ready[t] \o r /\ ready[t] \in Seq(Message)
    BY <1>2 DEF TypeOK
  <2>2. i \in DOMAIN (ready[t] \o r)
    BY <2>1
  <2>3. \/ \E j \in DOMAIN ready[t] : (ready[t] \o r)[i] = ready[t][j]
        \/ \E j \in DOMAIN r : (ready[t] \o r)[i] = r[j]
    BY <2>1, <2>2, ConcatElements
  <2> QED BY <2>1, <2>3 DEF ReadyTimed
<1> QED BY <1>1, <1>2

(* A message returns to the ready list from a lease.                       *)
LEMMA ReturnTimed ==
    ASSUME TypeOK, TimeInv, NEW t \in Queues, NEW r \in Seq(Message),
           ready' = [ready EXCEPT ![t] = @ \o r],
           \A i \in DOMAIN r : \E e \in inflight[t] : r[i].id = e.id,
           \A u \in Queues : inflight'[u] \subseteq inflight[u],
           UNCHANGED <<now, delayed, gdue, availableAt, delivered>>
    PROVE  TimeInv'
<1>1. ReadyTimed /\ DeliveredTimed /\ DelayedTimed /\ DueTimed /\ LeasedTimed
  BY DEF TimeInv, NeverEarly, ReadyTimed, DeliveredTimed
<1>2. \A i \in DOMAIN r : availableAt[r[i].id] <= now
  BY <1>1 DEF LeasedTimed
<1>3. ReadyTimed'
  BY <1>1, <1>2, ReadyGrowsTimed DEF ReadyTimed
<1>4. (DelayedTimed /\ DueTimed /\ LeasedTimed /\ DeliveredTimed)'
  BY <1>1 DEF DelayedTimed, DueTimed, LeasedTimed, DeliveredTimed
<1> QED BY <1>3, <1>4 DEF TimeInv, NeverEarly, ReadyTimed, DeliveredTimed

(* enqueue files a message without a delay as due, one with a delay with   *)
(* its time, and touches the time of no other message.                     *)
LEMMA EnqueueTimed ==
    ASSUME Inv, FreshInv, TimeInv, NEW p \in Producers, NEW m \in Messages,
           Enqueue(p, m)
    PROVE  TimeInv'
<1>0. ReadyTimed /\ DeliveredTimed /\ DelayedTimed /\ DueTimed /\ LeasedTimed
  BY DEF TimeInv, NeverEarly, ReadyTimed, DeliveredTimed
<1> DEFINE r == [id |-> m, attempt |-> 1]
           e == [id |-> m, readyAt |-> now + pdelay[p]]
<1>1. PICK t \in Queues : t = MountTopic(ptopic[p])
  BY ConstantsAssumption DEF Inv, TypeOK, MountTopic, Enqueue, ProducerAt
<1>2. /\ m \notin used
      /\ availableAt' = [availableAt EXCEPT ![m] = now + pdelay[p]]
      /\ UNCHANGED <<now, inflight, gdue, delivered>>
      /\ \/ /\ pdelay[p] = 0 /\ delayed' = delayed
            /\ ready' = [ready EXCEPT ![t] = Append(@, r)]
         \/ ready' = ready /\ delayed' = [delayed EXCEPT ![t] = @ \cup {e}]
  BY <1>1 DEF Enqueue, consVars
<1>3. /\ availableAt'[m] = now + pdelay[p]
      /\ \A o \in used : availableAt'[o] = availableAt[o]
  BY <1>2 DEF Inv, TypeOK
<1>4. /\ \A u \in Queues : \A i \in DOMAIN ready[u] : ready[u][i].id \in used
      /\ \A u \in Queues : \A f \in delayed[u] : f.id \in used
      /\ \A u \in Queues : \A f \in inflight[u] : f.id \in used
      /\ \A g \in Promoters : \A f \in gdue[g] : f.id \in used
      /\ \A d \in delivered : d.id \in used
  BY DEF Inv, Known, RI, Ids, DI, LI, GI, FreshInv, DeliveredKnown
<1>5. (DueTimed /\ LeasedTimed /\ DeliveredTimed)'
  BY <1>0, <1>2, <1>3, <1>4 DEF DueTimed, LeasedTimed, DeliveredTimed
<1>6. e.id = m /\ e.readyAt = now + pdelay[p] /\ r.id = m
  OBVIOUS
<1>6a. now + pdelay[p] <= now + pdelay[p] /\ now <= now
  BY DEF Inv, TypeOK
<1> HIDE DEF r, e
<1>7. DelayedTimed'
  <2>1. \A u \in Queues : delayed'[u] \subseteq delayed[u] \cup {e}
    BY <1>2 DEF Inv, TypeOK
  <2> QED BY <1>0, <1>3, <1>4, <1>6, <1>6a, <2>1 DEF DelayedTimed
<1>8. ReadyTimed'
  <2>1. CASE ready' = ready
    BY <1>0, <1>2, <1>3, <1>4, <2>1 DEF ReadyTimed
  <2>2. CASE pdelay[p] = 0 /\ ready' = [ready EXCEPT ![t] = Append(@, r)]
    <3>1. availableAt'[m] = now
      BY <1>3, <2>2 DEF Inv, TypeOK
    <3> SUFFICES ASSUME NEW u \in Queues, NEW i \in DOMAIN ready'[u]
                 PROVE  ready'[u][i].id = m \/ \E j \in DOMAIN ready[u] : ready'[u][i] = ready[u][j]
      BY <1>0, <1>2, <1>3, <1>4, <1>6a, <3>1 DEF ReadyTimed
    <3>2. CASE u # t
      BY <2>2, <3>2 DEF Inv, TypeOK
    <3>3. CASE u = t
      <4>1. ready'[u] = Append(ready[u], r) /\ ready[u] \in Seq(Message)
        BY <2>2, <3>3 DEF Inv, TypeOK
      <4>2. i \in 1..Len(ready[u]) + 1 /\ DOMAIN ready[u] = 1..Len(ready[u])
        BY <4>1
      <4>3. CASE i = Len(ready[u]) + 1
        BY <1>6, <4>1, <4>3
      <4>4. CASE i # Len(ready[u]) + 1
        BY <4>1, <4>2, <4>4
      <4> QED BY <4>3, <4>4
    <3> QED BY <3>2, <3>3
  <2> QED BY <1>2, <2>1, <2>2
<1> QED BY <1>5, <1>7, <1>8 DEF TimeInv, NeverEarly, ReadyTimed, DeliveredTimed

(* Pop delivers, and leases, what the ready list holds.                    *)
LEMMA TryPopTimed ==
    ASSUME Inv, TimeInv, NEW c \in Consumers, TryPop(c)
    PROVE  TimeInv'
<1>0. ReadyTimed /\ DeliveredTimed /\ DelayedTimed /\ DueTimed /\ LeasedTimed
  BY DEF TimeInv, NeverEarly, ReadyTimed, DeliveredTimed
<1> DEFINE t == ctopic[c]
           m == Head(ready[t])
           e == [id |-> m.id, attempt |-> m.attempt, deadline |-> now + Visibility]
<1>1. t \in Queues /\ ready[t] # <<>>
  BY DEF Inv, TypeOK, TryPop, ConsumerAt
<1>2. /\ ready' = [ready EXCEPT ![t] = Tail(@)]
      /\ inflight' = [inflight EXCEPT ![t] = {f \in @ : f.id # m.id} \cup {e}]
      /\ delivered' = delivered \cup {m}
      /\ UNCHANGED <<now, delayed, gdue, availableAt>>
  BY DEF TryPop, gVars
<1>3. ready[t] \in Seq(Message)
  BY <1>1 DEF Inv, TypeOK
<1>4. /\ m = ready[t][1] /\ 1 \in DOMAIN ready[t]
      /\ \A i \in DOMAIN Tail(ready[t]) : /\ i + 1 \in DOMAIN ready[t]
                                          /\ Tail(ready[t])[i] = ready[t][i + 1]
  BY <1>1, <1>3
<1>5. e.id = m.id
  OBVIOUS
<1> HIDE DEF t, m, e
<1>6. availableAt[m.id] <= now
  BY <1>0, <1>1, <1>4 DEF ReadyTimed
<1>7. \A u \in Queues :
        /\ ready'[u] = IF u = t THEN Tail(ready[u]) ELSE ready[u]
        /\ inflight'[u] \subseteq inflight[u] \cup {e}
  BY <1>2 DEF Inv, TypeOK
<1>8. ReadyTimed'
  BY <1>0, <1>1, <1>2, <1>4, <1>7 DEF ReadyTimed
<1>9. (LeasedTimed /\ DeliveredTimed)'
  BY <1>0, <1>2, <1>5, <1>6, <1>7 DEF LeasedTimed, DeliveredTimed
<1>10. (DelayedTimed /\ DueTimed)'
  BY <1>0, <1>2 DEF DelayedTimed, DueTimed
<1> QED BY <1>8, <1>9, <1>10 DEF TimeInv, NeverEarly, ReadyTimed, DeliveredTimed

(* Every step keeps messages from being deliverable early.                 *)
LEMMA TimeStep == Inv /\ FreshInv /\ TimeInv /\ [Next]_vars => TimeInv'
<1> SUFFICES ASSUME Inv, FreshInv, TimeInv, [Next]_vars PROVE TimeInv'
  OBVIOUS
<1>0. /\ TypeOK
      /\ ReadyTimed /\ DeliveredTimed /\ DelayedTimed /\ DueTimed /\ LeasedTimed
  BY DEF Inv, TimeInv, NeverEarly, ReadyTimed, DeliveredTimed
<1>1. CASE UNCHANGED places
  <2>1. now' >= now /\ now \in Nat /\ now' \in Nat
    BY <1>0, ClockStep, TypeOKStep DEF Inv, TypeOK
  <2>2. /\ \A t \in Queues : \A i \in DOMAIN ready[t] : availableAt[ready[t][i].id] \in Nat
        /\ \A d \in delivered : availableAt[d.id] \in Nat
        /\ \A g \in Promoters : \A e \in gdue[g] : availableAt[e.id] \in Nat
        /\ \A t \in Queues : \A e \in inflight[t] : availableAt[e.id] \in Nat
    <3>1. \A t \in Queues : \A i \in DOMAIN ready[t] : ready[t][i] \in Message
      BY <1>0 DEF TypeOK
    <3>2. /\ \A d \in delivered : d \in Message
          /\ \A g \in Promoters : \A e \in gdue[g] : e \in Delayed
          /\ \A t \in Queues : \A e \in inflight[t] : e \in Lease
          /\ availableAt \in [Messages -> Nat]
      BY <1>0 DEF TypeOK
    <3> QED BY <3>1, <3>2 DEF Message, Delayed, Lease
  <2>3. (ReadyTimed /\ DeliveredTimed /\ DelayedTimed /\ DueTimed /\ LeasedTimed)'
    BY <1>0, <1>1, <2>1, <2>2
       DEF places, ReadyTimed, DeliveredTimed, DelayedTimed, DueTimed, LeasedTimed
  <2> QED BY <2>3 DEF TimeInv, NeverEarly, ReadyTimed, DeliveredTimed
<1>2. ASSUME NEW p \in Producers, NEW m \in Messages, Enqueue(p, m) PROVE TimeInv'
  BY <1>2, EnqueueTimed
<1>3. ASSUME NEW c \in Consumers, TryPop(c) PROVE TimeInv'
  BY <1>3, TryPopTimed
<1>4. ASSUME NEW c \in Consumers, Reclaim(c) PROVE TimeInv'
  <2> DEFINE t == ctopic[c]
  <2>1. t \in Queues
    BY <1>4 DEF Inv, TypeOK, Reclaim, ConsumerAt
  <2>2. PICK s \in Orderings(Lapsed(t)) :
          ready' = [ready EXCEPT ![t] = @ \o [i \in 1..Len(s) |-> reclaimEntry(s[i])]]
    BY <1>4 DEF Reclaim
  <2> DEFINE r == [i \in 1..Len(s) |-> reclaimEntry(s[i])]
  <2>3. Lapsed(t) \subseteq inflight[t] /\ inflight[t] \subseteq Lease
    BY <2>1 DEF Lapsed, HeapLapsed, Inv, TypeOK
  <2>4. s \in Seq(Lapsed(t))
    <3>1. IsFiniteSet(Lapsed(t))
      BY <2>1, <2>3, FS_Subset DEF Inv, FiniteLists
    <3> QED BY <3>1, OrderingsSeq
  <2>5. \A i \in 1..Len(s) : /\ s[i] \in inflight[t]
                             /\ reclaimEntry(s[i]) \in Message
                             /\ reclaimEntry(s[i]).id = s[i].id
    BY <2>3, <2>4 DEF reclaimEntry, Lease, Message
  <2>6. /\ r \in Seq(Message)
        /\ \A i \in DOMAIN r : \E e \in inflight[t] : r[i].id = e.id
    BY <2>4, <2>5
  <2>7. /\ ready' = [ready EXCEPT ![t] = @ \o r]
        /\ UNCHANGED <<now, delayed, gdue, availableAt, delivered>>
    BY <1>4, <2>2 DEF Reclaim, gVars, histVars
  <2>8. \A u \in Queues : inflight'[u] \subseteq inflight[u]
    BY <1>4 DEF Reclaim, Inv, TypeOK
  <2> HIDE DEF r, t
  <2> QED BY <1>0, <2>1, <2>6, <2>7, <2>8, ReturnTimed
<1>5. ASSUME NEW c \in Consumers, Requeue(c) PROVE TimeInv'
  <2> DEFINE t == ctopic[c]
  <2>1. t \in Queues
    BY <1>5 DEF Inv, TypeOK, Requeue, ConsumerAt
  <2>2. /\ ready' = [ready EXCEPT ![t] = @ \o Requeued(c)]
        /\ UNCHANGED <<now, delayed, gdue, availableAt, delivered>>
    BY <1>5 DEF Requeue, gVars, histVars
  <2>3. \A u \in Queues : inflight'[u] \subseteq inflight[u]
    BY <1>5 DEF Requeue, Inv, TypeOK
  <2>4. /\ Requeued(c) \in Seq(Message)
        /\ \A i \in DOMAIN Requeued(c) : \E e \in inflight[t] : Requeued(c)[i].id = e.id
    <3>1. CASE Settled(c) = {}
      BY <3>1 DEF Requeued
    <3>2. CASE Settled(c) # {}
      <4>1. PICK e \in inflight[t] : e.id = cmsg[c].id /\ e.attempt = cmsg[c].attempt
        BY <3>2 DEF Settled
      <4>2. e.id \in Messages /\ e.attempt \in Nat
        BY <2>1 DEF Inv, TypeOK, Lease
      <4>3. [id |-> cmsg[c].id, attempt |-> cmsg[c].attempt + 1] \in Message
        BY <4>1, <4>2 DEF Message
      <4> QED BY <3>2, <4>1, <4>3 DEF Requeued
    <3> QED BY <3>1, <3>2
  <2> HIDE DEF t
  <2> QED BY <1>0, <2>1, <2>2, <2>3, <2>4, ReturnTimed
<1>6. ASSUME NEW c \in Consumers, Remove(c) PROVE TimeInv'
  <2>1. \A u \in Queues : inflight'[u] \subseteq inflight[u]
    BY <1>6 DEF Remove, Inv, TypeOK
  <2>2. UNCHANGED <<now, ready, delayed, gdue, availableAt, delivered>>
    BY <1>6 DEF Remove, gVars, histVars
  <2> QED BY <1>0, <2>1, <2>2
        DEF TimeInv, NeverEarly, DelayedTimed, DueTimed, LeasedTimed
<1>7. ASSUME NEW g \in Promoters, Collect(g) PROVE TimeInv'
  <2>1. PICK t \in Queues : t = gtopic[g]
    BY <1>7 DEF Collect, PromoterAt, Inv, TypeOK
  <2>2. /\ \A u \in Queues : delayed'[u] \subseteq delayed[u]
        /\ \A h \in Promoters : gdue'[h] = gdue[h] \/ gdue'[h] = Due(t)
        /\ UNCHANGED <<now, ready, inflight, availableAt, delivered>>
    BY <1>7, <2>1 DEF Collect, NotDue, Inv, TypeOK, histVars
  <2>3. \A e \in Due(t) : availableAt[e.id] <= now
    <3> SUFFICES ASSUME NEW e \in delayed[t], e.readyAt <= now
                 PROVE  availableAt[e.id] <= now
      BY DEF Due
    <3>1. e \in Delayed /\ now \in Nat /\ availableAt \in [Messages -> Nat]
      BY DEF Inv, TypeOK
    <3>2. e.readyAt \in Nat /\ availableAt[e.id] \in Nat
      BY <3>1 DEF Delayed
    <3>3. availableAt[e.id] <= e.readyAt
      BY <1>0 DEF DelayedTimed
    <3> QED BY <3>1, <3>2, <3>3
  <2>4. DueTimed'
    BY <1>0, <2>2, <2>3 DEF DueTimed
  <2> QED BY <1>0, <2>2, <2>4 DEF TimeInv, NeverEarly, DelayedTimed, LeasedTimed
<1>8. ASSUME NEW g \in Promoters, AppendDue(g) PROVE TimeInv'
  <2> DEFINE t == gtopic[g]
  <2>1. t \in Queues
    BY <1>8 DEF Inv, TypeOK, AppendDue, PromoterAt
  <2>2. PICK s \in Orderings(gdue[g]) :
          ready' = [ready EXCEPT ![t] = @ \o
                       [i \in 1..Len(s) |-> [id |-> s[i].id, attempt |-> 1]]]
    BY <1>8 DEF AppendDue
  <2> DEFINE r == [i \in 1..Len(s) |-> [id |-> s[i].id, attempt |-> 1]]
  <2>3. s \in Seq(gdue[g]) /\ gdue[g] \subseteq Delayed
    <3>1. IsFiniteSet(gdue[g]) /\ gdue[g] \subseteq Delayed
      BY DEF Inv, FiniteLists, TypeOK
    <3> QED BY <3>1, OrderingsSeq
  <2>4. \A i \in 1..Len(s) : /\ s[i] \in gdue[g]
                             /\ [id |-> s[i].id, attempt |-> 1] \in Message
    BY <2>3 DEF Delayed, Message
  <2>5. /\ r \in Seq(Message)
        /\ DOMAIN r = 1..Len(s)
        /\ \A i \in 1..Len(s) : r[i].id = s[i].id
    BY <2>3, <2>4
  <2>6. /\ ready' = [ready EXCEPT ![t] = @ \o r]
        /\ gdue' = [gdue EXCEPT ![g] = {}]
        /\ UNCHANGED <<now, delayed, inflight, availableAt, delivered>>
    BY <1>8, <2>2 DEF AppendDue, histVars
  <2> HIDE DEF r, t
  <2>7. \A i \in DOMAIN r : availableAt[r[i].id] <= now
    BY <1>0, <2>4, <2>5 DEF DueTimed
  <2>8. ReadyTimed'
    BY <1>0, <2>1, <2>5, <2>6, <2>7, ReadyGrowsTimed DEF ReadyTimed
  <2>9. \A h \in Promoters : gdue'[h] \subseteq gdue[h]
    BY <2>6 DEF Inv, TypeOK
  <2>10. (DelayedTimed /\ DueTimed /\ LeasedTimed /\ DeliveredTimed)'
    BY <1>0, <2>6, <2>9 DEF DelayedTimed, DueTimed, LeasedTimed, DeliveredTimed
  <2> QED BY <2>8, <2>10 DEF TimeInv, NeverEarly, ReadyTimed, DeliveredTimed
<1> QED BY <1>1, <1>2, <1>3, <1>4, <1>5, <1>6, <1>7, <1>8, Frame DEF MovesMessages

(* No message is in the ready list, or was ever delivered, before the      *)
(* delay its producer asked for had passed.                                *)
THEOREM DelaysAreKept == Spec => []NeverEarly
<1>1. Init => Inv /\ FreshInv /\ TimeInv
  <2>1. Init => FreshInv
    BY DEF Init, FreshInv, FreshDelivery, LeasedLatest, DeliveredKnown
  <2>2. Init => TimeInv
    BY DEF Init, TimeInv, DelayedTimed, DueTimed, LeasedTimed, NeverEarly
  <2> QED BY <2>1, <2>2, InvInit
<1>2. Inv /\ FreshInv /\ TimeInv /\ [Next]_vars => (Inv /\ FreshInv /\ TimeInv)'
  BY InvStep, FreshStep, TimeStep
<1>3. TimeInv => NeverEarly
  BY DEF TimeInv
<1> QED BY <1>1, <1>2, <1>3, PTL DEF Spec

-----------------------------------------------------------------------------
(* Somebody will close the channel that topicQueue.done now holds: it is   *)
(* closed, or a promoter of the topic has yet to read it, or has read it   *)
(* and has yet to close it.                                                *)
Answers(g, t) ==
    /\ gtopic[g] = t
    /\ \/ gpc[g] \notin {"unborn", "close", "exited"}
       \/ gpc[g] = "close" /\ gdone[g] = done[t]

DoneIsAnswered ==
    \A t \in Queues : done[t] # None =>
        done[t] \in doneClosed \/ \E g \in Promoters : Answers(g, t)

(* A promoter that is on has its done channel.                             *)
OnHasDone == \A t \in Queues : promoterOn[t] => done[t] # None

(* Close marks the adapter closed before it reads done, and no promoter    *)
(* is started after that: what it read is what the topic still has.        *)
CloseReadsLast ==
    /\ xpc # "idle" => closed
    /\ xpc \in {"quit", "join"} => xdone = done[xtopic] /\ xdone # None

CloseInv == DoneIsAnswered /\ OnHasDone /\ CloseReadsLast

(* The state that decides whether Close is answered.                       *)
joinVars == <<closed, gpc, gtopic, gdone, done, doneClosed, promoterOn, xpc, xtopic, xdone>>

(* A producer starts a promoter only while the adapter is not closed, and  *)
(* wakes a parked one.                                                     *)
LEMMA ProducerKeepsAnswer ==
    ASSUME TypeOK, CloseInv, NEW p \in Producers, ProducerStep(p)
    PROVE  CloseInv'
<1> USE DEF promoVars, gVars, closeVars
<1>1. CASE UNCHANGED joinVars
  BY <1>1 DEF joinVars, CloseInv, DoneIsAnswered, OnHasDone, CloseReadsLast, Answers
<1>2. ASSUME NEW m \in Messages, Enqueue(p, m), ~UNCHANGED joinVars PROVE CloseInv'
  <2>0. PICK t : t = MountTopic(ptopic[p])
    OBVIOUS
  <2>1. ~closed /\ UNCHANGED <<closed, gdone, doneClosed, xpc, xtopic, xdone>>
    BY <1>2 DEF Enqueue
  <2>2. StartPromoter(t) /\ ~UNCHANGED <<promoterOn, quit, done, gpc, gtopic>>
    BY <1>2, <2>0, <2>1 DEF Enqueue, joinVars
  <2>3. t \in Queues
    BY <1>2, <2>0, ConstantsAssumption DEF Enqueue, ProducerAt, MountTopic, TypeOK
  <2>4. PICK g \in Promoters :
          /\ gpc[g] = "unborn"
          /\ gpc' = [h \in Promoters |->
                IF h = g \/ (quit[t] /\ h \in Parked(t)) THEN "top" ELSE gpc[h]]
          /\ gtopic' = [gtopic EXCEPT ![g] = t]
          /\ done' = [done EXCEPT ![t] = g]
          /\ promoterOn' = [promoterOn EXCEPT ![t] = TRUE]
    BY <2>2 DEF StartPromoter
  <2>5. g # None
    BY ConstantsAssumption
  <2>6. /\ gpc'[g] = "top" /\ gtopic'[g] = t
        /\ \A u \in Queues : u # t => done'[u] = done[u] /\ promoterOn'[u] = promoterOn[u]
        /\ done'[t] = g
    BY <2>3, <2>4 DEF TypeOK
  <2>7. \A h \in Promoters : h # g =>
           gtopic'[h] = gtopic[h] /\ (gpc'[h] = gpc[h] \/ (gpc[h] = "wait" /\ gpc'[h] = "top"))
    BY <2>4 DEF TypeOK, Parked
  <2>8. Answers(g, t)'
    BY <2>6 DEF Answers
  <2>9. \A u \in Queues, h \in Promoters : u # t /\ Answers(h, u) => Answers(h, u)'
    BY <2>1, <2>4, <2>6, <2>7 DEF Answers
  <2>10. DoneIsAnswered'
    <3> SUFFICES ASSUME NEW u \in Queues, done'[u] # None, done'[u] \notin doneClosed
                 PROVE  \E h \in Promoters : Answers(h, u)'
      BY <2>1 DEF DoneIsAnswered
    <3>1. CASE u = t
      BY <2>8, <3>1
    <3>2. CASE u # t
      BY <2>6, <2>9, <3>2 DEF CloseInv, DoneIsAnswered
    <3> QED BY <3>1, <3>2
  <2>11. OnHasDone'
    BY <2>5, <2>6 DEF CloseInv, OnHasDone
  <2>12. xpc = "idle"
    BY <2>1 DEF CloseInv, CloseReadsLast
  <2> QED BY <2>1, <2>10, <2>11, <2>12 DEF CloseInv, CloseReadsLast
<1>3. CASE PushSignal(p)
  <2>1. /\ UNCHANGED <<closed, gtopic, gdone, done, doneClosed, promoterOn, xpc, xtopic, xdone>>
        /\ \A h \in Promoters : gpc'[h] = gpc[h] \/ (gpc[h] = "wait" /\ gpc'[h] = "top")
    BY <1>3 DEF PushSignal, Parked, TypeOK
  <2>2. \A u \in Queues, h \in Promoters : Answers(h, u) => Answers(h, u)'
    BY <2>1 DEF Answers
  <2> QED BY <2>1, <2>2 DEF CloseInv, DoneIsAnswered, OnHasDone, CloseReadsLast
<1> QED BY <1>1, <1>2, <1>3
     DEF ProducerStep, PushTopic, PushSpace, PushCancel, EnqueueClosed, joinVars

(* A promoter leaves only by closing the done channel it reads.            *)
LEMMA PromoterKeepsAnswer ==
    ASSUME TypeOK, CloseInv, NEW g \in Promoters, PromoterStep(g)
    PROVE  CloseInv'
<1> USE DEF promoVars, gVars, closeVars
<1>1. ASSUME /\ UNCHANGED <<closed, gtopic, gdone, done, doneClosed, xpc, xtopic, xdone>>
             /\ \A t \in Queues : promoterOn'[t] => promoterOn[t]
             /\ \A h \in Promoters : h # g => gpc'[h] = gpc[h]
             /\ gpc[g] \notin {"close", "exited", "unborn"}
             /\ gpc'[g] \notin {"close", "exited", "unborn"}
      PROVE  CloseInv'
  <2>1. \A u \in Queues, h \in Promoters : Answers(h, u) => Answers(h, u)'
    BY <1>1 DEF Answers
  <2> QED BY <1>1, <2>1 DEF CloseInv, DoneIsAnswered, OnHasDone, CloseReadsLast
<1>2. CASE PromoteTop(g) \/ PromoteSignal(g) \/ PromoteWake(g)
  BY <1>1, <1>2
     DEF PromoteTop, PromoteSignal, PromoteWake, PromoterAt, TypeOK, AfterDue
<1>3. CASE Collect(g) \/ AppendDue(g)
  BY <1>1, <1>3 DEF Collect, AppendDue, PromoterAt, TypeOK, AfterDue
<1>4. CASE PromoteOff(g)
  BY <1>1, <1>4 DEF PromoteOff, PromoterAt, TypeOK
<1>5. CASE PromoteDefer(g)
  <2>1. /\ UNCHANGED <<closed, gtopic, done, doneClosed, xpc, xtopic, xdone>>
        /\ \A t \in Queues : promoterOn'[t] => promoterOn[t]
        /\ \A h \in Promoters : h # g => gpc'[h] = gpc[h] /\ gdone'[h] = gdone[h]
        /\ gpc[g] = "defer" /\ gpc'[g] = "close" /\ gdone'[g] = done[gtopic[g]]
    BY <1>5 DEF PromoteDefer, PromoterAt, TypeOK
  <2>2. \A u \in Queues, h \in Promoters : Answers(h, u) => Answers(h, u)'
    BY <2>1 DEF Answers
  <2> QED BY <2>1, <2>2 DEF CloseInv, DoneIsAnswered, OnHasDone, CloseReadsLast
<1>6. CASE PromoteClose(g)
  <2>1. /\ UNCHANGED <<closed, gtopic, gdone, done, promoterOn, xpc, xtopic, xdone>>
        /\ \A h \in Promoters : h # g => gpc'[h] = gpc[h]
        /\ gpc[g] = "close" /\ doneClosed' = doneClosed \cup {gdone[g]}
    BY <1>6 DEF PromoteClose, PromoterAt, TypeOK
  <2>2. \A u \in Queues, h \in Promoters :
           Answers(h, u) => Answers(h, u)' \/ done[u] \in doneClosed'
    BY <2>1 DEF Answers
  <2> QED BY <2>1, <2>2 DEF CloseInv, DoneIsAnswered, OnHasDone, CloseReadsLast
<1> QED BY <1>2, <1>3, <1>4, <1>5, <1>6 DEF PromoterStep

(* Every step keeps somebody there to close the done channel.              *)
LEMMA CloseInvStep == TypeOK /\ CloseInv /\ [Next]_vars => CloseInv'
<1> SUFFICES ASSUME TypeOK, CloseInv, [Next]_vars PROVE CloseInv'
  OBVIOUS
<1> USE DEF promoVars, gVars, closeVars
<1>1. CASE UNCHANGED joinVars
  BY <1>1 DEF joinVars, CloseInv, DoneIsAnswered, OnHasDone, CloseReadsLast, Answers
<1>2. ASSUME NEW p \in Producers, ProducerStep(p) PROVE CloseInv'
  BY <1>2, ProducerKeepsAnswer
<1>3. ASSUME NEW g \in Promoters, PromoterStep(g) PROVE CloseInv'
  BY <1>3, PromoterKeepsAnswer
<1>4. ASSUME NEW c \in Consumers, ConsumerStep(c) PROVE UNCHANGED joinVars
  <2> USE DEF joinVars
  <2>1. CASE PopTopic(c) \/ ReclaimSignal(c) \/ PopMiss(c) \/ PopPend(c)
             \/ PopPark(c) \/ PopUnpend(c) \/ Abandon(c)
    BY <2>1 DEF PopTopic, ReclaimSignal, PopMiss, PopPend, PopPark, PopUnpend,
                Abandon
  <2>2. CASE Length(c) \/ NackSignal(c) \/ Sweep(c)
    BY <2>2 DEF Length, NackSignal, Sweep
  <2>3. CASE \E cause \in {"expired", "cancelled"} : PopWake(c, cause)
    BY <2>3 DEF PopWake
  <2>4. CASE \E step \in {"ack", "nackDrop", "nackRequeue"} : Settle(c, step)
    BY <2>4 DEF Settle
  <2>5. CASE Reclaim(c) \/ TryPop(c) \/ Remove(c) \/ Requeue(c)
    BY <2>5 DEF Reclaim, TryPop, Remove, Requeue
  <2> QED BY <1>4, <2>1, <2>2, <2>3, <2>4, <2>5 DEF ConsumerStep
<1>5. CASE CloseStep
  <2>1. UNCHANGED <<gpc, gtopic, gdone, done, doneClosed, promoterOn>>
    BY <1>5 DEF CloseStep, CloseBegin, CloseRead, CloseQuit, CloseJoin
  <2>2. (DoneIsAnswered /\ OnHasDone)'
    BY <2>1 DEF CloseInv, DoneIsAnswered, OnHasDone, Answers
  <2>3. CloseReadsLast'
    <3>1. CASE CloseBegin
      BY <3>1 DEF CloseBegin, CloseReadsLast
    <3>2. CASE CloseRead
      BY <3>2 DEF CloseRead, CloserAt, CloseInv, OnHasDone, CloseReadsLast, TypeOK
    <3>3. CASE CloseQuit \/ CloseJoin
      BY <3>3 DEF CloseQuit, CloseJoin, CloserAt, CloseInv, CloseReadsLast
    <3> QED BY <1>5, <3>1, <3>2, <3>3 DEF CloseStep
  <2> QED BY <2>2, <2>3 DEF CloseInv
<1>6. CASE Tick \/ UNCHANGED vars
  BY <1>1, <1>6 DEF Tick, vars, joinVars
<1> QED BY <1>1, <1>2, <1>3, <1>4, <1>5, <1>6 DEF Next

(* Close never waits for a done channel nobody is left to close, however   *)
(* promoters are started, stopped and replaced around it.                  *)
THEOREM CloseGetsItsAnswer == Spec => []CloseIsAnswered
<1>1. Init => TypeOK /\ FiniteLists /\ CloseInv
  <2>1. Init => CloseInv
    BY DEF Init, CloseInv, DoneIsAnswered, OnHasDone, CloseReadsLast
  <2> QED BY <2>1, TypeOKInit
<1>2. TypeOK /\ FiniteLists /\ CloseInv /\ [Next]_vars
        => (TypeOK /\ FiniteLists /\ CloseInv)'
  BY TypeOKStep, FiniteStep, CloseInvStep
<1>3. TypeOK /\ CloseInv => CloseIsAnswered
  <2> SUFFICES ASSUME TypeOK, CloseInv, xpc \in {"quit", "join"}, xdone \notin doneClosed
               PROVE  \E g \in Promoters :
                         gtopic[g] = xtopic /\ gpc[g] \notin {"unborn", "exited"}
    BY DEF CloseIsAnswered
  <2>1. xtopic \in Queues /\ xdone = done[xtopic] /\ xdone # None
    BY DEF TypeOK, CloseInv, CloseReadsLast
  <2>2. PICK g \in Promoters : Answers(g, xtopic)
    BY <2>1 DEF CloseInv, DoneIsAnswered
  <2> QED BY <2>2 DEF Answers
<1> QED BY <1>1, <1>2, <1>3, PTL DEF Spec

-----------------------------------------------------------------------------
(* Where the contract has a message, by where the adapter has it.          *)
LeasedFact(m) ==
    \A t \in Queues : \A e \in inflight[t] :
        e.id = m => PlaceOf(m) = "leased" /\ AttemptOf(m) = e.attempt

ReadyFact(m) ==
    \A t \in Queues : \A i \in DOMAIN ready[t] :
        ready[t][i].id = m =>
            PlaceOf(m) = "waiting" /\ AttemptOf(m) = ready[t][i].attempt

PendingFact(m) == Pending(m) => PlaceOf(m) = "waiting" /\ AttemptOf(m) = 1

AbsentFact(m) == m \notin used => PlaceOf(m) = "absent" /\ AttemptOf(m) = 0

GoneFact(m) ==
    m \in used /\ Held(m) = {} /\ Queued(m) = {} /\ ~Pending(m) =>
        PlaceOf(m) = "gone" /\ AttemptOf(m) = 0

PlaceFacts ==
    \A m \in Messages : /\ LeasedFact(m) /\ ReadyFact(m) /\ PendingFact(m)
                        /\ AbsentFact(m) /\ GoneFact(m)

(* The one lease of a message is all there is of it.                       *)
LEMMA HeldAlone ==
    ASSUME Inv, NEW t \in Queues, NEW e \in inflight[t]
    PROVE  /\ Held(e.id) = {e} /\ Queued(e.id) = {} /\ ~Pending(e.id)
           /\ e.id \in used /\ e.id \in Messages
<1>1. e.id \in Messages /\ e.id \in LI(t) /\ e.id \in used
  BY DEF Inv, TypeOK, Lease, LI, Known
<1>2. \A u \in Queues : \A f \in inflight[u] : f.id = e.id => f = e
  <2> SUFFICES ASSUME NEW u \in Queues, NEW f \in inflight[u], f.id = e.id
               PROVE  f = e
    OBVIOUS
  <2>1. e.id \in LI(u)
    BY DEF LI
  <2>2. u = t
    BY <1>1, <2>1 DEF Inv, Apart
  <2> QED BY <2>2 DEF Inv, OneLease
<1>3. \A u \in Queues : \A i \in DOMAIN ready[u] : ready[u][i].id # e.id
  <2>1. \A u \in Queues : e.id \notin RI(u)
    BY <1>1 DEF Inv, Apart
  <2> QED BY <2>1 DEF RI, Ids
<1>4. ~Pending(e.id)
  <2>1. /\ \A u \in Queues : e.id \notin DI(u)
        /\ \A g \in Promoters : e.id \notin GI(g)
    BY <1>1 DEF Inv, Apart
  <2> QED BY <2>1 DEF Pending, InDelayed, InDue, DI, GI
<1>5. Held(e.id) = {e}
  BY <1>2 DEF Held
<1>6. Queued(e.id) = {}
  BY <1>3 DEF Queued
<1> QED BY <1>1, <1>4, <1>5, <1>6

(* So is the one place in a ready list.                                    *)
LEMMA QueuedAlone ==
    ASSUME Inv, NEW t \in Queues, NEW i \in DOMAIN ready[t]
    PROVE  LET m == ready[t][i].id IN
           /\ Queued(m) = {ready[t][i]} /\ Held(m) = {} /\ ~Pending(m)
           /\ m \in used /\ m \in Messages
<1> DEFINE m == ready[t][i].id
<1>1. m \in Messages /\ m \in RI(t) /\ m \in used
  <2>1. ready[t][i] \in Message
    BY DEF Inv, TypeOK
  <2> QED BY <2>1 DEF Inv, RI, Ids, Known, Message
<1>2. \A u \in Queues : \A j \in DOMAIN ready[u] : ready[u][j].id = m => u = t /\ j = i
  <2> SUFFICES ASSUME NEW u \in Queues, NEW j \in DOMAIN ready[u], ready[u][j].id = m
               PROVE  u = t /\ j = i
    OBVIOUS
  <2>1. m \in RI(u)
    BY DEF RI, Ids
  <2>2. u = t
    BY <1>1, <2>1 DEF Inv, Apart
  <2> QED BY <2>2 DEF Inv, ReadyOnce, Distinct
<1>3. Held(m) = {}
  <2>1. \A u \in Queues : m \notin LI(u)
    BY <1>1 DEF Inv, Apart
  <2> QED BY <2>1 DEF Held, LI
<1>4. ~Pending(m)
  <2>1. /\ \A u \in Queues : m \notin DI(u)
        /\ \A g \in Promoters : m \notin GI(g)
    BY <1>1 DEF Inv, Apart
  <2> QED BY <2>1 DEF Pending, InDelayed, InDue, DI, GI
<1>5. Queued(m) = {ready[t][i]}
  BY <1>2 DEF Queued
<1> QED BY <1>1, <1>3, <1>4, <1>5

(* And the one delayed entry, in the heap or in a promoter's hands.        *)
LEMMA PendingAlone ==
    ASSUME Inv, NEW m \in Messages, Pending(m)
    PROVE  Held(m) = {} /\ Queued(m) = {} /\ m \in used
<1>1. (\E t \in Queues : m \in DI(t)) \/ (\E g \in Promoters : m \in GI(g))
  BY DEF Pending, InDelayed, InDue, DI, GI
<1>2. m \in used /\ \A u \in Queues : m \notin LI(u) /\ m \notin RI(u)
  BY <1>1 DEF Inv, Apart, Known
<1>3. Held(m) = {}
  BY <1>2 DEF Held, LI
<1>4. Queued(m) = {}
  BY <1>2 DEF Queued, RI, Ids
<1> QED BY <1>2, <1>3, <1>4

(* In a state of the invariant the mapping says what one expects.          *)
LEMMA PlaceFactsHold == Inv => PlaceFacts
<1> SUFFICES ASSUME Inv, NEW m \in Messages
             PROVE  /\ LeasedFact(m) /\ ReadyFact(m) /\ PendingFact(m)
                    /\ AbsentFact(m) /\ GoneFact(m)
  BY DEF PlaceFacts
<1>1. LeasedFact(m)
  <2> SUFFICES ASSUME NEW t \in Queues, NEW e \in inflight[t], e.id = m
               PROVE  PlaceOf(m) = "leased" /\ AttemptOf(m) = e.attempt
    BY DEF LeasedFact
  <2>1. Held(m) = {e} /\ m \in used
    BY HeldAlone
  <2>2. PlaceOf(m) = "leased"
    BY <2>1 DEF PlaceOf
  <2> QED BY <2>1, <2>2 DEF AttemptOf
<1>2. ReadyFact(m)
  <2> SUFFICES ASSUME NEW t \in Queues, NEW i \in DOMAIN ready[t], ready[t][i].id = m
               PROVE  PlaceOf(m) = "waiting" /\ AttemptOf(m) = ready[t][i].attempt
    BY DEF ReadyFact
  <2>1. Held(m) = {} /\ Queued(m) = {ready[t][i]} /\ m \in used
    BY QueuedAlone
  <2>2. PlaceOf(m) = "waiting"
    BY <2>1 DEF PlaceOf
  <2> QED BY <2>1, <2>2 DEF AttemptOf
<1>3. PendingFact(m)
  <2> SUFFICES ASSUME Pending(m) PROVE PlaceOf(m) = "waiting" /\ AttemptOf(m) = 1
    BY DEF PendingFact
  <2>1. Held(m) = {} /\ Queued(m) = {} /\ m \in used
    BY PendingAlone
  <2>2. PlaceOf(m) = "waiting"
    BY <2>1 DEF PlaceOf
  <2> QED BY <2>1, <2>2 DEF AttemptOf
<1>4. AbsentFact(m)
  BY DEF AbsentFact, PlaceOf, AttemptOf
<1>5. GoneFact(m)
  BY DEF GoneFact, PlaceOf, AttemptOf
<1> QED BY <1>1, <1>2, <1>3, <1>4, <1>5

(* The same of the next state.                                             *)
LEMMA PlaceFactsNext == Inv' => PlaceFacts'
BY PlaceFactsHold, PTL

(* To the contract, nothing happens to a message.                          *)
Same(m) == PlaceOf(m)' = PlaceOf(m) /\ AttemptOf(m)' = AttemptOf(m)

(* A message the adapter leaves alone stays where the contract has it.     *)
LEMMA Untouched ==
    ASSUME NEW m, Held(m)' = Held(m), Queued(m)' = Queued(m),
           Pending(m)' <=> Pending(m), (m \in used') <=> (m \in used)
    PROVE  Same(m)
<1>1. PlaceOf(m)' = PlaceOf(m)
  BY DEF PlaceOf
<1>2. AttemptOf(m)' = AttemptOf(m)
  BY <1>1 DEF AttemptOf
<1> QED BY <1>1, <1>2 DEF Same

(* What a ready list that grows adds to the messages that are queued.      *)
LEMMA QueuedGrows ==
    ASSUME Inv, NEW t \in Queues, NEW r \in Seq(Message),
           ready' = [ready EXCEPT ![t] = @ \o r],
           NEW m, \A i \in DOMAIN r : r[i].id # m
    PROVE  Queued(m)' = Queued(m)
<1>1. ready \in [Queues -> Seq(Message)]
  BY DEF Inv, TypeOK
<1>2. \A u \in Queues : u # t => ready'[u] = ready[u]
  BY <1>1
<1>3. ready'[t] = ready[t] \o r /\ ready[t] \in Seq(Message)
  BY <1>1
<1>4. \A i \in DOMAIN ready[t] : i \in DOMAIN ready'[t] /\ ready'[t][i] = ready[t][i]
  BY <1>3
<1>5. \A i \in DOMAIN ready'[t] : \/ ready'[t][i].id # m
                                  \/ \E j \in DOMAIN ready[t] : ready'[t][i] = ready[t][j]
  <2> SUFFICES ASSUME NEW i \in DOMAIN ready'[t]
               PROVE  \/ ready'[t][i].id # m
                      \/ \E j \in DOMAIN ready[t] : ready'[t][i] = ready[t][j]
    OBVIOUS
  <2>1. i \in DOMAIN (ready[t] \o r)
    BY <1>3
  <2>2. \/ \E j \in DOMAIN ready[t] : (ready[t] \o r)[i] = ready[t][j]
        \/ \E j \in DOMAIN r : (ready[t] \o r)[i] = r[j]
    BY <1>3, <2>1, ConcatElements
  <2> QED BY <1>3, <2>2
<1>6. \A x : x \in Queued(m)' => x \in Queued(m)
  <2> SUFFICES ASSUME NEW u \in Queues, NEW i \in DOMAIN ready'[u], ready'[u][i].id = m
               PROVE  ready'[u][i] \in Queued(m)
    BY DEF Queued
  <2>1. PICK j \in DOMAIN ready[u] : ready'[u][i] = ready[u][j]
    BY <1>2, <1>5
  <2> QED BY <2>1 DEF Queued
<1>7. \A x : x \in Queued(m) => x \in Queued(m)'
  <2> SUFFICES ASSUME NEW u \in Queues, NEW i \in DOMAIN ready[u], ready[u][i].id = m
               PROVE  ready[u][i] \in Queued(m)'
    BY DEF Queued
  <2>1. i \in DOMAIN ready'[u] /\ ready'[u][i] = ready[u][i]
    BY <1>2, <1>4
  <2> QED BY <2>1 DEF Queued
<1> QED BY <1>6, <1>7

(* A concatenation holds what its second part holds.                       *)
LEMMA ConcatHas ==
    ASSUME NEW s \in Seq(Message), NEW r \in Seq(Message), NEW j \in DOMAIN r
    PROVE  \E i \in DOMAIN (s \o r) : (s \o r)[i] = r[j]
<1>1. Len(s) + j \in DOMAIN (s \o r) /\ (s \o r)[Len(s) + j] = r[j]
  OBVIOUS
<1> QED BY <1>1

(* The leases of the other messages when those of one topic change.        *)
LEMMA HeldOthers ==
    ASSUME Inv, NEW t \in Queues, NEW S, inflight' = [inflight EXCEPT ![t] = S],
           NEW m, \A e : e.id = m => (e \in S <=> e \in inflight[t])
    PROVE  Held(m)' = Held(m)
<1>1. \A u \in Queues : inflight'[u] = IF u = t THEN S ELSE inflight[u]
  BY DEF Inv, TypeOK
<1>2. \A e : e \in Held(m)' <=> e \in Held(m)
  BY <1>1 DEF Held
<1> QED BY <1>2

(* enqueue is the contract's Accept.                                       *)
LEMMA EnqueueAccepts ==
    ASSUME Inv, Inv', NEW p \in Producers, NEW m \in Messages, Enqueue(p, m)
    PROVE  Contract!Accept(m)
<1> DEFINE r == [id |-> m, attempt |-> 1]
           e == [id |-> m, readyAt |-> now + pdelay[p]]
<1>1. PICK t \in Queues : t = MountTopic(ptopic[p])
  BY ConstantsAssumption DEF Inv, TypeOK, MountTopic, Enqueue, ProducerAt
<1>2. /\ m \notin used /\ used' = used \cup {m}
      /\ UNCHANGED <<inflight, gdue>>
      /\ \/ delayed' = delayed /\ ready' = [ready EXCEPT ![t] = Append(@, r)]
         \/ ready' = ready /\ delayed' = [delayed EXCEPT ![t] = @ \cup {e}]
  BY <1>1 DEF Enqueue
<1>3. r \in Message /\ r.id = m /\ r.attempt = 1 /\ e.id = m
  BY DEF Message
<1> HIDE DEF r, e
<1>4. ready[t] \in Seq(Message)
  BY DEF Inv, TypeOK
<1>5. PlaceOf(m) = "absent" /\ AttemptOf(m) = 0
  BY <1>2, PlaceFactsHold DEF PlaceFacts, AbsentFact
<1>6. PlaceOf(m)' = "waiting" /\ AttemptOf(m)' = 1
  <2>1. CASE ready' = [ready EXCEPT ![t] = Append(@, r)]
    <3>1. ready'[t] = Append(ready[t], r)
      BY <2>1 DEF Inv, TypeOK
    <3>2. Len(ready[t]) + 1 \in DOMAIN ready'[t] /\ ready'[t][Len(ready[t]) + 1] = r
      BY <1>3, <1>4, <3>1
    <3> QED BY <1>3, <3>2, PlaceFactsNext DEF PlaceFacts, ReadyFact
  <2>2. CASE delayed' = [delayed EXCEPT ![t] = @ \cup {e}]
    <3>1. e \in delayed'[t]
      BY <2>2 DEF Inv, TypeOK
    <3>2. Pending(m)'
      BY <1>3, <3>1 DEF Pending, InDelayed
    <3> QED BY <3>2, PlaceFactsNext DEF PlaceFacts, PendingFact
  <2> QED BY <1>2, <2>1, <2>2
<1>7. ASSUME NEW o \in Messages, o # m PROVE Same(o)
  <2>1. Held(o)' = Held(o)
    BY <1>2 DEF Held
  <2>2. CASE delayed' = delayed /\ ready' = [ready EXCEPT ![t] = Append(@, r)]
    <3>1. <<r>> \in Seq(Message) /\ \A i \in DOMAIN <<r>> : <<r>>[i].id # o
      BY <1>3, <1>7
    <3>2. Append(ready[t], r) = ready[t] \o <<r>>
      BY <1>3, <1>4
    <3>3. ready' = [ready EXCEPT ![t] = @ \o <<r>>]
      BY <2>2, <3>2
    <3>4. Queued(o)' = Queued(o)
      BY <3>1, <3>3, QueuedGrows
    <3>5. Pending(o)' <=> Pending(o)
      BY <1>2, <2>2 DEF Pending, InDelayed, InDue
    <3> QED BY <1>2, <1>7, <2>1, <3>4, <3>5, Untouched
  <2>3. CASE ready' = ready /\ delayed' = [delayed EXCEPT ![t] = @ \cup {e}]
    <3>1. Queued(o)' = Queued(o)
      BY <2>3 DEF Queued
    <3>2. \A u \in Queues : delayed'[u] = delayed[u] \/ delayed'[u] = delayed[u] \cup {e}
      BY <2>3 DEF Inv, TypeOK
    <3>3. \A u \in Queues : InDelayed(u, o)' <=> InDelayed(u, o)
      BY <1>3, <1>7, <3>2 DEF InDelayed
    <3>4. Pending(o)' <=> Pending(o)
      BY <1>2, <3>3 DEF Pending, InDue
    <3> QED BY <1>2, <1>7, <2>1, <3>1, <3>4, Untouched
  <2> QED BY <1>2, <2>2, <2>3
<1> QED BY <1>5, <1>6, <1>7 DEF Contract!Accept, Same

(* tryPopReady is the contract's Deliver.                                  *)
LEMMA TryPopDelivers ==
    ASSUME Inv, Inv', NEW c \in Consumers, TryPop(c)
    PROVE  \E m \in Messages : Contract!Deliver(m)
<1> DEFINE x == Head(ready[ctopic[c]])
           e == [id |-> x.id, attempt |-> x.attempt, deadline |-> now + Visibility]
<1>1. PICK t \in Queues : t = ctopic[c] /\ ready[t] # <<>>
  BY DEF Inv, TypeOK, TryPop, ConsumerAt
<1>2. /\ ready' = [ready EXCEPT ![t] = Tail(@)]
      /\ inflight' = [inflight EXCEPT ![t] = {f \in @ : f.id # x.id} \cup {e}]
      /\ UNCHANGED <<delayed, gdue, used>>
  BY <1>1 DEF TryPop, gVars
<1>3. ready[t] \in Seq(Message)
  BY DEF Inv, TypeOK
<1>4. /\ x = ready[t][1] /\ 1 \in DOMAIN ready[t] /\ x \in Message
      /\ \A i \in DOMAIN Tail(ready[t]) : /\ i + 1 \in DOMAIN ready[t]
                                          /\ Tail(ready[t])[i] = ready[t][i + 1]
      /\ \A i \in DOMAIN ready[t] : i # 1 => /\ i - 1 \in DOMAIN Tail(ready[t])
                                             /\ Tail(ready[t])[i - 1] = ready[t][i]
  BY <1>1, <1>3
<1>5. e.id = x.id /\ e.attempt = x.attempt
  OBVIOUS
<1>6. PICK m \in Messages : m = x.id
  BY <1>4 DEF Message
<1> HIDE DEF x, e
<1>7. PlaceOf(m) = "waiting" /\ AttemptOf(m) = x.attempt
  BY <1>4, <1>6, PlaceFactsHold DEF PlaceFacts, ReadyFact
<1>8. PlaceOf(m)' = "leased" /\ AttemptOf(m)' = x.attempt
  <2>1. e \in inflight'[t]
    BY <1>2 DEF Inv, TypeOK
  <2> QED BY <1>5, <1>6, <2>1, PlaceFactsNext DEF PlaceFacts, LeasedFact
<1>9. ASSUME NEW o \in Messages, o # m PROVE Same(o)
  <2>1. Held(o)' = Held(o)
    <3>1. PICK S : S = {f \in inflight[t] : f.id # x.id} \cup {e}
      OBVIOUS
    <3>2. inflight' = [inflight EXCEPT ![t] = S]
      BY <1>2, <3>1
    <3>3. \A f : f.id = o => (f \in S <=> f \in inflight[t])
      BY <1>5, <1>6, <1>9, <3>1
    <3> QED BY <3>2, <3>3, HeldOthers
  <2>2. \A u \in Queues : ready'[u] = IF u = t THEN Tail(ready[u]) ELSE ready[u]
    BY <1>2 DEF Inv, TypeOK
  <2>3. \A y : y \in Queued(o)' => y \in Queued(o)
    <3> SUFFICES ASSUME NEW u \in Queues, NEW i \in DOMAIN ready'[u], ready'[u][i].id = o
                 PROVE  \E j \in DOMAIN ready[u] : ready[u][j] = ready'[u][i]
      BY DEF Queued
    <3>1. CASE u # t
      BY <2>2, <3>1
    <3>2. CASE u = t
      <4>1. i \in DOMAIN Tail(ready[t]) /\ ready'[u][i] = Tail(ready[t])[i]
        BY <2>2, <3>2
      <4>2. i + 1 \in DOMAIN ready[u] /\ ready[u][i + 1] = ready'[u][i]
        BY <1>4, <3>2, <4>1
      <4> QED BY <4>2
    <3> QED BY <3>1, <3>2
  <2>4. \A y : y \in Queued(o) => y \in Queued(o)'
    <3> SUFFICES ASSUME NEW u \in Queues, NEW i \in DOMAIN ready[u], ready[u][i].id = o
                 PROVE  \E j \in DOMAIN ready'[u] : ready'[u][j] = ready[u][i]
      BY DEF Queued
    <3>1. CASE u # t
      BY <2>2, <3>1
    <3>2. CASE u = t
      <4>1. i # 1
        BY <1>4, <1>6, <1>9, <3>2
      <4>2. ready'[u] = Tail(ready[t])
        BY <2>2, <3>2
      <4>3. i - 1 \in DOMAIN ready'[u] /\ ready'[u][i - 1] = ready[u][i]
        BY <1>4, <3>2, <4>1, <4>2
      <4> QED BY <4>3
    <3> QED BY <3>1, <3>2
  <2>5. Queued(o)' = Queued(o)
    BY <2>3, <2>4
  <2>6. Pending(o)' <=> Pending(o)
    BY <1>2 DEF Pending, InDelayed, InDue
  <2> QED BY <1>2, <2>1, <2>5, <2>6, Untouched
<1>10. Contract!Deliver(m)
  BY <1>7, <1>8, <1>9 DEF Contract!Deliver, Same
<1> QED BY <1>10

(* The leases E of topic t end, and their messages are appended, as r, to  *)
(* the ready list with the attempt raised.                                 *)
BackInReady(t, E, r) ==
    /\ E \subseteq inflight[t]
    /\ r \in Seq(Message)
    /\ ready' = [ready EXCEPT ![t] = @ \o r]
    /\ inflight' = [inflight EXCEPT ![t] = @ \ E]
    /\ \A e \in E : \E i \in DOMAIN r : r[i].id = e.id /\ r[i].attempt = e.attempt + 1
    /\ \A i \in DOMAIN r : \E e \in E : r[i].id = e.id
    /\ UNCHANGED <<delayed, gdue, used>>

(* That is the contract's Return.                                          *)
LEMMA BackInReadyReturns ==
    ASSUME Inv, Inv', NEW t \in Queues, NEW E, NEW r, BackInReady(t, E, r)
    PROVE  \E S \in SUBSET Messages : Contract!Return(S)
<1> USE DEF BackInReady
<1> DEFINE S == {e.id : e \in E}
<1>0. PICK R : R = S
  OBVIOUS
<1>1. R \subseteq Messages
  BY <1>0 DEF Inv, TypeOK, Lease
<1>2. ASSUME NEW m \in Messages, m \in R
      PROVE  /\ PlaceOf(m) = "leased" /\ PlaceOf(m)' = "waiting"
             /\ AttemptOf(m)' = AttemptOf(m) + 1
  <2>1. PICK e \in E : e.id = m
    BY <1>0, <1>2
  <2>2. PlaceOf(m) = "leased" /\ AttemptOf(m) = e.attempt
    BY <2>1, PlaceFactsHold DEF PlaceFacts, LeasedFact
  <2>3. PICK i \in DOMAIN r : r[i].id = e.id /\ r[i].attempt = e.attempt + 1
    OBVIOUS
  <2>4. ready[t] \in Seq(Message) /\ ready'[t] = ready[t] \o r
    BY DEF Inv, TypeOK
  <2>5. PICK j \in DOMAIN ready'[t] : ready'[t][j] = r[i]
    <3>1. \E j \in DOMAIN (ready[t] \o r) : (ready[t] \o r)[j] = r[i]
      BY <2>4, ConcatHas
    <3> QED BY <2>4, <3>1
  <2>6. ReadyFact(m)'
    BY PlaceFactsNext DEF PlaceFacts
  <2>7. PlaceOf(m)' = "waiting" /\ AttemptOf(m)' = ready'[t][j].attempt
    BY <2>1, <2>3, <2>5, <2>6 DEF ReadyFact
  <2> QED BY <2>2, <2>3, <2>5, <2>7
<1>3. ASSUME NEW m \in Messages, m \notin R PROVE Same(m)
  <2>1. \A i \in DOMAIN r : r[i].id # m
    BY <1>0, <1>3
  <2>2. Queued(m)' = Queued(m)
    BY <2>1, QueuedGrows
  <2>3. Held(m)' = Held(m)
    <3>1. PICK L : L = inflight[t] \ E
      OBVIOUS
    <3>2. inflight' = [inflight EXCEPT ![t] = L]
      BY <3>1
    <3>3. \A f : f.id = m => (f \in L <=> f \in inflight[t])
      BY <1>0, <1>3, <3>1
    <3> QED BY <3>2, <3>3, HeldOthers
  <2>4. Pending(m)' <=> Pending(m)
    BY DEF Pending, InDelayed, InDue
  <2> QED BY <2>2, <2>3, <2>4, Untouched
<1> HIDE DEF S
<1>4. Contract!Return(R)
  BY <1>1, <1>2, <1>3 DEF Contract!Return, Same
<1> QED BY <1>1, <1>4

(* reclaimExpired is the contract's Return of all the lapsed leases.       *)
LEMMA ReclaimReturns ==
    ASSUME Inv, Inv', NEW c \in Consumers, Reclaim(c)
    PROVE  \E S \in SUBSET Messages : Contract!Return(S)
<1>1. PICK t \in Queues : t = ctopic[c]
  BY DEF Inv, TypeOK, Reclaim, ConsumerAt
<1>2. PICK s \in Orderings(Lapsed(t)) :
        ready' = [ready EXCEPT ![t] = @ \o [i \in 1..Len(s) |-> reclaimEntry(s[i])]]
  BY <1>1 DEF Reclaim
<1> DEFINE r == [i \in 1..Len(s) |-> reclaimEntry(s[i])]
<1>3. Lapsed(t) \subseteq inflight[t] /\ inflight[t] \subseteq Lease
  BY DEF Lapsed, HeapLapsed, Inv, TypeOK
<1>4. s \in Seq(Lapsed(t)) /\ \A e \in Lapsed(t) : \E i \in 1..Len(s) : s[i] = e
  <2>1. IsFiniteSet(Lapsed(t))
    BY <1>3, FS_Subset DEF Inv, FiniteLists
  <2> QED BY <2>1, OrderingsSeq
<1>5. \A i \in 1..Len(s) : /\ s[i] \in Lapsed(t)
                           /\ reclaimEntry(s[i]) \in Message
                           /\ reclaimEntry(s[i]).id = s[i].id
                           /\ reclaimEntry(s[i]).attempt = s[i].attempt + 1
  BY <1>3, <1>4 DEF reclaimEntry, Lease, Message
<1>6. /\ r \in Seq(Message)
      /\ DOMAIN r = 1..Len(s)
      /\ \A i \in 1..Len(s) : r[i] = reclaimEntry(s[i])
  BY <1>4, <1>5
<1>7. /\ ready' = [ready EXCEPT ![t] = @ \o r]
      /\ inflight' = [inflight EXCEPT ![t] = @ \ Lapsed(t)]
      /\ UNCHANGED <<delayed, gdue, used>>
  BY <1>1, <1>2 DEF Reclaim, gVars, histVars
<1> HIDE DEF r
<1>8. /\ \A e \in Lapsed(t) : \E i \in DOMAIN r :
            r[i].id = e.id /\ r[i].attempt = e.attempt + 1
      /\ \A i \in DOMAIN r : \E e \in Lapsed(t) : r[i].id = e.id
  BY <1>4, <1>5, <1>6
<1>9. BackInReady(t, Lapsed(t), r)
  BY <1>3, <1>6, <1>7, <1>8 DEF BackInReady
<1> QED BY <1>9, BackInReadyReturns

(* Nack with requeue is the contract's Return of the one lease it holds.   *)
LEMMA RequeueReturns ==
    ASSUME Inv, Inv', NEW c \in Consumers, Requeue(c)
    PROVE  (\E S \in SUBSET Messages : Contract!Return(S))
<1>1. PICK t \in Queues : t = ctopic[c]
  BY DEF Inv, TypeOK, Requeue, ConsumerAt
<1>2. /\ ready' = [ready EXCEPT ![t] = @ \o Requeued(c)]
      /\ inflight' = [inflight EXCEPT ![t] = @ \ Settled(c)]
      /\ UNCHANGED <<delayed, gdue, used>>
  BY <1>1 DEF Requeue, gVars, histVars
<1>3. /\ Requeued(c) \in Seq(Message)
      /\ \A e \in Settled(c) : \E i \in DOMAIN Requeued(c) :
            Requeued(c)[i].id = e.id /\ Requeued(c)[i].attempt = e.attempt + 1
      /\ \A i \in DOMAIN Requeued(c) : \E e \in Settled(c) : Requeued(c)[i].id = e.id
  <2>1. CASE Settled(c) = {}
    BY <2>1 DEF Requeued
  <2>2. CASE Settled(c) # {}
    <3> DEFINE q == [id |-> cmsg[c].id, attempt |-> cmsg[c].attempt + 1]
    <3>1. PICK e \in inflight[t] : /\ e \in Settled(c)
                                   /\ e.id = cmsg[c].id /\ e.attempt = cmsg[c].attempt
      BY <1>1, <2>2 DEF Settled
    <3>2. \A f \in Settled(c) : f = e
      BY <1>1, <3>1 DEF Settled, Inv, OneLease
    <3>3. e.id \in Messages /\ e.attempt \in Nat
      <4>1. e \in Lease
        BY DEF Inv, TypeOK
      <4> QED BY <4>1 DEF Lease
    <3>4. q \in Message /\ q.id = e.id /\ q.attempt = e.attempt + 1
      BY <3>1, <3>3 DEF Message
    <3>5. Requeued(c) = <<q>>
      BY <2>2 DEF Requeued
    <3> HIDE DEF q
    <3>6. 1 \in DOMAIN <<q>> /\ <<q>>[1] = q /\ \A i \in DOMAIN <<q>> : <<q>>[i] = q
      OBVIOUS
    <3>7. <<q>> \in Seq(Message)
      BY <3>4
    <3> QED BY <3>1, <3>2, <3>4, <3>5, <3>6, <3>7
  <2> QED BY <2>1, <2>2
<1>4. BackInReady(t, Settled(c), Requeued(c))
  BY <1>1, <1>2, <1>3 DEF BackInReady, Settled
<1> QED BY <1>4, BackInReadyReturns

(* Ack, and Nack without requeue, are the contract's Remove of the lease   *)
(* they hold, or nothing to it when they hold none any more.               *)
LEMMA RemoveRemoves ==
    ASSUME Inv, Inv', NEW c \in Consumers, Remove(c)
    PROVE  \/ \E m \in Messages : Contract!Remove(m)
           \/ UNCHANGED Contract!contractVars
<1>1. PICK t \in Queues : t = ctopic[c]
  BY DEF Inv, TypeOK, Remove, ConsumerAt
<1>2. /\ inflight' = [inflight EXCEPT ![t] = @ \ Settled(c)]
      /\ UNCHANGED <<ready, delayed, gdue, used>>
  BY <1>1 DEF Remove, gVars, histVars
<1>3. ASSUME NEW m \in Messages, \A e \in Settled(c) : e.id # m PROVE Same(m)
  <2>1. Queued(m)' = Queued(m)
    BY <1>2 DEF Queued
  <2>2. Held(m)' = Held(m)
    <3>1. PICK L : L = inflight[t] \ Settled(c)
      OBVIOUS
    <3>2. inflight' = [inflight EXCEPT ![t] = L]
      BY <1>2, <3>1
    <3>3. \A f : f.id = m => (f \in L <=> f \in inflight[t])
      BY <1>3, <3>1
    <3> QED BY <3>2, <3>3, HeldOthers
  <2>3. Pending(m)' <=> Pending(m)
    BY <1>2 DEF Pending, InDelayed, InDue
  <2> QED BY <1>2, <2>1, <2>2, <2>3, Untouched
<1>4. CASE Settled(c) = {}
  BY <1>3, <1>4 DEF Contract!contractVars, Same
<1>5. ASSUME NEW e \in Settled(c) PROVE \E m \in Messages : Contract!Remove(m)
  <2>1. e \in inflight[t] /\ e \in Settled(c) /\ \A f \in Settled(c) : f = e
    BY <1>1, <1>5 DEF Settled, Inv, OneLease
  <2>2. PICK m \in Messages : m = e.id
    BY <2>1, HeldAlone
  <2>3. /\ Held(m) = {e} /\ Queued(m) = {} /\ ~Pending(m) /\ m \in used
    BY <2>1, <2>2, HeldAlone
  <2>4. PlaceOf(m) = "leased"
    BY <2>1, <2>2, PlaceFactsHold DEF PlaceFacts, LeasedFact
  <2>5. \A u \in Queues : inflight'[u] \subseteq inflight[u] /\ (u = t => e \notin inflight'[u])
    BY <1>2, <2>1 DEF Inv, TypeOK
  <2>6. Held(m)' = {}
    <3>1. \A u \in Queues : \A f \in inflight[u] : f.id = m => f = e /\ u = t
      <4> SUFFICES ASSUME NEW u \in Queues, NEW f \in inflight[u], f.id = m
                   PROVE  f = e /\ u = t
        OBVIOUS
      <4>1. f \in Held(m)
        BY DEF Held
      <4>2. m \in LI(u) /\ m \in LI(t)
        BY <2>1, <2>2 DEF LI
      <4> QED BY <2>3, <4>1, <4>2 DEF Inv, Apart
    <3> QED BY <2>5, <3>1 DEF Held
  <2>7. Queued(m)' = {} /\ ~Pending(m)' /\ m \in used'
    BY <1>2, <2>3 DEF Queued, Pending, InDelayed, InDue
  <2>8. PlaceOf(m)' = "gone" /\ AttemptOf(m)' = 0
    BY <2>6, <2>7, PlaceFactsNext DEF PlaceFacts, GoneFact
  <2>9. \A o \in Messages : o # m => Same(o)
    BY <1>3, <2>1, <2>2
  <2>10. Contract!Remove(m)
    BY <2>4, <2>8, <2>9 DEF Contract!Remove, Same
  <2> QED BY <2>10
<1> QED BY <1>4, <1>5

(* The promoter's collectDue is nothing to the contract: the message goes  *)
(* from the heap to the promoter's hands, and waits throughout.            *)
LEMMA CollectIsSilent ==
    ASSUME Inv, NEW g \in Promoters, Collect(g)
    PROVE  UNCHANGED Contract!contractVars
<1>1. PICK t \in Queues : t = gtopic[g]
  BY DEF Inv, TypeOK, Collect, PromoterAt
<1>2. /\ delayed' = [delayed EXCEPT ![t] = NotDue(t)]
      /\ gdue' = [gdue EXCEPT ![g] = Due(t)]
      /\ UNCHANGED <<ready, inflight, used>>
  BY <1>1 DEF Collect, histVars
<1>3. gdue[g] = {}
  BY DEF Collect, PromoterAt, Inv, HandsFull
<1>4. NotDue(t) \cup Due(t) = delayed[t]
  BY DEF NotDue, Due
<1>5. /\ \A u \in Queues : delayed'[u] = IF u = t THEN NotDue(t) ELSE delayed[u]
      /\ \A h \in Promoters : gdue'[h] = IF h = g THEN Due(t) ELSE gdue[h]
  BY <1>2 DEF Inv, TypeOK
<1>6. ASSUME NEW m \in Messages PROVE Same(m)
  <2>1. Held(m)' = Held(m) /\ Queued(m)' = Queued(m)
    BY <1>2 DEF Held, Queued
  <2>2. Pending(m)' => Pending(m)
    BY <1>4, <1>5 DEF Pending, InDelayed, InDue
  <2>3. Pending(m) => Pending(m)'
    BY <1>3, <1>4, <1>5 DEF Pending, InDelayed, InDue
  <2> QED BY <1>2, <2>1, <2>2, <2>3, Untouched
<1> QED BY <1>6 DEF Contract!contractVars, Same

(* appendDue is nothing to it either: the message goes to the ready list,  *)
(* under its first attempt.                                                *)
LEMMA AppendIsSilent ==
    ASSUME Inv, Inv', NEW g \in Promoters, AppendDue(g)
    PROVE  UNCHANGED Contract!contractVars
<1>1. PICK t \in Queues : t = gtopic[g]
  BY DEF Inv, TypeOK, AppendDue, PromoterAt
<1>2. PICK s \in Orderings(gdue[g]) :
        ready' = [ready EXCEPT ![t] = @ \o
                     [i \in 1..Len(s) |-> [id |-> s[i].id, attempt |-> 1]]]
  BY <1>1 DEF AppendDue
<1> DEFINE r == [i \in 1..Len(s) |-> [id |-> s[i].id, attempt |-> 1]]
<1>3. /\ s \in Seq(gdue[g]) /\ gdue[g] \subseteq Delayed
      /\ \A e \in gdue[g] : \E i \in 1..Len(s) : s[i] = e
  <2>1. IsFiniteSet(gdue[g]) /\ gdue[g] \subseteq Delayed
    BY DEF Inv, FiniteLists, TypeOK
  <2> QED BY <2>1, OrderingsSeq
<1>4. \A i \in 1..Len(s) : /\ s[i] \in gdue[g]
                           /\ [id |-> s[i].id, attempt |-> 1] \in Message
  <2>1. \A i \in 1..Len(s) : s[i] \in gdue[g]
    BY <1>3
  <2>2. \A e \in gdue[g] : e.id \in Messages
    BY <1>3 DEF Delayed
  <2> QED BY <2>1, <2>2 DEF Message
<1>5. /\ r \in Seq(Message)
      /\ DOMAIN r = 1..Len(s)
      /\ \A i \in 1..Len(s) : r[i].id = s[i].id /\ r[i].attempt = 1
  BY <1>3, <1>4
<1>6. /\ ready' = [ready EXCEPT ![t] = @ \o r]
      /\ gdue' = [gdue EXCEPT ![g] = {}]
      /\ UNCHANGED <<delayed, inflight, used>>
  BY <1>2 DEF AppendDue, histVars
<1> HIDE DEF r
<1>7. ASSUME NEW e \in gdue[g], NEW m \in Messages, m = e.id PROVE Same(m)
  <2>1. Pending(m)
    BY <1>7 DEF Pending, InDue
  <2>2. PICK i \in DOMAIN r : r[i].id = m /\ r[i].attempt = 1
    BY <1>3, <1>5, <1>7
  <2>3. ready[t] \in Seq(Message) /\ ready'[t] = ready[t] \o r
    BY <1>6 DEF Inv, TypeOK
  <2>4. PICK j \in DOMAIN ready'[t] : ready'[t][j] = r[i]
    <3>1. \E j \in DOMAIN (ready[t] \o r) : (ready[t] \o r)[j] = r[i]
      BY <1>5, <2>3, ConcatHas
    <3> QED BY <2>3, <3>1
  <2>5. PlaceOf(m) = "waiting" /\ AttemptOf(m) = 1
    BY <2>1, PlaceFactsHold DEF PlaceFacts, PendingFact
  <2>6. PlaceOf(m)' = "waiting" /\ AttemptOf(m)' = 1
    BY <2>2, <2>4, PlaceFactsNext DEF PlaceFacts, ReadyFact
  <2> QED BY <2>5, <2>6 DEF Same
<1>8. ASSUME NEW m \in Messages, \A e \in gdue[g] : e.id # m PROVE Same(m)
  <2>1. \A i \in DOMAIN r : r[i].id # m
    BY <1>4, <1>5, <1>8
  <2>2. Queued(m)' = Queued(m)
    BY <1>5, <1>6, <2>1, QueuedGrows
  <2>3. Held(m)' = Held(m)
    BY <1>6 DEF Held
  <2>4. \A h \in Promoters : gdue'[h] = IF h = g THEN {} ELSE gdue[h]
    BY <1>6 DEF Inv, TypeOK
  <2>5. Pending(m)' <=> Pending(m)
    BY <1>6, <1>8, <2>4 DEF Pending, InDelayed, InDue
  <2> QED BY <1>6, <2>2, <2>3, <2>5, Untouched
<1>9. \A m \in Messages : Same(m)
  BY <1>7, <1>8
<1> QED BY <1>9 DEF Contract!contractVars, Same

(* Every step of the adapter is a step of the contract or nothing to it.   *)
LEMMA KeepsContractStep ==
    Inv /\ Inv' /\ [Next]_vars => [Contract!Next]_(Contract!contractVars)
<1> SUFFICES ASSUME Inv, Inv', [Next]_vars
             PROVE  Contract!Next \/ UNCHANGED Contract!contractVars
  OBVIOUS
<1>1. CASE UNCHANGED places
  <2>1. ASSUME NEW m \in Messages PROVE Same(m)
    <3>1. Held(m)' = Held(m) /\ Queued(m)' = Queued(m) /\ (Pending(m)' <=> Pending(m))
      BY <1>1 DEF places, Held, Queued, Pending, InDelayed, InDue
    <3> QED BY <1>1, <3>1, Untouched DEF places
  <2> QED BY <2>1 DEF Contract!contractVars, Same
<1>2. ASSUME NEW p \in Producers, NEW m \in Messages, Enqueue(p, m)
      PROVE  Contract!Next
  BY <1>2, EnqueueAccepts DEF Contract!Next
<1>3. ASSUME NEW c \in Consumers, TryPop(c) PROVE Contract!Next
  BY <1>3, TryPopDelivers DEF Contract!Next
<1>4. ASSUME NEW c \in Consumers, Reclaim(c) PROVE Contract!Next
  BY <1>4, ReclaimReturns DEF Contract!Next
<1>5. ASSUME NEW c \in Consumers, Requeue(c) PROVE Contract!Next
  BY <1>5, RequeueReturns DEF Contract!Next
<1>6. ASSUME NEW c \in Consumers, Remove(c)
      PROVE  Contract!Next \/ UNCHANGED Contract!contractVars
  BY <1>6, RemoveRemoves DEF Contract!Next
<1>7. ASSUME NEW g \in Promoters, Collect(g) \/ AppendDue(g)
      PROVE  UNCHANGED Contract!contractVars
  BY <1>7, CollectIsSilent, AppendIsSilent
<1> QED BY <1>1, <1>2, <1>3, <1>4, <1>5, <1>6, <1>7, Frame DEF MovesMessages

(* The in-memory queue implements the queue contract: every critical       *)
(* section of Push, Pop, Ack, Nack, reclaimExpired and the promoter is one *)
(* step of it or none.                                                     *)
THEOREM MemoryQueueRefines == Spec => KeepsContract
<1>1. Init => Contract!Init
  BY DEF Init, Contract!Init, PlaceOf, AttemptOf
<1>2. Inv /\ Inv' /\ [Next]_vars => [Contract!Next]_(Contract!contractVars)
  BY KeepsContractStep
<1> QED
  BY <1>1, <1>2, InvInit, InvStep, PTL DEF Spec, KeepsContract, Contract!Spec

=============================================================================
