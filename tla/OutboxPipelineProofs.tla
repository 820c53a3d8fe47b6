---------------------- MODULE OutboxPipelineProofs -----------------------
(***************************************************************************)
(* The outbox relay, the inbox and the pipeline of both, for any number of *)
(* messages, replicas, consumers and faults, and any timing.  Of the relay *)
(* alone: its types, that no message leaves the table undelivered, that    *)
(* late outcomes do not disturb a settled row, and what prompt relays add. *)
(***************************************************************************)
EXTENDS OutboxPipeline, TLAPS

(* A relay about to record success holds a message the transport accepted. *)
OkWasPublished ==
    \A r \in Relays : phase[r] = "ok" =>
        \A c \in current[r] : published[c.id] > 0

Inv == TypeOK /\ OkWasPublished /\ NoSilentLoss

(* The empty table and the relays that were just opened.                   *)
LEMMA InvInit == Init => Inv
BY RelayAssumption
   DEF Init, Inv, TypeOK, OkWasPublished, NoSilentLoss, Statuses, Phases,
       Claims, Free

(* Raising one counter leaves a vector of counters one, and lowers none.   *)
LEMMA Raised ==
    ASSUME NEW f \in [Messages -> Nat], NEW m \in Messages, NEW d \in Nat
    PROVE  /\ [f EXCEPT ![m] = @ + d] \in [Messages -> Nat]
           /\ \A n \in Messages : [f EXCEPT ![m] = @ + d][n] >= f[n]
OBVIOUS

(* Every step keeps the types.                                             *)
LEMMA TypeOKStep == TypeOK /\ [Next]_vars => TypeOK'
<1> SUFFICES ASSUME TypeOK, [Next]_vars PROVE TypeOK'
  OBVIOUS
<1> USE RelayAssumption
        DEF TypeOK, Statuses, Phases, Claims, Free, rowVars, relayVars,
            historyVars, boundVars
<1>1. ASSUME NEW m \in Messages, Record(m) PROVE TypeOK'
  BY <1>1 DEF Record
<1>2. ASSUME NEW r \in Relays, SetPublisher(r) PROVE TypeOK'
  BY <1>2 DEF SetPublisher
<1>3. ASSUME NEW r \in Relays, Start(r) PROVE TypeOK'
  BY <1>3 DEF Start
<1>4. ASSUME NEW r \in Relays, LoopExit(r) PROVE TypeOK'
  BY <1>4 DEF LoopExit
<1>5. ASSUME NEW r \in Relays, Restart(r) PROVE TypeOK'
  BY <1>5 DEF Restart
<1>6. ASSUME NEW r \in Relays, Claim(r) PROVE TypeOK'
  BY <1>6 DEF Claim, ClaimRows, Batches, Due
<1>7. ASSUME NEW r \in Relays, Deliver(r) PROVE TypeOK'
  <2>1. PICK a \in BOOLEAN, w \in {"ok", "error"} : Publish(r, a, w)
    BY <1>7 DEF Deliver
  <2>2. PICK c \in batch[r] :
          /\ batch' = [batch EXCEPT ![r] = @ \ {c}]
          /\ current' = [current EXCEPT ![r] = {c}]
          /\ published' = [published EXCEPT ![c.id] = @ + IF a THEN 1 ELSE 0]
          /\ unrecorded' = [unrecorded EXCEPT ![c.id] = @ + (faults' - faults)]
    BY <2>1 DEF Publish
  <2>3. c \in Claims /\ c.id \in Messages
    BY <2>2
  <2>4. faults' \in 0..MaxFaults /\ faults' - faults \in Nat
    BY <2>1 DEF Publish
  <2>5. /\ published' \in [Messages -> Nat]
        /\ unrecorded' \in [Messages -> Nat]
    <3>1. published' \in [Messages -> Nat]
      BY <2>2, <2>3, Raised
    <3>2. unrecorded' \in [Messages -> Nat]
      BY <2>2, <2>3, <2>4, Raised
    <3> QED BY <3>1, <3>2
  <2>6. UNCHANGED <<status, attempts, lockedUntil, age, publisher, cancelled,
                    admin>>
    BY <2>1 DEF Publish
  <2>7. phase' = [phase EXCEPT ![r] = w] /\ phase[r] = "batch"
    BY <2>1 DEF Publish
  <2>8. \A q \in Relays :
          /\ phase'[q] \in {"new", "idle", "stopped"} => batch'[q] = {}
          /\ phase'[q] \notin {"ok", "error"} => current'[q] = {}
          /\ phase'[q] \in {"ok", "error"} =>
                \E k \in current'[q] : current'[q] = {k}
    BY <2>1, <2>2, <2>7
  <2>9. /\ batch' \in [Relays -> SUBSET Claims]
        /\ current' \in [Relays -> SUBSET Claims]
        /\ phase' \in [Relays -> Phases]
    BY <2>1, <2>2, <2>3, <2>7
  <2> QED BY <2>4, <2>5, <2>6, <2>8, <2>9
<1>8. ASSUME NEW r \in Relays, BatchDropped(r) PROVE TypeOK'
  BY <1>8 DEF BatchDropped, Forgotten
<1>9. ASSUME NEW r \in Relays, Mark(r) PROVE TypeOK'
  BY <1>9 DEF Mark, Outcome, markProcessed, markFailed, markRetry
<1>10. ASSUME NEW r \in Relays, Cleanup(r) PROVE TypeOK'
  BY <1>10 DEF Cleanup, Purged
<1>11. ASSUME NEW r \in Relays, Close(r) PROVE TypeOK'
  BY <1>11 DEF Close
<1>12. ASSUME NEW r \in Relays, Crash(r) PROVE TypeOK'
  BY <1>12 DEF Crash, Forgotten
<1>13. ASSUME NEW r \in Relays, ClaimLost(r) PROVE TypeOK'
  BY <1>13 DEF ClaimLost, ClaimRows
<1>14. ASSUME NEW r \in Relays, MarkLost(r) PROVE TypeOK'
  BY <1>14 DEF MarkLost, Forgotten
<1>15. CASE AdminNext
  <2>1. ASSUME NEW S, Requeue(S) PROVE TypeOK'
    BY <2>1 DEF Requeue, AdminStep
  <2>2. ASSUME NEW m \in Messages, Delete(m) PROVE TypeOK'
    BY <2>2 DEF Delete, AdminStep
  <2>3. ASSUME NEW t \in -1..Retention, Purge(t) PROVE TypeOK'
    BY <2>3 DEF Purge, AdminStep, Purged
  <2> QED BY <1>15, <2>1, <2>2, <2>3 DEF AdminNext, RequeueOne, RequeueAll
<1>16. CASE Tick
  BY <1>16 DEF Tick
<1>17. CASE UNCHANGED vars
  BY <1>17 DEF vars
<1> QED
  BY <1>1, <1>2, <1>3, <1>4, <1>5, <1>6, <1>7, <1>8, <1>9, <1>10, <1>11,
     <1>12, <1>13, <1>14, <1>15, <1>16, <1>17
     DEF Next, RelayStep, FaultStep

(* Every step keeps the accepted message behind a pending success, and     *)
(* behind every row that is processed or purged.                           *)
LEMMA LossStep == Inv /\ [Next]_vars => OkWasPublished' /\ NoSilentLoss'
<1> SUFFICES ASSUME Inv, [Next]_vars PROVE OkWasPublished' /\ NoSilentLoss'
  OBVIOUS
<1> USE DEF Inv, TypeOK, Claims, OkWasPublished, NoSilentLoss, rowVars,
            relayVars, historyVars, boundVars
<1>1. ASSUME NEW m \in Messages, Record(m)
      PROVE OkWasPublished' /\ NoSilentLoss'
  BY <1>1 DEF Record
<1>2. ASSUME NEW r \in Relays,
             \/ SetPublisher(r) \/ Start(r) \/ LoopExit(r) \/ Restart(r)
             \/ BatchDropped(r) \/ Close(r) \/ Crash(r) \/ MarkLost(r)
      PROVE OkWasPublished' /\ NoSilentLoss'
  BY <1>2 DEF SetPublisher, Start, LoopExit, Restart, BatchDropped, Close,
              Crash, MarkLost
<1>3. ASSUME NEW r \in Relays, Claim(r) \/ ClaimLost(r)
      PROVE OkWasPublished' /\ NoSilentLoss'
  BY <1>3 DEF Claim, ClaimLost, ClaimRows
<1>4. ASSUME NEW r \in Relays, Deliver(r)
      PROVE OkWasPublished' /\ NoSilentLoss'
  <2>1. PICK a \in BOOLEAN, w \in {"ok", "error"} : Publish(r, a, w)
    BY <1>4 DEF Deliver
  <2>2. PICK c \in batch[r] :
          /\ current' = [current EXCEPT ![r] = {c}]
          /\ published' = [published EXCEPT ![c.id] = @ + IF a THEN 1 ELSE 0]
    BY <2>1 DEF Publish
  <2>3. c.id \in Messages
    BY <2>2
  <2>4. /\ published' \in [Messages -> Nat]
        /\ \A m \in Messages : published'[m] >= published[m]
    BY <2>2, <2>3, Raised
  <2>5. w = "ok" => published'[c.id] > 0
    BY <2>1, <2>2, <2>3 DEF Publish
  <2>6. status' = status /\ phase' = [phase EXCEPT ![r] = w]
    BY <2>1 DEF Publish
  <2>7. NoSilentLoss'
    BY <2>4, <2>6
  <2>8. OkWasPublished'
    BY <2>2, <2>3, <2>4, <2>5, <2>6
  <2> QED BY <2>7, <2>8
<1>5. ASSUME NEW r \in Relays, Mark(r)
      PROVE OkWasPublished' /\ NoSilentLoss'
  BY <1>5 DEF Mark, Outcome, markProcessed, markFailed, markRetry
<1>6. ASSUME NEW r \in Relays, Cleanup(r)
      PROVE OkWasPublished' /\ NoSilentLoss'
  BY <1>6 DEF Cleanup, Purged, OlderThan
<1>7. CASE AdminNext
  <2>1. ASSUME NEW S, Requeue(S) PROVE OkWasPublished' /\ NoSilentLoss'
    BY <2>1 DEF Requeue
  <2>2. ASSUME NEW m \in Messages, Delete(m)
        PROVE OkWasPublished' /\ NoSilentLoss'
    BY <2>2 DEF Delete
  <2>3. ASSUME NEW t \in -1..Retention, Purge(t)
        PROVE OkWasPublished' /\ NoSilentLoss'
    BY <2>3 DEF Purge, Purged, OlderThan
  <2> QED BY <1>7, <2>1, <2>2, <2>3 DEF AdminNext, RequeueOne, RequeueAll
<1>8. CASE Tick \/ UNCHANGED vars
  BY <1>8 DEF Tick, vars
<1> QED
  BY <1>1, <1>2, <1>3, <1>4, <1>5, <1>6, <1>7, <1>8
     DEF Next, RelayStep, FaultStep

(* Only a relay's mark, a cleanup and the operator change a recorded row's *)
(* status, and the marks leave a settled row alone.                        *)
LEMMA SettledStep ==
    ASSUME TypeOK, [Next]_vars, NEW m \in Messages
    PROVE  /\ status[m] = "processed" =>
                 status'[m] \in {"processed", "purged", "deleted"}
           /\ status[m] = "failed" =>
                 status'[m] = "failed" \/ admin' = admin + 1
<1> DEFINE Goal == /\ status[m] = "processed" =>
                         status'[m] \in {"processed", "purged", "deleted"}
                   /\ status[m] = "failed" =>
                         status'[m] = "failed" \/ admin' = admin + 1
<1> USE DEF TypeOK, Claims, rowVars, relayVars, historyVars, boundVars
<1>1. ASSUME NEW n \in Messages, Record(n) PROVE Goal
  BY <1>1 DEF Record
<1>2. ASSUME NEW r \in Relays,
             \/ SetPublisher(r) \/ Start(r) \/ LoopExit(r) \/ Restart(r)
             \/ Deliver(r) \/ BatchDropped(r) \/ Close(r) \/ Crash(r)
             \/ MarkLost(r)
      PROVE Goal
  BY <1>2 DEF SetPublisher, Start, LoopExit, Restart, Deliver, Publish,
              BatchDropped, Close, Crash, MarkLost
<1>3. ASSUME NEW r \in Relays, Claim(r) \/ ClaimLost(r) PROVE Goal
  BY <1>3 DEF Claim, ClaimLost, ClaimRows
<1>4. ASSUME NEW r \in Relays, Mark(r) PROVE Goal
  BY <1>4 DEF Mark, StillPending, Outcome, markProcessed, markFailed,
              markRetry
<1>5. ASSUME NEW r \in Relays, Cleanup(r) PROVE Goal
  BY <1>5 DEF Cleanup, Purged, OlderThan
<1>6. CASE AdminNext
  <2>1. ASSUME RequeueAll \/ \E n \in Messages : RequeueOne(n) PROVE Goal
    BY <2>1 DEF RequeueAll, RequeueOne, Requeue, AdminStep, Failed
  <2>2. ASSUME NEW n \in Messages, Delete(n) PROVE Goal
    BY <2>2 DEF Delete, AdminStep
  <2>3. ASSUME NEW t \in -1..Retention, Purge(t) PROVE Goal
    BY <2>3 DEF Purge, AdminStep, Purged, OlderThan
  <2> QED BY <1>6, <2>1, <2>2, <2>3 DEF AdminNext
<1>7. CASE Tick \/ UNCHANGED vars
  BY <1>7 DEF Tick, vars
<1> QED
  BY <1>1, <1>2, <1>3, <1>4, <1>5, <1>6, <1>7 DEF Next, RelayStep, FaultStep

(* Rows, relays and counters always have their types, and a relay holds    *)
(* exactly one claim between Publish and its mark statement.               *)
THEOREM TypeCorrect == Spec => []TypeOK
<1>1. Init => TypeOK
  BY InvInit DEF Inv
<1> QED BY <1>1, TypeOKStep, PTL DEF Spec

(* Whatever relays crash, stall or race, with any batch size, lease and    *)
(* backoff, markProcessed and cleanup never take a message from the table  *)
(* that the transport has not accepted.                                    *)
THEOREM NothingLostSilently == Spec => []NoSilentLoss
<1>1. Inv /\ [Next]_vars => Inv'
  BY TypeOKStep, LossStep DEF Inv
<1>2. Inv => NoSilentLoss
  BY DEF Inv
<1> QED BY InvInit, <1>1, <1>2, PTL DEF Spec

(* The status = 'pending' condition of the mark statements is enough to    *)
(* keep outcomes of lapsed claims from reviving or failing a processed     *)
(* row, or from taking a row out of the dead-letter queue.                 *)
THEOREM SettledRowsStay == Spec => SettledStays
<1>1. TypeOK /\ [Next]_vars =>
        [\A m \in Messages :
            /\ status[m] = "processed" =>
                  status'[m] \in {"processed", "purged", "deleted"}
            /\ status[m] = "failed" =>
                  status'[m] = "failed" \/ admin' = admin + 1]_vars
  BY SettledStep
<1> QED BY TypeCorrect, <1>1, PTL DEF Spec, SettledStays

-----------------------------------------------------------------------------
(* While relays finish within their lease.  The claim of a message is then *)
(* as good as a lock: one relay holds it, the row is pending under a lease *)
(* that has not lapsed (or was deleted by the operator) and the relay's    *)
(* copy of the attempts is current.                                        *)
OneHolder ==
    \A r, q \in Relays : \A c \in Held(r), d \in Held(q) :
        c.id = d.id => r = q /\ c = d

CurrentApart == \A r \in Relays : batch[r] \cap current[r] = {}

HeldLeased ==
    \A r \in Relays : \A c \in Held(r) :
        \/ status[c.id] = "deleted"
        \/ /\ status[c.id] = "pending"
           /\ lockedUntil[c.id] >= 0
           /\ c.attempts = attempts[c.id]

(* One publication of m is accounted for by its row, by a relay about to   *)
(* mark it, or by nobody because the row was deleted.                      *)
Spent(m) ==
    \/ status[m] \in {"processed", "purged"}
    \/ \E r \in Relays : phase[r] = "ok" /\ \E c \in current[r] : c.id = m
    \/ /\ status[m] = "deleted"
       /\ \A r \in Relays : \A c \in batch[r] : c.id # m

PublishCount ==
    \A m \in Messages :
        published[m] <= unrecorded[m] + IF Spent(m) THEN 1 ELSE 0

Unheld(m) == \A r \in Relays : \A c \in Held(r) : c.id # m

(* A pending row nobody holds has an attempt left, or lost one.            *)
AttemptCount ==
    \A m \in Messages :
        /\ attempts[m] <= MaxAttempts + unrecorded[m]
        /\ status[m] = "pending" /\ Unheld(m) =>
              attempts[m] < MaxAttempts + unrecorded[m]

ClaimInv == OneHolder /\ CurrentApart /\ HeldLeased

RaceInv == ClaimInv /\ PublishCount /\ AttemptCount

(* The claims are apart at the start and stay apart.                       *)
LEMMA ClaimStep == Prompt /\ TypeOK /\ ClaimInv /\ [Next]_vars => ClaimInv'
<1> SUFFICES ASSUME Prompt, TypeOK, ClaimInv, [Next]_vars PROVE ClaimInv'
  OBVIOUS
<1> USE RelayAssumption
        DEF TypeOK, Claims, ClaimInv, OneHolder, CurrentApart, HeldLeased,
            Held, rowVars, relayVars, historyVars, boundVars
<1>1. ASSUME NEW m \in Messages, Record(m) PROVE ClaimInv'
  BY <1>1 DEF Record
<1>2. ASSUME NEW r \in Relays,
             SetPublisher(r) \/ Start(r) \/ LoopExit(r) \/ Restart(r)
                \/ Close(r)
      PROVE ClaimInv'
  BY <1>2 DEF SetPublisher, Start, LoopExit, Restart, Close
<1>3. ASSUME NEW r \in Relays, Claim(r) PROVE ClaimInv'
  <2>1. PICK S \in Batches :
          /\ ClaimRows(S)
          /\ batch' = [batch EXCEPT ![r] =
                          {[id |-> m, attempts |-> attempts'[m]] : m \in S}]
    BY <1>3 DEF Claim
  <2>2. S \subseteq Due
    BY <2>1 DEF Batches
  <2>3. \A q \in Relays : \A c \in Held(q) : c.id \notin S
    BY <2>2 DEF Due
  <2>4. /\ current' = current /\ status' = status
        /\ current[r] = {} /\ batch[r] = {}
    BY <1>3, <2>1 DEF Claim, ClaimRows
  <2>5. \A m \in S : /\ lockedUntil'[m] = LockTime
                      /\ status'[m] = "pending"
    BY <2>1, <2>2 DEF ClaimRows, Due
  <2>6. \A m \in Messages \ S : /\ lockedUntil'[m] = lockedUntil[m]
                                 /\ attempts'[m] = attempts[m]
    BY <2>1 DEF ClaimRows
  <2>7. \A c \in batch'[r] : c.id \in S /\ c.attempts = attempts'[c.id]
    BY <2>1
  <2>8. \A c, d \in batch'[r] : c.id = d.id => c = d
    BY <2>1
  <2>9. \A q \in Relays \ {r} : batch'[q] = batch[q]
    BY <2>1
  <2>10. OneHolder'
    BY <2>3, <2>4, <2>7, <2>8, <2>9
  <2>11. HeldLeased'
    BY <2>3, <2>4, <2>5, <2>6, <2>7, <2>9
  <2>12. CurrentApart'
    BY <2>4, <2>9
  <2> QED BY <2>10, <2>11, <2>12
<1>4. ASSUME NEW r \in Relays, Deliver(r) PROVE ClaimInv'
  <2>1. PICK a \in BOOLEAN, w \in {"ok", "error"} : Publish(r, a, w)
    BY <1>4 DEF Deliver
  <2>2. PICK c \in batch[r] :
          /\ batch' = [batch EXCEPT ![r] = @ \ {c}]
          /\ current' = [current EXCEPT ![r] = {c}]
    BY <2>1 DEF Publish
  <2>3. UNCHANGED <<status, attempts, lockedUntil>> /\ current[r] = {}
    BY <2>1 DEF Publish
  <2>4. \A q \in Relays : Held(q)' = Held(q)
    BY <2>2, <2>3
  <2>5. CurrentApart'
    BY <2>2, <2>3
  <2>6. OneHolder' /\ HeldLeased'
    BY <2>3, <2>4
  <2> QED BY <2>5, <2>6
<1>5. ASSUME NEW r \in Relays, BatchDropped(r) \/ Crash(r) \/ MarkLost(r)
      PROVE ClaimInv'
  <2>1. \A q \in Relays :
          batch'[q] \subseteq batch[q] /\ current'[q] \subseteq current[q]
    BY <1>5 DEF BatchDropped, Crash, MarkLost
  <2>2. UNCHANGED <<status, attempts, lockedUntil>>
    BY <1>5 DEF BatchDropped, Crash, MarkLost
  <2> QED BY <2>1, <2>2
<1>6. ASSUME NEW r \in Relays, Mark(r) PROVE ClaimInv'
  <2>1. PICK c \in current[r] : current[r] = {c}
    BY <1>6 DEF Mark
  <2>2. current' = [current EXCEPT ![r] = {}] /\ batch' = batch
    BY <1>6 DEF Mark
  <2>3. \A q \in Relays : Held(q)' \subseteq Held(q)
    BY <2>2
  <2>4. \A q \in Relays : \A d \in Held(q)' : d.id # c.id
    BY <2>1, <2>2
  <2>5. \A m \in Messages \ {c.id} :
          status'[m] = status[m] /\ lockedUntil'[m] = lockedUntil[m]
    BY <1>6, <2>1 DEF Mark, Outcome, markProcessed, markFailed, markRetry
  <2>6. attempts' = attempts
    BY <1>6 DEF Mark
  <2>7. OneHolder' /\ CurrentApart'
    BY <2>2, <2>3
  <2>8. HeldLeased'
    BY <2>3, <2>4, <2>5, <2>6
  <2> QED BY <2>7, <2>8
<1>7. ASSUME NEW r \in Relays, Cleanup(r) PROVE ClaimInv'
  BY <1>7 DEF Cleanup, Purged, OlderThan
<1>8. ASSUME NEW r \in Relays, ClaimLost(r) PROVE ClaimInv'
  BY <1>8 DEF ClaimLost, ClaimRows, Batches, Due
<1>9. CASE AdminNext
  <2>1. ASSUME RequeueAll \/ \E m \in Messages : RequeueOne(m)
        PROVE ClaimInv'
    BY <2>1 DEF RequeueAll, RequeueOne, Requeue, Failed
  <2>2. ASSUME NEW m \in Messages, Delete(m) PROVE ClaimInv'
    BY <2>2 DEF Delete
  <2>3. ASSUME NEW t \in -1..Retention, Purge(t) PROVE ClaimInv'
    BY <2>3 DEF Purge, Purged, OlderThan
  <2> QED BY <1>9, <2>1, <2>2, <2>3 DEF AdminNext
<1>10. CASE Tick
  BY <1>10 DEF Tick, Free
<1>11. CASE UNCHANGED vars
  BY <1>11 DEF vars
<1> QED
  BY <1>1, <1>2, <1>3, <1>4, <1>5, <1>6, <1>7, <1>8, <1>9, <1>10, <1>11
     DEF Next, RelayStep, FaultStep

(* The publications of a message stay accounted for.                       *)
LEMMA PublishStep ==
    Prompt /\ TypeOK /\ ClaimInv /\ PublishCount /\ [Next]_vars => PublishCount'
<1> SUFFICES ASSUME Prompt, TypeOK, ClaimInv, PublishCount, [Next]_vars
             PROVE PublishCount'
  OBVIOUS
<1> USE DEF TypeOK, Claims, PublishCount, Spent, rowVars, relayVars,
            historyVars, boundVars
<1>0. SUFFICES ASSUME NEW m \in Messages
               PROVE published'[m] <= unrecorded'[m] + IF Spent(m)' THEN 1 ELSE 0
  BY DEF PublishCount
<1> DEFINE Goal == published'[m] <= unrecorded'[m] + IF Spent(m)' THEN 1 ELSE 0
<1>t. /\ published \in [Messages -> Nat] /\ unrecorded \in [Messages -> Nat]
      /\ published' \in [Messages -> Nat] /\ unrecorded' \in [Messages -> Nat]
  BY TypeOKStep
<1>1. ASSUME NEW n \in Messages, Record(n) PROVE Goal
  BY <1>1 DEF Record
<1>2. ASSUME NEW r \in Relays,
             SetPublisher(r) \/ Start(r) \/ LoopExit(r) \/ Restart(r)
                \/ Close(r)
      PROVE Goal
  BY <1>2 DEF SetPublisher, Start, LoopExit, Restart, Close
<1>3. ASSUME NEW r \in Relays, Claim(r) PROVE Goal
  <2>1. Spent(m) => Spent(m)'
    <3>1. PICK S \in Batches :
            batch' = [batch EXCEPT ![r] =
                         {[id |-> n, attempts |-> attempts'[n]] : n \in S}]
      BY <1>3 DEF Claim
    <3>2. \A n \in S : status[n] = "pending"
      BY <3>1 DEF Batches, Due
    <3>3. /\ status' = status /\ current' = current
          /\ phase[r] = "idle" /\ phase' = [phase EXCEPT ![r] = "batch"]
      BY <1>3 DEF Claim, ClaimRows
    <3>4. \A c \in batch'[r] : status[c.id] = "pending"
      BY <3>1, <3>2
    <3>5. \A q \in Relays \ {r} : batch'[q] = batch[q]
      BY <3>1
    <3> QED BY <3>3, <3>4, <3>5
  <2>2. UNCHANGED <<published, unrecorded>>
    BY <1>3 DEF Claim, historyVars
  <2> HIDE DEF Spent
  <2> QED BY <2>1, <2>2, <1>t
<1>4. ASSUME NEW r \in Relays, Deliver(r) PROVE Goal
  <2>1. PICK a \in BOOLEAN, w \in {"ok", "error"} : Publish(r, a, w)
    BY <1>4 DEF Deliver
  <2>2. PICK c \in batch[r] :
          /\ batch' = [batch EXCEPT ![r] = @ \ {c}]
          /\ current' = [current EXCEPT ![r] = {c}]
          /\ published' = [published EXCEPT ![c.id] = @ + IF a THEN 1 ELSE 0]
          /\ unrecorded' = [unrecorded EXCEPT ![c.id] = @ + (faults' - faults)]
    BY <2>1 DEF Publish
  <2>3. /\ phase[r] = "batch" /\ phase' = [phase EXCEPT ![r] = w]
        /\ status' = status /\ (w = "ok" => a)
        /\ faults' - faults = IF a /\ w = "error" THEN 1 ELSE 0
    BY <2>1 DEF Publish
  <2>4. CASE m = c.id
    <3>1. ~Spent(m)
      BY <2>2, <2>3, <2>4 DEF ClaimInv, HeldLeased, OneHolder, CurrentApart, Held
    <3>2. w = "ok" => Spent(m)'
      BY <2>2, <2>3, <2>4
    <3>3. published'[m] = published[m] + IF a THEN 1 ELSE 0
      BY <2>2, <2>4, <1>t
    <3>4. unrecorded'[m] = unrecorded[m] + IF a /\ w = "error" THEN 1 ELSE 0
      BY <2>2, <2>3, <2>4, <1>t
    <3>5. published[m] <= unrecorded[m]
      BY <3>1, <1>t
    <3> HIDE DEF Spent
    <3> QED BY <2>3, <3>2, <3>3, <3>4, <3>5, <1>t
  <2>5. CASE m # c.id
    <3>1. Spent(m) => Spent(m)'
      BY <2>2, <2>3, <2>5
    <3>2. published'[m] = published[m] /\ unrecorded'[m] = unrecorded[m]
      BY <2>2, <2>5
    <3> HIDE DEF Spent
    <3> QED BY <3>1, <3>2, <1>t
  <2> QED BY <2>4, <2>5
<1>5. ASSUME NEW r \in Relays, BatchDropped(r) \/ Crash(r) \/ MarkLost(r)
      PROVE Goal
  <2>1. published' = published /\ status' = status
    BY <1>5 DEF BatchDropped, Crash, MarkLost
  <2>2. CASE \E c \in Held(r) : c.id = m /\ c \notin Held(r)'
    <3>1. unrecorded'[m] = unrecorded[m] + 1
      BY <1>5, <2>2 DEF BatchDropped, Crash, MarkLost, Forgotten, Held
    <3>2. ~(Spent(m) /\ published[m] > unrecorded[m] + 1)
      BY <1>t
    <3> HIDE DEF Spent
    <3> QED BY <2>1, <3>1, <1>t
  <2>3. CASE ~\E c \in Held(r) : c.id = m /\ c \notin Held(r)'
    <3>1. Spent(m) => Spent(m)'
      <4>1. \A q \in Relays : batch'[q] \subseteq batch[q]
        BY <1>5 DEF BatchDropped, Crash, MarkLost
      <4>2. \A q \in Relays \ {r} :
              current'[q] = current[q] /\ phase'[q] = phase[q]
        BY <1>5 DEF BatchDropped, Crash, MarkLost
      <4>3. phase[r] = "ok" => \A c \in current[r] : c.id # m
        BY <1>5, <2>3
           DEF BatchDropped, Crash, MarkLost, Held, ClaimInv, CurrentApart
      <4> QED BY <2>1, <4>1, <4>2, <4>3
    <3>2. unrecorded'[m] >= unrecorded[m]
      BY <1>5, <1>t DEF BatchDropped, Crash, MarkLost, Forgotten
    <3> HIDE DEF Spent
    <3> QED BY <2>1, <3>1, <3>2, <1>t
  <2> QED BY <2>2, <2>3
<1>6. ASSUME NEW r \in Relays, Mark(r) PROVE Goal
  <2>1. PICK c \in current[r] :
          /\ current[r] = {c}
          /\ \/ StillPending(c.id) /\ Outcome(phase[r], c)
             \/ ~StillPending(c.id) /\ UNCHANGED <<status, lockedUntil, age>>
    BY <1>6 DEF Mark
  <2>2. /\ current' = [current EXCEPT ![r] = {}] /\ batch' = batch
        /\ phase' = [phase EXCEPT ![r] = "batch"]
        /\ UNCHANGED <<published, unrecorded>>
    BY <1>6 DEF Mark
  <2>3. Spent(m) => Spent(m)'
    <3>1. CASE m = c.id
      BY <1>6, <2>1, <2>2, <3>1
         DEF Mark, StillPending, Outcome, markProcessed, markFailed, markRetry,
             ClaimInv, HeldLeased, OneHolder, CurrentApart, Held
    <3>2. CASE m # c.id
      <4>1. status'[m] = status[m]
        BY <2>1, <3>2 DEF Outcome, markProcessed, markFailed, markRetry
      <4> QED BY <2>1, <2>2, <3>2, <4>1
    <3> QED BY <3>1, <3>2
  <2> HIDE DEF Spent
  <2> QED BY <2>2, <2>3, <1>t
<1>7. ASSUME NEW r \in Relays, Cleanup(r) PROVE Goal
  BY <1>7 DEF Cleanup, Purged, OlderThan
<1>8. ASSUME NEW r \in Relays, ClaimLost(r) PROVE Goal
  <2>1. Spent(m)' = Spent(m)
    BY <1>8 DEF ClaimLost, ClaimRows
  <2>2. published' = published /\ unrecorded'[m] >= unrecorded[m]
    BY <1>8, <1>t DEF ClaimLost
  <2> HIDE DEF Spent
  <2> QED BY <2>1, <2>2, <1>t
<1>9. CASE AdminNext
  <2>1. ASSUME RequeueAll \/ \E n \in Messages : RequeueOne(n) PROVE Goal
    <3>1. Spent(m) => Spent(m)'
      BY <2>1 DEF RequeueAll, RequeueOne, Requeue, Failed, ClaimInv,
                  HeldLeased, Held
    <3>2. UNCHANGED <<published, unrecorded>>
      BY <2>1 DEF RequeueAll, RequeueOne, Requeue
    <3> HIDE DEF Spent
    <3> QED BY <3>1, <3>2, <1>t
  <2>2. ASSUME NEW n \in Messages, Delete(n) PROVE Goal
    <3>1. Spent(m) => Spent(m)'
      BY <2>2 DEF Delete, ClaimInv, HeldLeased, OneHolder, CurrentApart, Held
    <3>2. UNCHANGED <<published, unrecorded>>
      BY <2>2 DEF Delete
    <3> HIDE DEF Spent
    <3> QED BY <3>1, <3>2, <1>t
  <2>3. ASSUME NEW t \in -1..Retention, Purge(t) PROVE Goal
    BY <2>3 DEF Purge, Purged, OlderThan
  <2> QED BY <1>9, <2>1, <2>2, <2>3 DEF AdminNext
<1>10. CASE Tick \/ UNCHANGED vars
  BY <1>10 DEF Tick, vars
<1> QED
  BY <1>1, <1>2, <1>3, <1>4, <1>5, <1>6, <1>7, <1>8, <1>9, <1>10
     DEF Next, RelayStep, FaultStep

(* The attempts of a row stay accounted for.                               *)
LEMMA AttemptStep ==
    Prompt /\ TypeOK /\ ClaimInv /\ AttemptCount /\ [Next]_vars => AttemptCount'
<1> SUFFICES ASSUME Prompt, TypeOK, ClaimInv, AttemptCount, [Next]_vars,
                    NEW m \in Messages
             PROVE /\ attempts'[m] <= MaxAttempts + unrecorded'[m]
                   /\ status'[m] = "pending" /\ Unheld(m)' =>
                         attempts'[m] < MaxAttempts + unrecorded'[m]
  BY DEF AttemptCount
<1> DEFINE Goal == /\ attempts'[m] <= MaxAttempts + unrecorded'[m]
                   /\ status'[m] = "pending" /\ Unheld(m)' =>
                         attempts'[m] < MaxAttempts + unrecorded'[m]
<1> USE RelayAssumption
        DEF TypeOK, Claims, AttemptCount, Unheld, Held, rowVars, relayVars,
            historyVars, boundVars
<1>t. /\ attempts \in [Messages -> Nat] /\ unrecorded \in [Messages -> Nat]
      /\ attempts' \in [Messages -> Nat] /\ unrecorded' \in [Messages -> Nat]
  BY TypeOKStep
<1>1. ASSUME NEW n \in Messages, Record(n) PROVE Goal
  BY <1>1 DEF Record
<1>2. ASSUME NEW r \in Relays,
             SetPublisher(r) \/ Start(r) \/ LoopExit(r) \/ Restart(r)
                \/ Close(r)
      PROVE Goal
  BY <1>2 DEF SetPublisher, Start, LoopExit, Restart, Close
<1>3. ASSUME NEW r \in Relays, Claim(r) PROVE Goal
  <2>1. PICK S \in Batches :
          /\ ClaimRows(S)
          /\ batch' = [batch EXCEPT ![r] =
                          {[id |-> n, attempts |-> attempts'[n]] : n \in S}]
    BY <1>3 DEF Claim
  <2>2. \A n \in S : n \in Messages /\ status[n] = "pending" /\ Unheld(n)
    BY <2>1 DEF Batches, Due, ClaimInv, HeldLeased
  <2>3. UNCHANGED <<status, unrecorded>>
    BY <1>3, <2>1 DEF Claim, ClaimRows
  <2>4. CASE m \in S
    <3>1. attempts'[m] = attempts[m] + 1
      BY <2>1, <2>4 DEF ClaimRows
    <3>2. ~Unheld(m)'
      <4>1. [id |-> m, attempts |-> attempts'[m]] \in batch'[r]
        BY <2>1, <2>4
      <4> QED BY <4>1
    <3>3. attempts[m] < MaxAttempts + unrecorded[m]
      BY <2>2, <2>4
    <3> HIDE DEF Unheld
    <3> QED BY <2>3, <3>1, <3>2, <3>3, <1>t
  <2>5. CASE m \notin S
    <3>1. attempts'[m] = attempts[m]
      BY <2>1, <2>5 DEF ClaimRows
    <3>2. Unheld(m)' => Unheld(m)
      <4>1. batch[r] = {} /\ current' = current
        BY <1>3 DEF Claim
      <4> QED BY <2>1, <4>1
    <3> HIDE DEF Unheld
    <3> QED BY <2>3, <3>1, <3>2, <1>t
  <2> QED BY <2>4, <2>5
<1>4. ASSUME NEW r \in Relays, Deliver(r) PROVE Goal
  <2>1. PICK a \in BOOLEAN, w \in {"ok", "error"} : Publish(r, a, w)
    BY <1>4 DEF Deliver
  <2>2. PICK c \in batch[r] :
          /\ batch' = [batch EXCEPT ![r] = @ \ {c}]
          /\ current' = [current EXCEPT ![r] = {c}]
          /\ unrecorded' = [unrecorded EXCEPT ![c.id] = @ + (faults' - faults)]
    BY <2>1 DEF Publish
  <2>3. UNCHANGED <<status, attempts>> /\ faults' - faults \in Nat
    BY <2>1 DEF Publish
  <2>4. unrecorded'[m] >= unrecorded[m]
    BY <2>2, <2>3, Raised
  <2>5. Unheld(m)' => Unheld(m)
    <3>1. current[r] = {}
      BY <2>1 DEF Publish
    <3> QED BY <2>2, <3>1
  <2> HIDE DEF Unheld
  <2> QED BY <2>3, <2>4, <2>5, <1>t
<1>5. ASSUME NEW r \in Relays, BatchDropped(r) \/ Crash(r) \/ MarkLost(r)
      PROVE Goal
  <2>1. UNCHANGED <<status, attempts>>
    BY <1>5 DEF BatchDropped, Crash, MarkLost
  <2>2. unrecorded'[m] >= unrecorded[m]
    BY <1>5, <1>t DEF BatchDropped, Crash, MarkLost, Forgotten
  <2>3. Unheld(m)' => Unheld(m) \/ unrecorded'[m] = unrecorded[m] + 1
    <3>1. \A q \in Relays \ {r} : Held(q)' = Held(q)
      BY <1>5 DEF BatchDropped, Crash, MarkLost
    <3>2. \A c \in Held(r) : c.id = m =>
            c \in Held(r)' \/ unrecorded'[m] = unrecorded[m] + 1
      BY <1>5 DEF BatchDropped, Crash, MarkLost, Forgotten
    <3> QED BY <3>1, <3>2
  <2> HIDE DEF Unheld
  <2> QED BY <2>1, <2>2, <2>3, <1>t
<1>6. ASSUME NEW r \in Relays, Mark(r) PROVE Goal
  <2>1. PICK c \in current[r] :
          /\ current[r] = {c}
          /\ \/ StillPending(c.id) /\ Outcome(phase[r], c)
             \/ ~StillPending(c.id) /\ UNCHANGED <<status, lockedUntil, age>>
    BY <1>6 DEF Mark
  <2>2. /\ current' = [current EXCEPT ![r] = {}] /\ batch' = batch
        /\ UNCHANGED <<attempts, unrecorded>>
    BY <1>6 DEF Mark
  <2>3. CASE m = c.id /\ status'[m] = "pending"
    <3>1. ~Exhausted(c)
      BY <1>6, <2>1, <2>3
         DEF Mark, StillPending, Outcome, markProcessed, markFailed
    <3>2. c.attempts = attempts[m]
      <4>1. status[m] # "deleted"
        BY <2>1, <2>3 DEF StillPending
      <4> QED BY <2>1, <2>3, <4>1 DEF ClaimInv, HeldLeased
    <3> QED BY <2>2, <3>1, <3>2, <1>t DEF Exhausted
  <2>4. CASE m = c.id /\ status'[m] # "pending"
    BY <2>2, <2>4
  <2>5. CASE m # c.id
    <3>1. status'[m] = status[m]
      BY <2>1, <2>5 DEF Outcome, markProcessed, markFailed, markRetry
    <3>2. Unheld(m)' => Unheld(m)
      BY <2>1, <2>2, <2>5
    <3> HIDE DEF Unheld
    <3> QED BY <2>2, <3>1, <3>2, <1>t
  <2> QED BY <2>3, <2>4, <2>5
<1>7. ASSUME NEW r \in Relays, Cleanup(r) PROVE Goal
  BY <1>7 DEF Cleanup, Purged, OlderThan
<1>8. ASSUME NEW r \in Relays, ClaimLost(r) PROVE Goal
  <2>1. PICK S \in Batches :
          /\ ClaimRows(S)
          /\ unrecorded' = [n \in Messages |->
                IF n \in S THEN unrecorded[n] + 1 ELSE unrecorded[n]]
    BY <1>8 DEF ClaimLost
  <2>2. attempts'[m] - unrecorded'[m] = attempts[m] - unrecorded[m]
    BY <2>1, <1>t DEF ClaimRows
  <2>3. status' = status /\ Unheld(m)' = Unheld(m)
    BY <1>8, <2>1 DEF ClaimLost, ClaimRows
  <2> HIDE DEF Unheld
  <2> QED BY <2>2, <2>3, <1>t
<1>9. CASE AdminNext
  <2>1. ASSUME NEW S, Requeue(S) PROVE Goal
    BY <2>1 DEF Requeue
  <2>2. ASSUME NEW n \in Messages, Delete(n) PROVE Goal
    BY <2>2 DEF Delete
  <2>3. ASSUME NEW t \in -1..Retention, Purge(t) PROVE Goal
    BY <2>3 DEF Purge, Purged, OlderThan
  <2> QED BY <1>9, <2>1, <2>2, <2>3 DEF AdminNext, RequeueOne, RequeueAll
<1>10. CASE Tick \/ UNCHANGED vars
  BY <1>10 DEF Tick, vars
<1> QED
  BY <1>1, <1>2, <1>3, <1>4, <1>5, <1>6, <1>7, <1>8, <1>9, <1>10
     DEF Next, RelayStep, FaultStep

(* Nothing is claimed, published or attempted at the start.                *)
LEMMA RaceInit == Init => RaceInv
BY RelayAssumption
   DEF Init, RaceInv, ClaimInv, OneHolder, CurrentApart, HeldLeased, Held,
       PublishCount, AttemptCount, Spent, Unheld

(* When relays are prompt the three counts stay together.                  *)
LEMMA RaceStep == Prompt /\ TypeOK /\ RaceInv /\ [Next]_vars => RaceInv'
BY ClaimStep, PublishStep, AttemptStep DEF RaceInv

(* The counts bound the publications and the attempts.                     *)
LEMMA RaceBounds == TypeOK /\ RaceInv => NoRacePublish /\ AttemptBudget
<1> SUFFICES ASSUME TypeOK, RaceInv, NEW m \in Messages
             PROVE /\ published[m] <= 1 + unrecorded[m]
                   /\ attempts[m] <= MaxAttempts + unrecorded[m]
  BY DEF NoRacePublish, AttemptBudget
<1> HIDE DEF Spent
<1> QED BY DEF RaceInv, PublishCount, AttemptCount, TypeOK

(* With relays that finish within their lease, any number of replicas      *)
(* publishes a message once for each claim whose outcome was lost, plus    *)
(* once: the claim statement alone keeps replicas from racing.             *)
THEOREM ReplicasDoNotRace == Spec => []NoRacePublish
<1>1. CASE Prompt
  <2>1. Prompt
    BY <1>1
  <2> QED
    BY <2>1, TypeCorrect, RaceInit, RaceStep, RaceBounds, PTL DEF Spec
<1>2. CASE ~Prompt
  <2>1. NoRacePublish
    BY <1>2 DEF NoRacePublish
  <2> QED BY <2>1, PTL
<1> QED BY <1>1, <1>2

(* With relays that finish within their lease, a row's attempts exceed     *)
(* MaxAttempts only by claims whose outcome was lost.                      *)
THEOREM AttemptsAreCapped == Spec => []AttemptBudget
<1>1. CASE Prompt
  <2>1. Prompt
    BY <1>1
  <2> QED
    BY <2>1, TypeCorrect, RaceInit, RaceStep, RaceBounds, PTL DEF Spec
<1>2. CASE ~Prompt
  <2>1. AttemptBudget
    BY <1>2 DEF AttemptBudget
  <2> QED BY <2>1, PTL
<1> QED BY <1>1, <1>2

-----------------------------------------------------------------------------
(* Exactly-once effects of the inbox.  ExactlyOnce alone is not inductive: *)
(* Commit raises the count of an event, so one must know that the id of an *)
(* open transaction is not in the inbox yet, and that stays true while     *)
(* others commit only because no other open transaction holds the same id. *)

(* The transactions that have inserted their id and not yet ended.         *)
Open(c) == step[c] \in {"inserted", "ran"}

(* The id of an open transaction is new, and no two of them hold one id.   *)
OpenNew == \A c \in Consumers : Open(c) => \A e \in tx[c] : e \notin inbox

OpenApart ==
    \A c, d \in Consumers :
        c # d /\ Open(c) /\ Open(d) => \A e \in tx[c] : e \notin tx[d]

(* A consumer's transaction concerns one event.                            *)
OneEvent ==
    \A c \in Consumers : \A e, f \in tx[c] : e = f

InboxInv == InboxTypeOK /\ OneEvent /\ OpenNew /\ OpenApart /\ ExactlyOnce

(* Nothing is inserted and no effect is committed at the start.            *)
LEMMA InboxInvInit == InboxInit => InboxInv
BY InboxAssumption
   DEF InboxInit, InboxInv, InboxTypeOK, OneEvent, OpenNew, OpenApart, ExactlyOnce,
       Open, Steps

(* Every step keeps the inductive invariant.                               *)
LEMMA InboxInvStep == InboxInv /\ [InboxNext]_inboxVars => InboxInv'
<1> SUFFICES ASSUME InboxInv, [InboxNext]_inboxVars PROVE InboxInv'
  OBVIOUS
<1> USE InboxAssumption DEF InboxInv, InboxTypeOK, OneEvent, Steps
<1>1. ASSUME NEW c \in Consumers, NEW e \in Events, Begin(c, e) PROVE InboxInv'
  BY <1>1 DEF Begin, OpenNew, OpenApart, ExactlyOnce, Open
<1>2. ASSUME NEW c \in Consumers, Process(c) PROVE InboxInv'
  <2>1. InboxTypeOK' /\ OneEvent' /\ ExactlyOnce'
    BY <1>2 DEF Process, ExactlyOnce
  <2>2. OpenNew'
    BY <1>2 DEF Process, OpenNew, Open
  <2>3. OpenApart'
    BY <1>2 DEF Process, OpenApart, Open, Blocked
  <2> QED BY <2>1, <2>2, <2>3
<1>3. ASSUME NEW c \in Consumers, RunFn(c) PROVE InboxInv'
  BY <1>3 DEF RunFn, OpenNew, OpenApart, ExactlyOnce, Open
<1>4. ASSUME NEW c \in Consumers, Commit(c) PROVE InboxInv'
  <2>1. InboxTypeOK' /\ OneEvent'
    BY <1>4 DEF Commit
  <2>2. OpenNew'
    BY <1>4 DEF Commit, OpenNew, OpenApart, Open
  <2>3. OpenApart'
    BY <1>4 DEF Commit, OpenApart, Open
  <2>4. ExactlyOnce'
    BY <1>4 DEF Commit, ExactlyOnce, OpenNew, Open
  <2> QED BY <2>1, <2>2, <2>3, <2>4
<1>5. ASSUME NEW c \in Consumers, Rollback(c) PROVE InboxInv'
  BY <1>5 DEF Rollback, OpenNew, OpenApart, ExactlyOnce, Open
<1>6. CASE UNCHANGED inboxVars
  BY <1>6 DEF inboxVars, OpenNew, OpenApart, ExactlyOnce, Open
<1> QED
  BY <1>1, <1>2, <1>3, <1>4, <1>5, <1>6 DEF InboxNext, Advance

(* core/outbox.Inbox promises that side effects apply exactly once even    *)
(* under at-least-once delivery: Process keeps it for any redelivery by    *)
(* any number of consumers, whichever transactions roll back.              *)
THEOREM EffectsExactlyOnce == InboxSpec => []ExactlyOnce
<1>1. InboxInv => ExactlyOnce
  BY DEF InboxInv
<1> QED
  BY InboxInvInit, InboxInvStep, <1>1, PTL DEF InboxSpec

-----------------------------------------------------------------------------
(* The pipeline.  Its behaviours are behaviours of the relay and of the    *)
(* inbox, so what was proved of each holds; and the two are tied together  *)
(* by what consumers are given: messages the transport accepted, of rows   *)
(* that a business transaction committed.                                  *)

(* Relays hold claims of recorded messages only, and so publish no other.  *)
HeldRecorded == \A r \in Relays : \A c \in Held(r) : status[c.id] # "absent"
PublishedRecorded == \A m \in Messages : published[m] > 0 => status[m] # "absent"

(* Consumers work on published messages only.                              *)
TakenPublished == \A c \in Consumers : \A m \in tx[c] : published[m] > 0

(* A consumer's effects are those of a message that was published, and     *)
(* whose business transaction committed.                                   *)
EffectsOfRecorded ==
    \A m \in Messages : effects[m] > 0 => published[m] > 0 /\ status[m] # "absent"

(* A row once recorded is never as if it had not been, a publication is    *)
(* never taken back.                                                       *)
LEMMA RecordedForGood ==
    ASSUME TypeOK, [Next]_vars
    PROVE  \A m \in Messages : status[m] # "absent" => status'[m] # "absent"
<1> USE DEF TypeOK, Claims, rowVars, relayVars, historyVars, boundVars
<1> DEFINE Goal == \A m \in Messages : status[m] # "absent" => status'[m] # "absent"
<1>1. ASSUME NEW m \in Messages, Record(m) PROVE Goal
  BY <1>1 DEF Record
<1>2. ASSUME NEW r \in Relays,
             SetPublisher(r) \/ Start(r) \/ LoopExit(r) \/ Restart(r) \/ Claim(r) \/ Deliver(r)
                \/ BatchDropped(r) \/ Close(r) \/ Crash(r) \/ ClaimLost(r) \/ MarkLost(r)
      PROVE  Goal
  BY <1>2 DEF SetPublisher, Start, LoopExit, Restart, Claim, ClaimRows, Deliver, Publish,
              BatchDropped, Close, Crash, ClaimLost, MarkLost
<1>3. ASSUME NEW r \in Relays, Mark(r) PROVE Goal
  BY <1>3 DEF Mark, Outcome, markProcessed, markFailed, markRetry
<1>4. ASSUME NEW r \in Relays, Cleanup(r) PROVE Goal
  BY <1>4 DEF Cleanup, Purged
<1>5. ASSUME AdminNext PROVE Goal
  <2>1. ASSUME NEW S, Requeue(S) PROVE Goal
    BY <2>1 DEF Requeue
  <2>2. ASSUME NEW m \in Messages, Delete(m) PROVE Goal
    BY <2>2 DEF Delete
  <2>3. ASSUME NEW n \in -1..Retention, Purge(n) PROVE Goal
    BY <2>3 DEF Purge, Purged
  <2> QED BY <1>5, <2>1, <2>2, <2>3 DEF AdminNext, RequeueOne, RequeueAll
<1>6. ASSUME Tick \/ UNCHANGED vars PROVE Goal
  BY <1>6 DEF Tick, vars
<1> QED BY <1>1, <1>2, <1>3, <1>4, <1>5, <1>6 DEF Next, RelayStep, FaultStep

(* Only Publish counts a publication, and of a message its relay holds.    *)
LEMMA PublishedIsHeld ==
    ASSUME TypeOK, [Next]_vars
    PROVE  /\ \A m \in Messages : published'[m] >= published[m]
           /\ \A m \in Messages : published'[m] # published[m] =>
                 \E r \in Relays : \E c \in Held(r) : c.id = m
<1> USE DEF TypeOK, rowVars, relayVars, historyVars, boundVars
<1>1. CASE published' = published
  BY <1>1
<1>2. CASE \E r \in Relays : Deliver(r)
  <2>1. PICK r \in Relays, a \in BOOLEAN, w \in {"ok", "error"} : Publish(r, a, w)
    BY <1>2 DEF Deliver
  <2>2. PICK c \in batch[r] :
           published' = [published EXCEPT ![c.id] = @ + IF a THEN 1 ELSE 0]
    BY <2>1 DEF Publish
  <2>3. c \in Claims /\ c.id \in Messages /\ c \in Held(r)
    BY <2>2 DEF Claims, Held
  <2>4. published' = [published EXCEPT ![c.id] = @ + 1] \/ published' = [published EXCEPT ![c.id] = @ + 0]
    BY <2>2
  <2>5. published \in [Messages -> Nat]
    OBVIOUS
  <2> QED BY <2>3, <2>4, <2>5
<1>3. ASSUME ~(\E r \in Relays : Deliver(r)) PROVE published' = published
  <2>1. CASE \E m \in Messages : Record(m)
    BY <2>1 DEF Record
  <2>2. ASSUME NEW r \in Relays, (RelayStep(r) /\ ~Deliver(r)) \/ FaultStep(r)
        PROVE  published' = published
    BY <2>2 DEF RelayStep, FaultStep, SetPublisher, Start, LoopExit, Restart, Claim, BatchDropped,
                Mark, Cleanup, Close, Crash, ClaimLost, MarkLost
  <2>3. CASE AdminNext
    BY <2>3 DEF AdminNext, RequeueOne, RequeueAll, Requeue, Delete, Purge
  <2>4. CASE Tick \/ UNCHANGED vars
    BY <2>4 DEF Tick, vars
  <2> QED BY <1>3, <2>1, <2>2, <2>3, <2>4 DEF Next
<1> QED BY <1>1, <1>2, <1>3

(* What a relay holds it held before, or has just claimed.                 *)
LEMMA HeldWasHeld ==
    ASSUME TypeOK, [Next]_vars, NEW r \in Relays, NEW c \in Held(r)'
    PROVE  c \in Held(r) \/ (c.id \in Messages /\ status[c.id] = "pending")
<1> USE DEF TypeOK, Held, rowVars, relayVars, historyVars, boundVars
<1> DEFINE Goal == c \in Held(r) \/ (c.id \in Messages /\ status[c.id] = "pending")
<1>1. ASSUME NEW q \in Relays, Claim(q) PROVE Goal
  <2>1. PICK S \in Batches : batch' = [batch EXCEPT ![q] =
                                {[id |-> m, attempts |-> attempts'[m]] : m \in S}]
    BY <1>1 DEF Claim
  <2>2. \A m \in S : m \in Messages /\ status[m] = "pending"
    BY DEF Batches, Due
  <2>3. current' = current
    BY <1>1 DEF Claim
  <2> QED BY <2>1, <2>2, <2>3
<1>2. ASSUME NEW q \in Relays, Deliver(q) PROVE Goal
  BY <1>2 DEF Deliver, Publish
<1>3. ASSUME NEW q \in Relays,
             SetPublisher(q) \/ Start(q) \/ LoopExit(q) \/ Restart(q) \/ BatchDropped(q)
                \/ Mark(q) \/ Cleanup(q) \/ Close(q) \/ Crash(q) \/ ClaimLost(q) \/ MarkLost(q)
      PROVE  Goal
  BY <1>3 DEF SetPublisher, Start, LoopExit, Restart, BatchDropped, Mark, Cleanup, Close, Crash,
              ClaimLost, MarkLost
<1>4. ASSUME (\E m \in Messages : Record(m)) \/ AdminNext \/ Tick \/ UNCHANGED vars PROVE Goal
  BY <1>4 DEF Record, AdminNext, RequeueOne, RequeueAll, Requeue, Delete, Purge, Tick, vars
<1> QED BY <1>1, <1>2, <1>3, <1>4 DEF Next, RelayStep, FaultStep

(* Relays publish recorded messages only.                                  *)
LEMMA RecordedStep ==
    ASSUME TypeOK, TypeOK', HeldRecorded, PublishedRecorded, [Next]_vars
    PROVE  HeldRecorded' /\ PublishedRecorded'
<1>1. \A m \in Messages : status[m] # "absent" => status'[m] # "absent"
  BY RecordedForGood
<1>2. HeldRecorded'
  <2> SUFFICES ASSUME NEW r \in Relays, NEW c \in Held(r)' PROVE status'[c.id] # "absent"
    BY DEF HeldRecorded
  <2>1. c \in Held(r) \/ (c.id \in Messages /\ status[c.id] = "pending")
    BY HeldWasHeld
  <2>2. c \in Claims /\ c.id \in Messages
    BY DEF TypeOK, Held, Claims
  <2> QED BY <1>1, <2>1, <2>2 DEF HeldRecorded
<1>3. PublishedRecorded'
  <2> SUFFICES ASSUME NEW m \in Messages, published'[m] > 0 PROVE status'[m] # "absent"
    BY DEF PublishedRecorded
  <2>1. published'[m] = published[m] \/ \E r \in Relays : \E c \in Held(r) : c.id = m
    BY PublishedIsHeld
  <2>2. status[m] # "absent"
    BY <2>1 DEF HeldRecorded, PublishedRecorded
  <2> QED BY <1>1, <2>2
<1> QED BY <1>2, <1>3

(* A step of the pipeline is a step of the relays or of a consumer, and    *)
(* stutters the other side.                                                *)
LEMMA SidesTakeTurns ==
    [PipelineNext]_pipelineVars => [Next]_vars /\ [InboxNext]_inboxVars
BY PipelineAssumption
   DEF PipelineNext, TransportDeliver, ConsumerStep, ConsumerFails, InboxNext, pipelineVars

(* Wired together, the relays and the consumers each do what their own     *)
(* modules specify.                                                        *)
THEOREM PipelineImplements == PipelineSpec => Spec /\ InboxSpec
<1>1. PipelineInit => Init /\ InboxInit
  BY DEF PipelineInit
<1> QED BY <1>1, SidesTakeTurns, PTL DEF PipelineSpec, Spec, InboxSpec

(* End to end, each recorded message takes effect at most once however     *)
(* often relays publish it and the transport delivers it; no row leaves    *)
(* the table undelivered; and settled rows stay settled.                   *)
THEOREM PipelineKeeps ==
    PipelineSpec => []ExactlyOnce /\ []NoSilentLoss /\ SettledStays
BY PipelineImplements, EffectsExactlyOnce, NothingLostSilently, SettledRowsStay, PTL

(* What consumers hold and have applied was published.                     *)
LEMMA TakenStep ==
    ASSUME TypeOK, InboxInv, TakenPublished, EffectsOfRecorded, PublishedRecorded,
           PublishedRecorded', [PipelineNext]_pipelineVars
    PROVE  TakenPublished' /\ EffectsOfRecorded'
<1> USE PipelineAssumption
<1>0. /\ tx \in [Consumers -> SUBSET Messages] /\ effects \in [Messages -> Nat]
      /\ published \in [Messages -> Nat]
  BY DEF InboxInv, InboxTypeOK, TypeOK
<1>1. ASSUME [Next]_vars, UNCHANGED inboxVars PROVE TakenPublished' /\ EffectsOfRecorded'
  <2>1. \A m \in Messages : published[m] > 0 => published'[m] > 0
    <3>1. TypeOK'
      BY <1>1, TypeOKStep
    <3>2. \A m \in Messages : published'[m] >= published[m] /\ published'[m] \in Nat
      BY <1>1, <3>1, PublishedIsHeld DEF TypeOK
    <3> QED BY <1>0, <3>2
  <2>2. tx' = tx /\ effects' = effects
    BY <1>1 DEF inboxVars
  <2>3. \A m \in Messages : status[m] # "absent" => status'[m] # "absent"
    BY <1>1, RecordedForGood
  <2> QED BY <1>0, <2>1, <2>2, <2>3 DEF TakenPublished, EffectsOfRecorded
<1>2. ASSUME NEW c \in Consumers, NEW m \in Messages, TransportDeliver(c, m)
      PROVE  TakenPublished' /\ EffectsOfRecorded'
  <2>1. /\ published' = published /\ status' = status /\ effects' = effects
        /\ tx' = [tx EXCEPT ![c] = {m}] /\ published[m] > 0
    BY <1>2 DEF TransportDeliver, Begin, vars, rowVars, historyVars
  <2> QED BY <1>0, <2>1 DEF TakenPublished, EffectsOfRecorded
<1>3. ASSUME NEW c \in Consumers, ConsumerStep(c) \/ ConsumerFails(c)
      PROVE  TakenPublished' /\ EffectsOfRecorded'
  <2>1. published' = published /\ status' = status
    BY <1>3 DEF ConsumerStep, ConsumerFails, vars, rowVars, historyVars
  <2>2. tx' = tx \/ tx' = [tx EXCEPT ![c] = {}]
    BY <1>3 DEF ConsumerStep, ConsumerFails, Advance, Process, RunFn, Commit, Rollback
  <2>3. TakenPublished'
    BY <1>0, <2>1, <2>2 DEF TakenPublished
  <2>4. \A m \in Messages : effects'[m] = effects[m] \/ m \in tx[c]
    BY <1>0, <1>3 DEF ConsumerStep, ConsumerFails, Advance, Process, RunFn, Commit, Rollback
  <2>5. EffectsOfRecorded'
    BY <2>1, <2>4 DEF EffectsOfRecorded, TakenPublished, PublishedRecorded
  <2> QED BY <2>3, <2>5
<1>4. ASSUME UNCHANGED pipelineVars PROVE TakenPublished' /\ EffectsOfRecorded'
  BY <1>1, <1>4 DEF pipelineVars
<1> QED BY <1>1, <1>2, <1>3, <1>4 DEF PipelineNext

(* No effect without its cause: a consumer's committed effects belong to a *)
(* message that the transport accepted and that a business transaction     *)
(* recorded, although relays crash, publish twice and give rows back, rows *)
(* are requeued and deleted, and deliveries are repeated and reordered.    *)
THEOREM EffectsHaveACause == PipelineSpec => []EffectsOfRecorded
<1> DEFINE I == /\ TypeOK /\ HeldRecorded /\ PublishedRecorded
                /\ InboxInv /\ TakenPublished /\ EffectsOfRecorded
<1>1. PipelineInit => I
  <2> SUFFICES ASSUME PipelineInit PROVE I
    OBVIOUS
  <2>1. TypeOK /\ InboxInv
    BY InvInit, InboxInvInit DEF PipelineInit, Inv
  <2>2. HeldRecorded /\ PublishedRecorded
    BY DEF PipelineInit, Init, HeldRecorded, PublishedRecorded, Held
  <2>3. TakenPublished /\ EffectsOfRecorded
    BY PipelineAssumption DEF PipelineInit, InboxInit, TakenPublished, EffectsOfRecorded
  <2> QED BY <2>1, <2>2, <2>3
<1>2. I /\ [PipelineNext]_pipelineVars => I'
  <2> SUFFICES ASSUME I, [PipelineNext]_pipelineVars PROVE I'
    OBVIOUS
  <2>1. [Next]_vars /\ [InboxNext]_inboxVars
    BY SidesTakeTurns
  <2>2. TypeOK' /\ InboxInv'
    BY <2>1, TypeOKStep, InboxInvStep
  <2>3. HeldRecorded' /\ PublishedRecorded'
    BY <2>1, <2>2, RecordedStep
  <2>4. TakenPublished' /\ EffectsOfRecorded'
    BY <2>3, TakenStep
  <2> QED BY <2>2, <2>3, <2>4
<1>3. I => EffectsOfRecorded
  OBVIOUS
<1> QED BY <1>1, <1>2, <1>3, PTL DEF PipelineSpec

=============================================================================
