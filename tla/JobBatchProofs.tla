------------------------- MODULE JobBatchProofs --------------------------
(***************************************************************************)
(* Job workers and batches, for any number of jobs, handlers, sweepers,    *)
(* messages and faults.  The queue is any one that keeps QueueContract.    *)
(***************************************************************************)
EXTENDS JobBatch, FiniteSetTheorems, TLAPS

-----------------------------------------------------------------------------
(* Jobs are not lost.  Messages are used in the order of their numbers, so *)
(* a retry's copy is newer than the copy it replaces; and a copy that is   *)
(* about to be acknowledged as retried has a newer one of its job, which   *)
(* makes the argument well-founded: handlers that retry copies of one job  *)
(* at the same time cannot acknowledge each other's last copy.             *)

Alive(c) == place[c] \in {"waiting", "leased"}

(* Messages are used one after the other, and carry a job once used.       *)
CopiesInOrder ==
    \A c, d \in Copies : c < d /\ place[c] = "absent" => place[d] = "absent"
CopyHasJob == \A c \in Copies : place[c] # "absent" => jobOf[c] \in Jobs

(* A handler at work has a message that was used.                          *)
HandHasCopy ==
    \A h \in Handlers :
        ~HandAt(h, "idle") => hand[h].copy \in Copies /\ place[hand[h].copy] # "absent"

(* Before it acknowledges a retry a handler has seen to a newer copy.      *)
RetryIsStored ==
    \A h \in Handlers :
        (HandAt(h, "ack") /\ hand[h].verdict = "retry") =>
            \/ finished[Carried(h)] # {}
            \/ \E d \in Copies :
                  d > hand[h].copy /\ jobOf[d] = Carried(h) /\ Alive(d)

-----------------------------------------------------------------------------
(* Attempts are counted truthfully.  A waiting copy is at most one ahead   *)
(* of the deliveries of its job, because its next delivery is counted      *)
(* before a handler can go by the number.                                  *)
AttemptsDelivered ==
    \A c \in Copies :
        /\ place[c] = "waiting" =>
              header[c] <= deliveries[jobOf[c]] + 1 /\ attempt[c] <= deliveries[jobOf[c]] + 1
        /\ place[c] = "leased" =>
              header[c] <= deliveries[jobOf[c]] /\ attempt[c] <= deliveries[jobOf[c]]

HandsDelivered ==
    \A h \in Handlers : ~HandAt(h, "idle") =>
        /\ header[hand[h].copy] <= deliveries[Carried(h)]
        /\ hand[h].got <= deliveries[Carried(h)]

(* A retry has attempts left; a dead letter has not.                       *)
VerdictsEarned ==
    \A h \in Handlers :
        /\ HandAt(h, "push") => hand[h].verdict = "retry" /\ effectiveAttempt(h) < MaxAttempts
        /\ HandAt(h, "ack") /\ hand[h].verdict = "dead" => deliveries[Carried(h)] >= MaxAttempts

JobInv ==
    /\ JobTypeOK
    /\ CopiesInOrder /\ CopyHasJob /\ HandHasCopy /\ RetryIsStored
    /\ AttemptsDelivered /\ HandsDelivered /\ VerdictsEarned
    /\ JobNotLost /\ DeadLetterEarned

(* The empty queue.                                                        *)
LEMMA JobInvInit == JobInit => JobInv
<1> SUFFICES ASSUME JobInit PROVE JobInv
  OBVIOUS
<1> USE JobConstants DEF JobInit, Queue!Init
<1>1. IdleHand \in Hand
  BY DEF IdleHand, Hand, Verdicts
<1>2. JobTypeOK
  BY <1>1 DEF JobTypeOK, Queue!TypeOK, Queue!Places
<1>3. \A h \in Handlers : HandAt(h, "idle") /\ hand[h].pc = "idle"
  BY DEF HandAt, IdleHand
<1>4. CopiesInOrder /\ CopyHasJob /\ HandHasCopy /\ AttemptsDelivered /\ DeadLetterEarned
  BY <1>3 DEF CopiesInOrder, CopyHasJob, HandHasCopy, AttemptsDelivered, DeadLetterEarned
<1>5. RetryIsStored /\ HandsDelivered /\ VerdictsEarned
  BY <1>3 DEF RetryIsStored, HandsDelivered, VerdictsEarned, HandAt
<1>6. JobNotLost
  BY DEF JobNotLost, Pushed
<1> QED BY <1>2, <1>4, <1>5, <1>6 DEF JobInv

-----------------------------------------------------------------------------
(* A handler goes on with the message it has, or lets go of it, and        *)
(* nothing else happens: its verdict is made, its process dies, a call of  *)
(* its fails, or it reports to the batch.                                  *)
HandMoves(h) ==
    /\ \E next \in Hand :
          /\ hand' = [hand EXCEPT ![h] = next]
          /\ \/ next = IdleHand
             \/ /\ ~HandAt(h, "idle")
                /\ next.copy = hand[h].copy /\ next.got = hand[h].got
                /\ next.pc \in {"push", "ack", "flag", "get", "drop"}
                /\ next.pc = "push" =>
                      next.verdict = "retry" /\ effectiveAttempt(h) < MaxAttempts
                /\ next.pc = "ack" =>
                      \/ next.verdict = "success"
                      \/ next.verdict = "dead" /\ effectiveAttempt(h) >= MaxAttempts
    /\ jobFaults' \in 0 .. MaxJobFaults
    /\ UNCHANGED << queueVars, deliveries, finished >>

(* A step that moves one handler and touches no message.                   *)
LEMMA HandMovesKeeps ==
    ASSUME JobInv, NEW h \in Handlers, HandMoves(h)
    PROVE  JobInv'
<1>0. /\ JobTypeOK /\ CopiesInOrder /\ CopyHasJob /\ HandHasCopy /\ RetryIsStored
      /\ AttemptsDelivered /\ HandsDelivered /\ VerdictsEarned /\ JobNotLost
      /\ DeadLetterEarned
  BY DEF JobInv
<1>1. PICK next \in Hand :
          /\ hand' = [hand EXCEPT ![h] = next]
          /\ \/ next = IdleHand
             \/ /\ ~HandAt(h, "idle")
                /\ next.copy = hand[h].copy /\ next.got = hand[h].got
                /\ next.pc \in {"push", "ack", "flag", "get", "drop"}
                /\ next.pc = "push" =>
                      next.verdict = "retry" /\ effectiveAttempt(h) < MaxAttempts
                /\ next.pc = "ack" =>
                      \/ next.verdict = "success"
                      \/ next.verdict = "dead" /\ effectiveAttempt(h) >= MaxAttempts
  BY DEF HandMoves
<1>2. /\ UNCHANGED << place, attempt, jobOf, header, deliveries, finished >>
      /\ jobFaults' \in 0 .. MaxJobFaults
  BY DEF HandMoves, queueVars
<1>3. JobTypeOK'
  BY <1>0, <1>1, <1>2 DEF JobTypeOK, Queue!TypeOK
<1>4. hand'[h] = next /\ \A g \in Handlers : g # h => hand'[g] = hand[g]
  BY <1>0, <1>1 DEF JobTypeOK
<1>5. IdleHand.pc = "idle"
  BY DEF IdleHand
<1>6. CopiesInOrder' /\ CopyHasJob' /\ AttemptsDelivered' /\ JobNotLost' /\ DeadLetterEarned'
  BY <1>0, <1>2
     DEF CopiesInOrder, CopyHasJob, AttemptsDelivered, JobNotLost, DeadLetterEarned, Pushed
<1>7. HandHasCopy'
  BY <1>0, <1>1, <1>2, <1>4, <1>5 DEF HandHasCopy, HandAt
<1>8. HandsDelivered'
  BY <1>0, <1>1, <1>2, <1>4, <1>5 DEF HandsDelivered, HandAt, Carried
<1>9. RetryIsStored'
  <2> SUFFICES ASSUME NEW g \in Handlers, hand'[g].pc = "ack", hand'[g].verdict = "retry"
               PROVE  \/ finished[Carried(g)'] # {}
                      \/ \E d \in Copies :
                            d > hand'[g].copy /\ jobOf[d] = Carried(g)' /\ Alive(d)
    BY <1>2 DEF RetryIsStored, HandAt, Alive
  <2>1. g # h /\ hand'[g] = hand[g]
    BY <1>1, <1>4, <1>5
  <2> QED BY <1>0, <1>2, <2>1 DEF RetryIsStored, HandAt, Carried
<1>10. VerdictsEarned'
  <2> SUFFICES ASSUME NEW g \in Handlers
               PROVE  /\ hand'[g].pc = "push" =>
                            hand'[g].verdict = "retry" /\ effectiveAttempt(g)' < MaxAttempts
                      /\ hand'[g].pc = "ack" /\ hand'[g].verdict = "dead" =>
                            deliveries[Carried(g)'] >= MaxAttempts
    BY <1>2 DEF VerdictsEarned, HandAt
  <2>1. CASE g # h
    <3>1. Carried(g)' = Carried(g) /\ effectiveAttempt(g)' = effectiveAttempt(g)
      BY <1>2, <1>4, <2>1 DEF Carried, effectiveAttempt
    <3> QED BY <1>0, <1>4, <2>1, <3>1 DEF VerdictsEarned, HandAt
  <2>2. CASE g = h /\ next = IdleHand
    BY <1>4, <1>5, <2>2
  <2>3. CASE g = h /\ next # IdleHand
    <3>1. /\ Carried(h)' = Carried(h) /\ effectiveAttempt(h)' = effectiveAttempt(h)
          /\ ~HandAt(h, "idle")
      BY <1>1, <1>2, <1>4, <2>3 DEF Carried, effectiveAttempt
    <3>2. /\ header[hand[h].copy] <= deliveries[Carried(h)]
          /\ hand[h].got <= deliveries[Carried(h)]
      BY <1>0, <3>1 DEF HandsDelivered
    <3>3. /\ hand[h].copy \in Copies /\ jobOf[hand[h].copy] \in Jobs
          /\ deliveries[Carried(h)] \in Nat /\ hand[h].got \in Nat
          /\ header[hand[h].copy] \in Nat
      BY <1>0, <3>1, JobConstants DEF HandHasCopy, CopyHasJob, Carried, JobTypeOK, Hand
    <3>4. effectiveAttempt(h) <= deliveries[Carried(h)] /\ effectiveAttempt(h) \in Nat
      BY <3>2, <3>3 DEF effectiveAttempt
    <3>5. effectiveAttempt(h) >= MaxAttempts => deliveries[Carried(h)] >= MaxAttempts
      BY <3>3, <3>4, JobConstants
    <3> QED BY <1>1, <1>4, <2>3, <3>1, <3>5
  <2> QED BY <2>1, <2>2, <2>3
<1> QED BY <1>3, <1>6, <1>7, <1>8, <1>9, <1>10 DEF JobInv

(* A copy of a job goes into the queue: a member of a batch, or the next   *)
(* attempt of a handler that then acknowledges its message.                *)
LEMMA PushCopyKeeps ==
    ASSUME JobInv, NEW j \in Jobs, NEW n \in 0 .. MaxAttempts, n <= deliveries[j] + 1,
           PushCopy(j, n), jobFaults' = jobFaults, UNCHANGED << deliveries, finished >>,
           \/ UNCHANGED hand
           \/ \E h \in Handlers :
                 /\ HandAt(h, "push") /\ Carried(h) = j
                 /\ hand' = [hand EXCEPT ![h].pc = "ack"]
    PROVE  JobInv'
<1>0. /\ JobTypeOK /\ CopiesInOrder /\ CopyHasJob /\ HandHasCopy /\ RetryIsStored
      /\ AttemptsDelivered /\ HandsDelivered /\ VerdictsEarned /\ JobNotLost
      /\ DeadLetterEarned
  BY DEF JobInv
<1>1. PICK c \in Copies :
         /\ place[c] = "absent" /\ \A d \in Copies : place[d] = "absent" => c <= d
         /\ place' = [place EXCEPT ![c] = "waiting"]
         /\ attempt' = [attempt EXCEPT ![c] = 1]
         /\ jobOf' = [jobOf EXCEPT ![c] = j]
         /\ header' = [header EXCEPT ![c] = n]
  BY DEF PushCopy, Fresh, Queue!Accept
<1>2. /\ place'[c] = "waiting" /\ attempt'[c] = 1 /\ jobOf'[c] = j /\ header'[c] = n
      /\ \A d \in Copies : d # c =>
            /\ place'[d] = place[d] /\ attempt'[d] = attempt[d]
            /\ jobOf'[d] = jobOf[d] /\ header'[d] = header[d]
  BY <1>0, <1>1 DEF JobTypeOK, Queue!TypeOK
<1>3. \A d \in Copies : place[d] # "absent" => d < c
  BY <1>0, <1>1 DEF CopiesInOrder, Copies
<1>4. \A h \in Handlers :
         /\ hand'[h].copy = hand[h].copy /\ hand'[h].got = hand[h].got
         /\ hand'[h].verdict = hand[h].verdict
         /\ \/ hand'[h].pc = hand[h].pc
            \/ hand[h].pc = "push" /\ hand'[h].pc = "ack" /\ Carried(h) = j
  <2>1. CASE UNCHANGED hand
    BY <2>1
  <2>2. ASSUME NEW g \in Handlers, HandAt(g, "push"), Carried(g) = j,
               hand' = [hand EXCEPT ![g].pc = "ack"]
        PROVE  \A h \in Handlers :
                  /\ hand'[h].copy = hand[h].copy /\ hand'[h].got = hand[h].got
                  /\ hand'[h].verdict = hand[h].verdict
                  /\ \/ hand'[h].pc = hand[h].pc
                     \/ hand[h].pc = "push" /\ hand'[h].pc = "ack" /\ Carried(h) = j
    BY <1>0, <2>2 DEF JobTypeOK, Hand, HandAt
  <2> QED BY <2>1, <2>2
<1>5. hand' \in [Handlers -> Hand]
  BY <1>0 DEF JobTypeOK, Hand
<1>6. JobTypeOK'
  <2>1. place' \in [Copies -> Queue!Places] /\ attempt' \in [Copies -> Nat]
    BY <1>0, <1>1 DEF JobTypeOK, Queue!TypeOK, Queue!Places
  <2> QED BY <1>0, <1>1, <1>5, <2>1 DEF JobTypeOK, Queue!TypeOK
<1>7. CopiesInOrder' /\ CopyHasJob'
  <2>1. CopiesInOrder'
    BY <1>0, <1>1, <1>2, JobConstants DEF CopiesInOrder, Copies
  <2>2. CopyHasJob'
    BY <1>0, <1>2 DEF CopyHasJob
  <2> QED BY <2>1, <2>2
<1>8. \A h \in Handlers : hand[h].pc # "idle" =>
         /\ hand[h].copy \in Copies /\ hand[h].copy < c /\ place[hand[h].copy] # "absent"
         /\ place'[hand[h].copy] = place[hand[h].copy]
         /\ Carried(h)' = Carried(h) /\ effectiveAttempt(h)' = effectiveAttempt(h)
         /\ header'[hand[h].copy] = header[hand[h].copy]
  <2> SUFFICES ASSUME NEW h \in Handlers, hand[h].pc # "idle"
               PROVE  /\ hand[h].copy \in Copies /\ hand[h].copy < c
                      /\ place[hand[h].copy] # "absent"
                      /\ place'[hand[h].copy] = place[hand[h].copy]
                      /\ Carried(h)' = Carried(h) /\ effectiveAttempt(h)' = effectiveAttempt(h)
                      /\ header'[hand[h].copy] = header[hand[h].copy]
    OBVIOUS
  <2>1. hand[h].copy \in Copies /\ place[hand[h].copy] # "absent" /\ hand[h].copy # c
    BY <1>0, <1>1 DEF HandHasCopy, HandAt
  <2>2. hand[h].copy < c
    BY <1>3, <2>1
  <2> QED BY <1>2, <1>4, <2>1, <2>2 DEF Carried, effectiveAttempt
<1>9. HandHasCopy' /\ HandsDelivered'
  <2> SUFFICES ASSUME NEW h \in Handlers, hand'[h].pc # "idle"
               PROVE  /\ hand'[h].copy \in Copies /\ place'[hand'[h].copy] # "absent"
                      /\ header'[hand'[h].copy] <= deliveries[Carried(h)']
                      /\ hand'[h].got <= deliveries[Carried(h)']
    BY DEF HandHasCopy, HandsDelivered, HandAt
  <2>1. hand[h].pc # "idle"
    BY <1>4
  <2> QED BY <1>0, <1>4, <1>8, <2>1 DEF HandsDelivered, HandAt
<1>10. RetryIsStored'
  <2> SUFFICES ASSUME NEW h \in Handlers, hand'[h].pc = "ack", hand'[h].verdict = "retry"
               PROVE  \/ finished[Carried(h)'] # {}
                      \/ \E d \in Copies :
                            d > hand'[h].copy /\ jobOf'[d] = Carried(h)' /\ Alive(d)'
    BY DEF RetryIsStored, HandAt
  <2>1. CASE hand[h].pc = "push" /\ Carried(h) = j
    BY <1>2, <1>4, <1>8, <2>1, JobConstants DEF Alive, Copies
  <2>2. CASE hand[h].pc = "ack"
    <3>1. \/ finished[Carried(h)] # {}
          \/ \E d \in Copies : d > hand[h].copy /\ jobOf[d] = Carried(h) /\ Alive(d)
      BY <1>0, <1>4, <2>2 DEF RetryIsStored, HandAt
    <3>2. \A d \in Copies : Alive(d) => jobOf'[d] = jobOf[d] /\ Alive(d)'
      BY <1>1, <1>2 DEF Alive
    <3> QED BY <1>4, <1>8, <2>2, <3>1, <3>2
  <2> QED BY <1>4, <2>1, <2>2
<1>11. AttemptsDelivered'
  <2>1. deliveries[j] \in Nat /\ 1 <= deliveries[j] + 1
    BY <1>0 DEF JobTypeOK
  <2> QED BY <1>0, <1>2, <2>1 DEF AttemptsDelivered
<1>12. VerdictsEarned'
  BY <1>0, <1>4, <1>8 DEF VerdictsEarned, HandAt
<1>13. JobNotLost'
  <2> SUFFICES ASSUME NEW d \in Copies, place'[d] # "absent"
               PROVE  \/ finished[jobOf'[d]] # {}
                      \/ \E b \in Copies : jobOf'[b] = jobOf'[d] /\ Alive(b)'
    BY DEF JobNotLost, Pushed, Alive
  <2>1. CASE d = c
    BY <1>2, <2>1 DEF Alive
  <2>2. CASE d # c
    <3>1. \/ finished[jobOf[d]] # {}
          \/ \E b \in Copies : jobOf[b] = jobOf[d] /\ Alive(b)
      BY <1>0, <1>2, <2>2 DEF JobNotLost, Pushed, Alive
    <3>2. \A b \in Copies : Alive(b) => jobOf'[b] = jobOf[b] /\ Alive(b)'
      BY <1>1, <1>2 DEF Alive
    <3> QED BY <1>2, <2>2, <3>1, <3>2
  <2> QED BY <2>1, <2>2
<1>14. DeadLetterEarned'
  BY <1>0 DEF DeadLetterEarned
<1> QED BY <1>6, <1>7, <1>9, <1>10, <1>11, <1>12, <1>13, <1>14 DEF JobInv

(* A message is handed to a worker.                                        *)
LEMMA PopKeeps == ASSUME JobInv, NEW h \in Handlers, Pop(h) PROVE JobInv'
<1>0. /\ JobTypeOK /\ CopiesInOrder /\ CopyHasJob /\ HandHasCopy /\ RetryIsStored
      /\ AttemptsDelivered /\ HandsDelivered /\ VerdictsEarned /\ JobNotLost
      /\ DeadLetterEarned
  BY DEF JobInv
<1>1. PICK c \in Copies :
         /\ HandAt(h, "idle") /\ Queue!Deliver(c)
         /\ hand' = [hand EXCEPT ![h] =
                        [IdleHand EXCEPT !.pc = "run", !.copy = c, !.got = attempt[c]]]
         /\ deliveries' = [deliveries EXCEPT ![jobOf[c]] = @ + 1]
         /\ UNCHANGED << jobOf, header, finished, jobFaults >>
  BY DEF Pop, HandGoto
<1>2. /\ place[c] = "waiting" /\ place' = [place EXCEPT ![c] = "leased"]
      /\ UNCHANGED attempt
  BY <1>1 DEF Queue!Deliver
<1>3. /\ jobOf[c] \in Jobs /\ attempt[c] \in Nat /\ header[c] \in Nat
      /\ \A j \in Jobs : deliveries[j] \in Nat
  BY <1>0, <1>2, JobConstants DEF CopyHasJob, JobTypeOK, Queue!TypeOK
<1>4. /\ \A d \in Copies : place'[d] = IF d = c THEN "leased" ELSE place[d]
      /\ \A j \in Jobs : deliveries'[j] = IF j = jobOf[c] THEN deliveries[j] + 1 ELSE deliveries[j]
  BY <1>0, <1>1, <1>2, <1>3 DEF JobTypeOK, Queue!TypeOK
<1>5. /\ hand'[h].pc = "run" /\ hand'[h].copy = c /\ hand'[h].got = attempt[c]
      /\ \A g \in Handlers : g # h => hand'[g] = hand[g]
      /\ hand' \in [Handlers -> Hand]
  <2>1. [IdleHand EXCEPT !.pc = "run", !.copy = c, !.got = attempt[c]] \in Hand
    BY <1>3 DEF Hand, IdleHand, Verdicts
  <2> QED BY <1>0, <1>1, <2>1 DEF JobTypeOK, IdleHand
<1>6. JobTypeOK'
  <2>1. place' \in [Copies -> Queue!Places]
    BY <1>0, <1>2 DEF JobTypeOK, Queue!TypeOK, Queue!Places
  <2>2. deliveries' \in [Jobs -> Nat]
    BY <1>0, <1>1, <1>3 DEF JobTypeOK
  <2> QED BY <1>0, <1>1, <1>2, <1>5, <2>1, <2>2 DEF JobTypeOK, Queue!TypeOK
<1>7. CopiesInOrder' /\ CopyHasJob'
  BY <1>0, <1>1, <1>2, <1>4 DEF CopiesInOrder, CopyHasJob
<1>8. HandHasCopy'
  BY <1>0, <1>4, <1>5 DEF HandHasCopy, HandAt
<1>9. \A d \in Copies : Alive(d) => Alive(d)'
  BY <1>4 DEF Alive
<1>10. RetryIsStored'
  <2> SUFFICES ASSUME NEW g \in Handlers, hand'[g].pc = "ack", hand'[g].verdict = "retry"
               PROVE  \/ finished[Carried(g)'] # {}
                      \/ \E d \in Copies :
                            d > hand'[g].copy /\ jobOf[d] = Carried(g)' /\ Alive(d)'
    BY <1>1 DEF RetryIsStored, HandAt
  <2>1. hand'[g] = hand[g] /\ Carried(g)' = Carried(g)
    BY <1>1, <1>5 DEF Carried
  <2> QED BY <1>0, <1>9, <2>1 DEF RetryIsStored, HandAt
<1>11. AttemptsDelivered'
  <2> SUFFICES ASSUME NEW d \in Copies
               PROVE  /\ place'[d] = "waiting" =>
                            /\ header[d] <= deliveries'[jobOf[d]] + 1
                            /\ attempt[d] <= deliveries'[jobOf[d]] + 1
                      /\ place'[d] = "leased" =>
                            /\ header[d] <= deliveries'[jobOf[d]]
                            /\ attempt[d] <= deliveries'[jobOf[d]]
    BY <1>1, <1>2 DEF AttemptsDelivered
  <2>1. attempt[d] \in Nat /\ header[d] \in Nat
    BY <1>0, JobConstants DEF JobTypeOK, Queue!TypeOK
  <2>2. place'[d] # "absent" /\ place[d] # "absent" => jobOf[d] \in Jobs
    BY <1>0 DEF CopyHasJob
  <2>3. CASE d = c
    BY <1>0, <1>2, <1>3, <1>4, <2>1, <2>3 DEF AttemptsDelivered
  <2>4. CASE d # c
    BY <1>0, <1>3, <1>4, <2>1, <2>2, <2>4 DEF AttemptsDelivered
  <2> QED BY <2>3, <2>4
<1>12. HandsDelivered'
  <2> SUFFICES ASSUME NEW g \in Handlers, hand'[g].pc # "idle"
               PROVE  /\ header[hand'[g].copy] <= deliveries'[Carried(g)']
                      /\ hand'[g].got <= deliveries'[Carried(g)']
    BY <1>1 DEF HandsDelivered, HandAt
  <2>1. CASE g = h
    <3>1. Carried(h)' = jobOf[c]
      BY <1>1, <1>5 DEF Carried
    <3>2. header[c] <= deliveries[jobOf[c]] + 1 /\ attempt[c] <= deliveries[jobOf[c]] + 1
      BY <1>0, <1>2 DEF AttemptsDelivered
    <3> QED BY <1>3, <1>4, <1>5, <2>1, <3>1, <3>2
  <2>2. CASE g # h
    <3>1. hand'[g] = hand[g] /\ Carried(g)' = Carried(g)
      BY <1>1, <1>5, <2>2 DEF Carried
    <3>2. Carried(g) \in Jobs /\ header[hand[g].copy] \in Nat /\ hand[g].got \in Nat
      BY <1>0, <3>1, JobConstants DEF HandHasCopy, CopyHasJob, HandAt, Carried, JobTypeOK, Hand
    <3>3. deliveries[Carried(g)] <= deliveries'[Carried(g)]
      BY <1>3, <1>4, <3>2
    <3>4. deliveries[Carried(g)] \in Nat /\ deliveries'[Carried(g)] \in Nat
      BY <1>3, <1>4, <3>2
    <3> QED BY <1>0, <3>1, <3>2, <3>3, <3>4 DEF HandsDelivered, HandAt
  <2> QED BY <2>1, <2>2
<1>13. VerdictsEarned'
  <2> SUFFICES ASSUME NEW g \in Handlers
               PROVE  /\ hand'[g].pc = "push" =>
                            hand'[g].verdict = "retry" /\ effectiveAttempt(g)' < MaxAttempts
                      /\ hand'[g].pc = "ack" /\ hand'[g].verdict = "dead" =>
                            deliveries'[Carried(g)'] >= MaxAttempts
    BY DEF VerdictsEarned, HandAt
  <2>1. CASE g = h
    BY <1>5, <2>1
  <2>2. CASE g # h
    <3>1. /\ hand'[g] = hand[g] /\ Carried(g)' = Carried(g)
          /\ effectiveAttempt(g)' = effectiveAttempt(g)
      BY <1>1, <1>5, <2>2 DEF Carried, effectiveAttempt
    <3>2. hand[g].pc # "idle" => Carried(g) \in Jobs
      BY <1>0 DEF HandHasCopy, CopyHasJob, HandAt, Carried
    <3>3. hand[g].pc # "idle" =>
             deliveries[Carried(g)] \in Nat /\ deliveries'[Carried(g)] >= deliveries[Carried(g)]
             /\ deliveries'[Carried(g)] \in Nat
      BY <1>3, <1>4, <3>2
    <3> QED BY <1>0, <3>1, <3>3, JobConstants DEF VerdictsEarned, HandAt
  <2> QED BY <2>1, <2>2
<1>14. JobNotLost'
  <2> SUFFICES ASSUME NEW d \in Copies, place'[d] # "absent"
               PROVE  \/ finished[jobOf[d]] # {}
                      \/ \E b \in Copies : jobOf[b] = jobOf[d] /\ Alive(b)'
    BY <1>1 DEF JobNotLost, Pushed, Alive
  <2>1. place[d] # "absent"
    BY <1>2, <1>4
  <2>2. \/ finished[jobOf[d]] # {}
        \/ \E b \in Copies : jobOf[b] = jobOf[d] /\ Alive(b)
    BY <1>0, <2>1 DEF JobNotLost, Pushed, Alive
  <2> QED BY <1>9, <2>2
<1>15. DeadLetterEarned'
  <2> SUFFICES ASSUME NEW j \in Jobs, "dead" \in finished[j]
               PROVE  deliveries'[j] >= MaxAttempts
    BY <1>1 DEF DeadLetterEarned
  <2>1. deliveries[j] >= MaxAttempts
    BY <1>0 DEF DeadLetterEarned
  <2> QED BY <1>3, <1>4, <2>1, JobConstants
<1> QED
  BY <1>6, <1>7, <1>8, <1>10, <1>11, <1>12, <1>13, <1>14, <1>15 DEF JobInv

(* A delivery's time is up: the message waits again.                       *)
LEMMA LapseKeeps == ASSUME JobInv, NEW c \in Copies, LapseJob(c) PROVE JobInv'
<1>0. /\ JobTypeOK /\ CopiesInOrder /\ CopyHasJob /\ HandHasCopy /\ RetryIsStored
      /\ AttemptsDelivered /\ HandsDelivered /\ VerdictsEarned /\ JobNotLost
      /\ DeadLetterEarned
  BY DEF JobInv
<1>1. /\ place[c] = "leased"
      /\ place' = [d \in Copies |-> IF d \in {c} THEN "waiting" ELSE place[d]]
      /\ attempt' = [d \in Copies |-> IF d \in {c} THEN attempt[d] + 1 ELSE attempt[d]]
      /\ UNCHANGED << jobOf, header, hand, deliveries, finished >>
      /\ jobFaults' = jobFaults \/ (jobFaults < MaxJobFaults /\ jobFaults' = jobFaults + 1)
  BY DEF LapseJob, Queue!Return, JobFault
<1>2. /\ \A d \in Copies : place'[d] = IF d = c THEN "waiting" ELSE place[d]
      /\ \A d \in Copies : attempt'[d] = IF d = c THEN attempt[d] + 1 ELSE attempt[d]
      /\ \A d \in Copies : Alive(d)' <=> Alive(d)
  BY <1>0, <1>1 DEF Alive
<1>3. JobTypeOK'
  <2>1. place' \in [Copies -> Queue!Places] /\ attempt' \in [Copies -> Nat]
    BY <1>0, <1>1 DEF JobTypeOK, Queue!TypeOK, Queue!Places
  <2>2. jobFaults' \in 0 .. MaxJobFaults
    BY <1>0, <1>1, JobConstants DEF JobTypeOK
  <2> QED BY <1>0, <1>1, <2>1, <2>2 DEF JobTypeOK, Queue!TypeOK
<1>4. CopiesInOrder' /\ CopyHasJob' /\ HandHasCopy'
  BY <1>0, <1>1, <1>2 DEF CopiesInOrder, CopyHasJob, HandHasCopy, HandAt
<1>5. AttemptsDelivered'
  <2>1. deliveries[jobOf[c]] \in Nat /\ attempt[c] \in Nat /\ header[c] \in Nat
    BY <1>0, <1>1, JobConstants DEF CopyHasJob, JobTypeOK, Queue!TypeOK
  <2>2. header[c] <= deliveries[jobOf[c]] /\ attempt[c] <= deliveries[jobOf[c]]
    BY <1>0, <1>1 DEF AttemptsDelivered
  <2>3. header[c] <= deliveries[jobOf[c]] + 1 /\ attempt'[c] <= deliveries[jobOf[c]] + 1
    BY <1>2, <2>1, <2>2
  <2> QED BY <1>0, <1>1, <1>2, <2>3 DEF AttemptsDelivered
<1>6. RetryIsStored'
  BY <1>0, <1>1, <1>2 DEF RetryIsStored, HandAt, Carried
<1>7. JobNotLost'
  BY <1>0, <1>1, <1>2 DEF JobNotLost, Pushed, Alive
<1>8. HandsDelivered' /\ VerdictsEarned' /\ DeadLetterEarned'
  BY <1>0, <1>1
     DEF HandsDelivered, VerdictsEarned, DeadLetterEarned, HandAt, Carried, effectiveAttempt
<1> QED BY <1>3, <1>4, <1>5, <1>6, <1>7, <1>8 DEF JobInv

(* The Ack goes through: a retry leaves its newer copy behind, a success   *)
(* or a dead letter is on record.                                          *)
LEMMA AckKeeps == ASSUME JobInv, NEW h \in Handlers, AckJob(h) PROVE JobInv'
<1>0. /\ JobTypeOK /\ CopiesInOrder /\ CopyHasJob /\ HandHasCopy /\ RetryIsStored
      /\ AttemptsDelivered /\ HandsDelivered /\ VerdictsEarned /\ JobNotLost
      /\ DeadLetterEarned
  BY DEF JobInv
<1>a. IdleHand \in Hand /\ IdleHand.pc = "idle"
  BY DEF IdleHand, Hand, Verdicts
<1>1. CASE JobFault /\ HandGoto(h, IdleHand) /\ UNCHANGED << place, attempt, finished >>
  <2>1. jobFaults' \in 0 .. MaxJobFaults
    BY <1>0, <1>1, JobConstants DEF JobFault, JobTypeOK
  <2>2. HandMoves(h)
    BY <1>1, <1>a, <2>1 DEF AckJob, HandMoves, HandGoto, queueVars
  <2> QED BY <2>2, HandMovesKeeps
<1>2. CASE /\ Removed(hand[h].copy, hand[h].got)
           /\ IF hand[h].verdict = "retry"
              THEN HandGoto(h, IdleHand) /\ UNCHANGED finished
              ELSE /\ HandGoto(h, [hand[h] EXCEPT !.pc = "incr"])
                   /\ finished' = [finished EXCEPT ![Carried(h)] = @ \union {hand[h].verdict}]
           /\ UNCHANGED jobFaults
  <2> DEFINE c == hand[h].copy
             j == Carried(h)
  <2>1. /\ hand[h].pc = "ack" /\ hand[h] \in Hand /\ c \in Copies /\ place[c] # "absent"
        /\ j \in Jobs /\ j = jobOf[c]
        /\ UNCHANGED << jobOf, header, deliveries, jobFaults >>
    BY <1>0, <1>2 DEF AckJob, HandAt, HandHasCopy, CopyHasJob, Carried, JobTypeOK
  <2>2. /\ \A d \in Copies : d # c => place'[d] = place[d] /\ attempt'[d] = attempt[d]
        /\ \/ place'[c] = place[c] /\ attempt'[c] = attempt[c]
           \/ place'[c] = "gone" /\ attempt'[c] = 0
        /\ place' \in [Copies -> Queue!Places] /\ attempt' \in [Copies -> Nat]
    BY <1>0, <1>2, <2>1 DEF Removed, Queue!Remove, JobTypeOK, Queue!TypeOK, Queue!Places
  <2>3. /\ \A g \in Handlers : g # h => hand'[g] = hand[g]
        /\ \/ hand'[h] = IdleHand
           \/ /\ hand'[h].pc = "incr" /\ hand'[h].copy = c /\ hand'[h].got = hand[h].got
              /\ hand'[h].verdict = hand[h].verdict
        /\ hand' \in [Handlers -> Hand]
    <3>1. CASE hand[h].verdict = "retry"
      BY <1>0, <1>2, <1>a, <3>1 DEF HandGoto, JobTypeOK
    <3>2. CASE hand[h].verdict # "retry"
      <4>1. hand' = [hand EXCEPT ![h] = [hand[h] EXCEPT !.pc = "incr"]]
        BY <1>2, <3>2 DEF HandGoto
      <4>2. [hand[h] EXCEPT !.pc = "incr"] \in Hand
        BY <2>1 DEF Hand
      <4> QED BY <1>0, <2>1, <4>1, <4>2 DEF JobTypeOK, Hand
    <3> QED BY <3>1, <3>2
  <2>4. /\ \A i \in Jobs : finished[i] \subseteq finished'[i]
        /\ \A i \in Jobs : "dead" \in finished'[i] =>
              "dead" \in finished[i] \/ (i = j /\ hand[h].verdict = "dead")
        /\ hand[h].verdict = "retry" \/ finished'[j] # {}
        /\ finished' \in [Jobs -> SUBSET {"success", "dead"}]
    <3>1. CASE hand[h].verdict = "retry"
      BY <1>0, <1>2, <3>1 DEF JobTypeOK
    <3>2. CASE hand[h].verdict # "retry"
      <4>1. hand[h].verdict \in {"success", "dead"}
        BY <2>1, <3>2 DEF Hand, Verdicts
      <4>2. finished' = [finished EXCEPT ![j] = finished[j] \union {hand[h].verdict}]
        BY <1>2, <3>2
      <4> QED BY <1>0, <2>1, <4>1, <4>2 DEF JobTypeOK
    <3> QED BY <3>1, <3>2
  <2>5. JobTypeOK'
    BY <1>0, <2>1, <2>2, <2>3, <2>4 DEF JobTypeOK, Queue!TypeOK
  <2>6. CopiesInOrder' /\ CopyHasJob'
    BY <1>0, <2>1, <2>2 DEF CopiesInOrder, CopyHasJob
  <2>7. HandHasCopy' /\ HandsDelivered'
    BY <1>0, <1>a, <2>1, <2>2, <2>3 DEF HandHasCopy, HandsDelivered, HandAt, Carried
  <2>8. ASSUME NEW b \in Copies, Alive(b)
        PROVE  \/ finished'[jobOf[b]] # {}
               \/ \E d \in Copies : d >= b /\ jobOf[d] = jobOf[b] /\ Alive(d)'
    <3>0. b \in Nat /\ b >= b
      BY JobConstants DEF Copies
    <3>1. CASE b # c \/ place'[c] = place[c]
      BY <2>2, <2>8, <3>0, <3>1 DEF Alive
    <3>2. CASE b = c /\ hand[h].verdict # "retry"
      BY <2>1, <2>4, <3>2
    <3>3. CASE b = c /\ hand[h].verdict = "retry"
      <4>1. \/ finished[j] # {}
            \/ \E d \in Copies : d > c /\ jobOf[d] = j /\ Alive(d)
        BY <1>0, <2>1, <3>3 DEF RetryIsStored, HandAt
      <4>2. CASE finished[j] # {}
        BY <2>1, <2>4, <3>3, <4>2
      <4>3. ASSUME NEW d \in Copies, d > c, jobOf[d] = j, Alive(d)
            PROVE  \E e \in Copies : e >= b /\ jobOf[e] = jobOf[b] /\ Alive(e)'
        <5>1. d # c /\ d >= b
          BY <3>0, <3>3, <4>3, JobConstants DEF Copies
        <5> QED BY <2>1, <2>2, <3>3, <4>3, <5>1 DEF Alive
      <4> QED BY <4>1, <4>2, <4>3
    <3> QED BY <3>1, <3>2, <3>3
  <2>9. RetryIsStored'
    <3> SUFFICES ASSUME NEW g \in Handlers, hand'[g].pc = "ack", hand'[g].verdict = "retry"
                 PROVE  \/ finished'[Carried(g)'] # {}
                        \/ \E d \in Copies :
                              d > hand'[g].copy /\ jobOf[d] = Carried(g)' /\ Alive(d)'
      BY <2>1 DEF RetryIsStored, HandAt
    <3>1. g # h /\ hand'[g] = hand[g] /\ Carried(g)' = Carried(g)
      BY <1>a, <2>1, <2>3 DEF Carried
    <3>2. hand[g].copy \in Copies /\ Carried(g) \in Jobs
      BY <1>0, <3>1 DEF HandHasCopy, CopyHasJob, HandAt, Carried
    <3>3. \/ finished[Carried(g)] # {}
          \/ \E d \in Copies : d > hand[g].copy /\ jobOf[d] = Carried(g) /\ Alive(d)
      BY <1>0, <3>1 DEF RetryIsStored, HandAt
    <3>4. CASE finished[Carried(g)] # {}
      BY <2>4, <3>1, <3>2, <3>4
    <3>5. ASSUME NEW d \in Copies, d > hand[g].copy, jobOf[d] = Carried(g), Alive(d)
          PROVE  \/ finished'[Carried(g)'] # {}
                 \/ \E e \in Copies :
                       e > hand'[g].copy /\ jobOf[e] = Carried(g)' /\ Alive(e)'
      <4>1. \A e \in Copies : e >= d => e > hand[g].copy
        BY <3>2, <3>5, JobConstants DEF Copies
      <4> QED BY <2>8, <3>1, <3>5, <4>1
    <3> QED BY <3>3, <3>4, <3>5
  <2>10. AttemptsDelivered'
    BY <1>0, <2>1, <2>2 DEF AttemptsDelivered
  <2>11. VerdictsEarned'
    BY <1>0, <1>a, <2>1, <2>3 DEF VerdictsEarned, HandAt, Carried, effectiveAttempt
  <2>12. JobNotLost'
    <3> SUFFICES ASSUME NEW d \in Copies, place'[d] # "absent"
                 PROVE  \/ finished'[jobOf[d]] # {}
                        \/ \E b \in Copies : jobOf[b] = jobOf[d] /\ Alive(b)'
      BY <2>1 DEF JobNotLost, Pushed, Alive
    <3>1. place[d] # "absent" /\ jobOf[d] \in Jobs
      BY <1>0, <2>1, <2>2 DEF CopyHasJob
    <3>2. \/ finished[jobOf[d]] # {}
          \/ \E b \in Copies : jobOf[b] = jobOf[d] /\ Alive(b)
      BY <1>0, <3>1 DEF JobNotLost, Pushed, Alive
    <3>3. CASE finished[jobOf[d]] # {}
      BY <2>4, <3>1, <3>3
    <3> QED BY <2>8, <3>2, <3>3
  <2>13. DeadLetterEarned'
    <3> SUFFICES ASSUME NEW i \in Jobs, "dead" \in finished'[i]
                 PROVE  deliveries[i] >= MaxAttempts
      BY <2>1 DEF DeadLetterEarned
    <3> QED BY <1>0, <2>1, <2>4 DEF DeadLetterEarned, VerdictsEarned, HandAt
  <2> QED
    BY <2>5, <2>6, <2>7, <2>9, <2>10, <2>11, <2>12, <2>13 DEF JobInv
<1> QED BY <1>1, <1>2 DEF AckJob

(* A handler's outcome is its verdict on the attempt it was handed.        *)
LEMMA RunKeeps == ASSUME JobInv, NEW h \in Handlers, RunHandler(h) PROVE JobInv'
<1>1. hand[h] \in Hand /\ jobFaults \in 0 .. MaxJobFaults
  BY DEF JobInv, JobTypeOK
<1>2. /\ [hand[h] EXCEPT !.pc = "ack", !.verdict = "success"] \in Hand
      /\ [hand[h] EXCEPT !.verdict = "dead", !.pc = "ack"] \in Hand
      /\ [hand[h] EXCEPT !.verdict = "retry", !.pc = "push"] \in Hand
  BY <1>1 DEF Hand, Verdicts
<1>3. HandMoves(h)
  <2>0. /\ ~HandAt(h, "idle") /\ jobFaults' \in 0 .. MaxJobFaults
        /\ UNCHANGED << queueVars, deliveries, finished >>
    BY <1>1 DEF RunHandler, HandAt
  <2>1. CASE HandGoto(h, [hand[h] EXCEPT !.pc = "ack", !.verdict = "success"])
    <3> DEFINE next == [hand[h] EXCEPT !.pc = "ack", !.verdict = "success"]
    <3>1. /\ next.copy = hand[h].copy /\ next.got = hand[h].got
          /\ next.pc = "ack" /\ next.verdict = "success"
      BY <1>1 DEF Hand
    <3>2. next \in Hand /\ hand' = [hand EXCEPT ![h] = next]
      BY <1>2, <2>1 DEF HandGoto
    <3> HIDE DEF next
    <3> QED BY <2>0, <3>1, <3>2 DEF HandMoves
  <2>2. CASE /\ Verdict(h) = "dead"
             /\ hand' = [hand EXCEPT ![h] = [hand[h] EXCEPT !.verdict = "dead", !.pc = "ack"]]
    <3> DEFINE next == [hand[h] EXCEPT !.verdict = "dead", !.pc = "ack"]
    <3>1. /\ next.copy = hand[h].copy /\ next.got = hand[h].got
          /\ next.pc = "ack" /\ next.verdict = "dead"
      BY <1>1 DEF Hand
    <3>2. next \in Hand /\ hand' = [hand EXCEPT ![h] = next]
      BY <1>2, <2>2
    <3>3. effectiveAttempt(h) >= MaxAttempts
      BY <2>2 DEF Verdict
    <3> HIDE DEF next
    <3> QED BY <2>0, <3>1, <3>2, <3>3 DEF HandMoves
  <2>3. CASE /\ Verdict(h) = "retry"
             /\ hand' = [hand EXCEPT ![h] = [hand[h] EXCEPT !.verdict = "retry", !.pc = "push"]]
    <3> DEFINE next == [hand[h] EXCEPT !.verdict = "retry", !.pc = "push"]
    <3>1. /\ next.copy = hand[h].copy /\ next.got = hand[h].got
          /\ next.pc = "push" /\ next.verdict = "retry"
      BY <1>1 DEF Hand
    <3>2. next \in Hand /\ hand' = [hand EXCEPT ![h] = next]
      BY <1>2, <2>3
    <3>3. effectiveAttempt(h) < MaxAttempts
      <4>1. hand[h].copy \in Copies /\ header[hand[h].copy] \in Nat /\ hand[h].got \in Nat
        BY <1>1, <2>0, JobConstants DEF JobInv, HandHasCopy, JobTypeOK, Hand
      <4>2. effectiveAttempt(h) \in Nat
        BY <4>1 DEF effectiveAttempt
      <4>3. ~(effectiveAttempt(h) >= MaxAttempts)
        BY <2>3 DEF Verdict
      <4> QED BY <4>2, <4>3, JobConstants
    <3> HIDE DEF next
    <3> QED BY <2>0, <3>1, <3>2, <3>3 DEF HandMoves
  <2>4. Verdict(h) \in {"dead", "retry"}
    BY DEF Verdict
  <2> QED BY <2>1, <2>2, <2>3, <2>4 DEF RunHandler, HandGoto
<1> QED BY <1>3, HandMovesKeeps

(* The next attempt goes into the queue, or the handler gives up on it.    *)
LEMMA RetryKeeps == ASSUME JobInv, NEW h \in Handlers, PushRetry(h) PROVE JobInv'
<1>1. /\ hand[h] \in Hand /\ jobFaults \in 0 .. MaxJobFaults /\ HandAt(h, "push")
      /\ UNCHANGED << deliveries, finished >>
  BY DEF JobInv, JobTypeOK, PushRetry
<1>2. CASE /\ PushCopy(Carried(h), effectiveAttempt(h) + 1)
           /\ HandGoto(h, [hand[h] EXCEPT !.pc = "ack"])
           /\ UNCHANGED jobFaults
  <2>1. hand[h].copy \in Copies /\ place[hand[h].copy] # "absent"
    BY <1>1 DEF JobInv, HandHasCopy, HandAt
  <2>2. Carried(h) \in Jobs
    BY <2>1 DEF JobInv, CopyHasJob, Carried
  <2>3. /\ header[hand[h].copy] \in Nat /\ hand[h].got \in Nat /\ deliveries[Carried(h)] \in Nat
        /\ header[hand[h].copy] <= deliveries[Carried(h)]
        /\ hand[h].got <= deliveries[Carried(h)]
    BY <1>1, <2>1, <2>2, JobConstants DEF JobInv, JobTypeOK, Hand, HandsDelivered, HandAt
  <2>4. effectiveAttempt(h) \in Nat /\ effectiveAttempt(h) <= deliveries[Carried(h)]
    BY <2>3 DEF effectiveAttempt
  <2>5. effectiveAttempt(h) < MaxAttempts
    BY <1>1 DEF JobInv, VerdictsEarned
  <2>6. /\ effectiveAttempt(h) + 1 \in 0 .. MaxAttempts
        /\ effectiveAttempt(h) + 1 <= deliveries[Carried(h)] + 1
    BY <2>3, <2>4, <2>5, JobConstants
  <2>7. hand' = [hand EXCEPT ![h].pc = "ack"]
    BY <1>2 DEF HandGoto
  <2> QED BY <1>1, <1>2, <2>2, <2>6, <2>7, PushCopyKeeps
<1>3. CASE /\ JobFault
           /\ HandGoto(h, IdleHand)
           /\ UNCHANGED queueVars
  <2>1. IdleHand \in Hand
    BY DEF IdleHand, Hand, Verdicts
  <2>2. jobFaults' \in 0 .. MaxJobFaults
    BY <1>1, <1>3, JobConstants DEF JobFault
  <2>3. HandMoves(h)
    BY <1>1, <1>3, <2>1, <2>2 DEF HandMoves, HandGoto
  <2> QED BY <2>3, HandMovesKeeps
<1> QED BY <1>2, <1>3 DEF PushRetry

(* A worker's process dies.                                                *)
LEMMA DeathKeeps == ASSUME JobInv, NEW h \in Handlers, HandlerDies(h) PROVE JobInv'
<1>1. IdleHand \in Hand
  BY DEF IdleHand, Hand, Verdicts
<1>2. jobFaults' \in 0 .. MaxJobFaults
  BY JobConstants DEF HandlerDies, JobFault, JobInv, JobTypeOK
<1>3. HandMoves(h)
  BY <1>1, <1>2 DEF HandMoves, HandlerDies, HandGoto
<1> QED BY <1>3, HandMovesKeeps

(* A report to the batch changes nothing but where its handler is.         *)
LEMMA ReportKeeps == ASSUME JobInv, NEW h \in Handlers, Report(h) PROVE JobInv'
<1>1. /\ hand[h] \in Hand /\ jobFaults' \in 0 .. MaxJobFaults /\ ~HandAt(h, "idle")
      /\ UNCHANGED << queueVars, deliveries, finished >>
  BY DEF JobInv, JobTypeOK, Report, ReportCount, ReportFlag, ReportGet, ReportDrop, HandAt,
         WorkerIdle
<1>2. IdleHand \in Hand
  BY DEF IdleHand, Hand, Verdicts
<1>3. \/ hand' = [hand EXCEPT ![h] = IdleHand]
      \/ \E pc \in {"flag", "get", "drop"} : \E v \in Verdicts :
            hand' = [hand EXCEPT ![h] = [hand[h] EXCEPT !.pc = pc, !.verdict = v]]
  <2>0. hand[h].verdict \in Verdicts /\ hand[h] = [hand[h] EXCEPT !.verdict = hand[h].verdict]
    BY <1>1 DEF Hand
  <2>1. \A pc \in {"flag", "get", "drop"} :
           [hand[h] EXCEPT !.pc = pc] = [hand[h] EXCEPT !.pc = pc, !.verdict = hand[h].verdict]
    BY <1>1 DEF Hand
  <2>2. CASE ReportCount(h) \/ ReportFlag(h)
    BY <2>0, <2>1, <2>2 DEF ReportCount, ReportFlag, HandPC, ReportEnds, HandGoto
  <2>3. CASE ReportGet(h)
    <3>1. (IF Success(h) /\ store.failed = 0 THEN "success" ELSE "dead") \in Verdicts
      BY DEF Verdicts
    <3> QED BY <2>3, <3>1 DEF ReportGet, ReportEnds, HandGoto
  <2>4. CASE ReportDrop(h)
    BY <2>4 DEF ReportDrop, ReportEnds, HandGoto
  <2> QED BY <2>2, <2>3, <2>4 DEF Report
<1>4. CASE hand' = [hand EXCEPT ![h] = IdleHand]
  <2>1. HandMoves(h)
    BY <1>1, <1>2, <1>4 DEF HandMoves
  <2> QED BY <2>1, HandMovesKeeps
<1>5. ASSUME NEW pc \in {"flag", "get", "drop"}, NEW v \in Verdicts,
             hand' = [hand EXCEPT ![h] = [hand[h] EXCEPT !.pc = pc, !.verdict = v]]
      PROVE  JobInv'
  <2> DEFINE next == [hand[h] EXCEPT !.pc = pc, !.verdict = v]
  <2>1. next \in Hand /\ next.copy = hand[h].copy /\ next.got = hand[h].got /\ next.pc = pc
    BY <1>1 DEF Hand
  <2>2. hand' = [hand EXCEPT ![h] = next]
    BY <1>5
  <2> HIDE DEF next
  <2>3. HandMoves(h)
    BY <1>1, <2>1, <2>2 DEF HandMoves
  <2> QED BY <2>3, HandMovesKeeps
<1> QED BY <1>3, <1>4, <1>5

(* Every step keeps the invariant of the workers.                          *)
LEMMA JobInvStep == JobInv /\ dispatch.unsent \subseteq Jobs /\ [BatchNext]_allVars => JobInv'
<1> SUFFICES ASSUME JobInv, dispatch.unsent \subseteq Jobs, [BatchNext]_allVars PROVE JobInv'
  OBVIOUS
<1>1. CASE UNCHANGED jobVars
  BY <1>1 DEF jobVars, queueVars, JobInv, JobTypeOK, Queue!TypeOK, CopiesInOrder, CopyHasJob,
              HandHasCopy, RetryIsStored, AttemptsDelivered, HandsDelivered, VerdictsEarned,
              JobNotLost, DeadLetterEarned, Pushed, HandAt, Carried, effectiveAttempt, Alive
<1>2. CASE PushMember
  <2>1. PICK j \in Jobs :
          \/ PushCopy(j, 0) /\ UNCHANGED jobFaults
          \/ JobFault /\ UNCHANGED queueVars
    BY <1>2 DEF PushMember
  <2>2. UNCHANGED << hand, deliveries, finished >>
    BY <1>2 DEF PushMember
  <2>3. CASE PushCopy(j, 0) /\ UNCHANGED jobFaults
    <3>1. 0 \in 0 .. MaxAttempts /\ 0 <= deliveries[j] + 1
      BY JobConstants DEF JobInv, JobTypeOK
    <3> QED BY <2>2, <2>3, <3>1, PushCopyKeeps
  <2>4. CASE JobFault /\ UNCHANGED queueVars
    <3>1. jobFaults' \in 0 .. MaxJobFaults
      BY <2>4, JobConstants DEF JobFault, JobInv, JobTypeOK
    <3> QED
      BY <2>2, <2>4, <3>1
         DEF queueVars, JobInv, JobTypeOK, Queue!TypeOK, CopiesInOrder, CopyHasJob,
             HandHasCopy, RetryIsStored, AttemptsDelivered, HandsDelivered, VerdictsEarned,
             JobNotLost, DeadLetterEarned, Pushed, HandAt, Carried, effectiveAttempt, Alive
  <2> QED BY <2>1, <2>3, <2>4
<1>3. CASE DispatchStep
  BY <1>1, <1>2, <1>3
     DEF DispatchStep, Create, CountUnsent, CatchUnsent, AllSent, SettleDispatch
<1>4. ASSUME NEW h \in Handlers,
             Pop(h) \/ HandlerDies(h) \/ HandlerStep(h) \/ Report(h)
      PROVE  JobInv'
  BY <1>4, PopKeeps, DeathKeeps, RunKeeps, RetryKeeps, AckKeeps, ReportKeeps DEF HandlerStep
<1>5. CASE DeadlinePasses \/ \E s \in Sweepers : SweepDue(s) \/ SweepStep(s)
  BY <1>1, <1>5
     DEF DeadlinePasses, SweepDue, SweepStep, SweepCAS, SweepCount, SweepLose, SweepFinal,
         SweepDelete, SweepRelease, SweepFrame
<1>6. CASE UNCHANGED allVars
  BY <1>1, <1>6 DEF allVars
<1> QED BY <1>3, <1>4, <1>5, <1>6, LapseKeeps DEF BatchNext, WorkerStep

-----------------------------------------------------------------------------
(* Then tells the truth.  The counter of successes never exceeds the jobs  *)
(* that were reported and succeeded, as long as none is reported twice, so *)
(* it reaches the total only when all did.  A Catch leaves a mark that     *)
(* keeps Then away: a job that can no longer be counted as a success, or   *)
(* a sweeper that took the batch over for good.                            *)

OnceEach == \A j \in Jobs : reports[j] <= 1
Succeeded == {j \in Jobs : reports[j] >= 1 /\ "success" \in finished[j]}
HasCopy(j) == \E c \in Copies : place[c] # "absent" /\ jobOf[c] = j

(* What was reported, and what was not pushed.                             *)
ReportsHaveCopies == \A j \in Jobs : reports[j] >= 1 => HasCopy(j)
UnsentHasNoCopy == \A j \in dispatch.unsent : ~HasCopy(j)
FailureLeavesOne ==
    /\ dispatch.failures > 0 => \E j \in Jobs \ dispatch.unsent : ~HasCopy(j)
    /\ dispatch.pc \in {"incr", "catch"} => dispatch.failures > 0
CreateFirst ==
    dispatch.pc = "create" => callback = "none" /\ \A s \in Sweepers : SweepAt(s, "idle")

(* What the counter of successes counts.                                   *)
SuccessIsFinished ==
    \A h \in Handlers : HandAt(h, "incr") /\ Success(h) => "success" \in finished[Carried(h)]
CompletedSucceeded == OnceEach => store.completed <= Cardinality(Succeeded)

(* Job j can no longer be counted as a success.                            *)
Doomed(j) ==
    /\ reports[j] >= 1 \/ (~HasCopy(j) /\ j \notin dispatch.unsent)
    /\ store.completed <= Cardinality(Succeeded \ {j})
FailedIsDoomed ==
    OnceEach => \A h \in Handlers : HandAt(h, "flag") /\ ~Success(h) => Doomed(Carried(h))

(* Then is called when all are counted as successes.                       *)
ThenIsLast ==
    /\ thens = 1 => store.completed >= Total
    /\ \A h \in Handlers : HandAt(h, "drop") /\ Success(h) => store.completed >= Total

(* One sweeper settles the batch, and what it knows.                       *)
Settles(s) == sweep[s].pc \in {"count", "lose", "final", "delete", "release"}
OneSettles ==
    /\ \A s \in Sweepers : Settles(s) => settling
    /\ \A s, t \in Sweepers : Settles(s) /\ Settles(t) => s = t
LoserComesFirst ==
    \A s \in Sweepers : SweepAt(s, "lose") =>
        thens = 0 /\ sweep[s].lost > 0 /\ store.completed + store.failed + sweep[s].lost >= Total
SweeperFinishes ==
    storeErrors = 0 =>
        \A s \in Sweepers :
            /\ sweep[s].pc \in {"final", "delete"} => Settled
            /\ SweepAt(s, "release") => callback = "removed"

TakenOver == thens = 0 /\ store.failed > 0 /\ (settling \/ callback = "removed")
CatchLeavesMark ==
    (storeErrors = 0 /\ OnceEach /\ catches > 0) => TakenOver \/ \E j \in Jobs : Doomed(j)

BatchInv ==
    /\ BatchTypeOK /\ JobInv
    /\ ReportsHaveCopies /\ UnsentHasNoCopy /\ FailureLeavesOne /\ CreateFirst
    /\ SuccessIsFinished /\ CompletedSucceeded /\ FailedIsDoomed
    /\ ThenIsLast /\ OneSettles /\ LoserComesFirst /\ SweeperFinishes /\ CatchLeavesMark

(* The initial state.                                                      *)
LEMMA BatchInvInit == BatchInit => BatchInv
<1> SUFFICES ASSUME BatchInit PROVE BatchInv
  OBVIOUS
<1>1. JobInv
  BY JobInvInit DEF BatchInit
<1>2. BatchTypeOK
  <2>1. store \in [completed : Nat, failed : Nat] /\ catches \in Nat /\ thens \in 0 .. 1
    BY DEF BatchInit
  <2>2. dispatch \in [pc : {"create", "push", "incr", "catch", "settle", "done"},
                     unsent : SUBSET Jobs, failures : Nat]
    BY DEF BatchInit
  <2>3. sweep \in [Sweepers -> [pc : {"idle", "cas", "count", "lose", "final", "delete", "release"},
                               lost : Nat]]
    BY DEF BatchInit
  <2>4. reports \in [Jobs -> Nat] /\ storeErrors \in 0 .. MaxStoreErrors
    BY BatchConstants DEF BatchInit
  <2> QED BY <1>1, <2>1, <2>2, <2>3, <2>4 DEF BatchTypeOK, BatchInit, JobInv
<1>3. (\A h \in Handlers : HandAt(h, "idle")) /\ (\A c \in Copies : place[c] = "absent")
  BY DEF BatchInit, JobInit, HandAt, IdleHand, Queue!Init
<1>4. /\ store.completed = 0 /\ (\A j \in Jobs : reports[j] = 0) /\ thens = 0 /\ catches = 0
      /\ dispatch.failures = 0 /\ dispatch.pc = "create" /\ callback = "none"
      /\ \A s \in Sweepers : sweep[s].pc = "idle"
  BY DEF BatchInit
<1>5. ReportsHaveCopies /\ UnsentHasNoCopy /\ FailureLeavesOne /\ CreateFirst
  BY <1>3, <1>4 DEF ReportsHaveCopies, UnsentHasNoCopy, FailureLeavesOne, CreateFirst, HasCopy, SweepAt
<1>6. SuccessIsFinished /\ FailedIsDoomed /\ ThenIsLast
  BY <1>3, <1>4 DEF SuccessIsFinished, FailedIsDoomed, ThenIsLast, HandAt
<1>7. CompletedSucceeded
  <2>1. IsFiniteSet(Succeeded)
    BY FS_Subset, BatchConstants DEF Succeeded
  <2>2. Cardinality(Succeeded) \in Nat
    BY <2>1, FS_CardinalityType
  <2> QED BY <1>4, <2>2 DEF CompletedSucceeded
<1>8. OneSettles /\ LoserComesFirst /\ SweeperFinishes /\ CatchLeavesMark
  BY <1>4 DEF OneSettles, LoserComesFirst, SweeperFinishes, CatchLeavesMark, Settles, SweepAt
<1> QED BY <1>1, <1>2, <1>5, <1>6, <1>7, <1>8 DEF BatchInv

(* The counters' types.                                                    *)
SweepRow == [pc : {"idle", "cas", "count", "lose", "final", "delete", "release"}, lost : Nat]
DispatchRow == [pc : {"create", "push", "incr", "catch", "settle", "done"},
                unsent : SUBSET Jobs, failures : Nat]

(* What a sweeper is set to has its type.                                  *)
LEMMA SweepRows == \A pc \in {"idle", "cas", "count", "lose", "final", "delete", "release"} :
                      \A n \in Nat : [pc |-> pc, lost |-> n] \in SweepRow
BY DEF SweepRow

(* The two sums a sweeper compares are numbers.                            *)
LEMMA LostType == BatchTypeOK => Lost \in Nat /\ Total \in Nat
<1> SUFFICES ASSUME BatchTypeOK PROVE Lost \in Nat /\ Total \in Nat
  OBVIOUS
<1>1. Total \in Nat
  BY FS_CardinalityType, BatchConstants DEF Total
<1>2. store.completed \in Nat /\ store.failed \in Nat
  BY DEF BatchTypeOK
<1> QED BY <1>1, <1>2 DEF Lost, Settled

(* Dispatch's record keeps its type, and forgets no member it sent.        *)
LEMMA DispatchStepType ==
    ASSUME BatchTypeOK, [BatchNext]_allVars
    PROVE  /\ dispatch' \in DispatchRow /\ dispatch \in DispatchRow
           /\ dispatch'.unsent \subseteq dispatch.unsent
           /\ dispatch.unsent \subseteq Jobs
<1>1. /\ dispatch \in DispatchRow /\ dispatch.unsent \subseteq Jobs /\ dispatch.failures \in Nat
      /\ dispatch.pc \in {"create", "push", "incr", "catch", "settle", "done"}
  BY DEF BatchTypeOK, DispatchRow
<1>2. \/ UNCHANGED dispatch
      \/ \E pc \in {"create", "push", "incr", "catch", "settle", "done"} :
            dispatch' = [dispatch EXCEPT !.pc = pc]
      \/ \E j \in Jobs : dispatch' = [dispatch EXCEPT !.unsent = @ \ {j}]
      \/ \E j \in Jobs :
            dispatch' = [dispatch EXCEPT !.pc = "incr", !.unsent = @ \ {j}, !.failures = @ + 1]
  <2>1. CASE DispatchStep
    <3>1. CASE PushMember
      BY <1>1, <3>1 DEF PushMember
    <3> QED BY <2>1, <3>1 DEF DispatchStep, Create, CountUnsent, CatchUnsent, AllSent, SettleDispatch, DispatchGoto
  <2>2. ASSUME NEW h \in Handlers, Report(h) PROVE UNCHANGED dispatch
    BY <2>2 DEF Report, ReportCount, ReportFlag, ReportGet, ReportDrop, WorkerIdle
  <2>3. ASSUME NEW s \in Sweepers, SweepDue(s) \/ SweepStep(s) PROVE UNCHANGED dispatch
    BY <2>3 DEF SweepDue, SweepStep, SweepCAS, SweepCount, SweepLose, SweepFinal, SweepDelete,
                SweepRelease, SweepFrame
  <2> QED BY <2>1, <2>2, <2>3 DEF BatchNext, WorkerStep, DeadlinePasses, batchVars, allVars
<1>3. CASE UNCHANGED dispatch
  BY <1>1, <1>3
<1>4. ASSUME NEW pc \in {"create", "push", "incr", "catch", "settle", "done"},
             dispatch' = [dispatch EXCEPT !.pc = pc]
      PROVE  dispatch' \in DispatchRow /\ dispatch'.unsent \subseteq dispatch.unsent
  BY <1>1, <1>4 DEF DispatchRow
<1>5. ASSUME NEW j \in Jobs,
             \/ dispatch' = [dispatch EXCEPT !.unsent = @ \ {j}]
             \/ dispatch' = [dispatch EXCEPT !.pc = "incr", !.unsent = @ \ {j}, !.failures = @ + 1]
      PROVE  dispatch' \in DispatchRow /\ dispatch'.unsent \subseteq dispatch.unsent
  <2>1. dispatch.unsent \ {j} \in SUBSET Jobs /\ dispatch.failures + 1 \in Nat
    BY <1>1
  <2> QED BY <1>1, <1>5, <2>1 DEF DispatchRow
<1> QED BY <1>1, <1>2, <1>3, <1>4, <1>5

(* Every step keeps the types of workers and batches.                      *)
LEMMA BatchTypeStep ==
    ASSUME BatchTypeOK, JobInv, [BatchNext]_allVars
    PROVE  BatchTypeOK' /\ JobInv'
<1>1. JobInv'
  BY JobInvStep, DispatchStepType
<1>2. dispatch' \in DispatchRow
  BY DispatchStepType
<1>t. /\ store \in [completed : Nat, failed : Nat]
      /\ callback \in {"none", "registered", "removed"}
      /\ settling \in BOOLEAN /\ due \in BOOLEAN
      /\ sweep \in [Sweepers -> SweepRow]
      /\ thens \in 0 .. 1 /\ catches \in Nat /\ reports \in [Jobs -> Nat]
      /\ storeErrors \in 0 .. MaxStoreErrors
  BY DEF BatchTypeOK, SweepRow
<1>b. settling' \in BOOLEAN /\ due' \in BOOLEAN
  <2>1. settling' = settling \/ settling' = TRUE \/ settling' = FALSE
    BY DEF BatchNext, DispatchStep, Create, PushMember, CountUnsent, CatchUnsent, AllSent, SettleDispatch,
           WorkerStep, Report, ReportCount, ReportFlag, ReportGet, ReportDrop, DeadlinePasses, SweepDue,
           SweepStep, SweepCAS, SweepCount, SweepLose, SweepFinal, SweepDelete, SweepRelease,
           batchVars, allVars
  <2>2. due' = due \/ due' = TRUE
    BY DEF BatchNext, DispatchStep, Create, PushMember, CountUnsent, CatchUnsent, AllSent, SettleDispatch,
           WorkerStep, Report, ReportCount, ReportFlag, ReportGet, ReportDrop, DeadlinePasses, SweepDue,
           SweepStep, SweepCAS, SweepCount, SweepLose, SweepFinal, SweepDelete, SweepRelease,
           batchVars, allVars, WorkerIdle, SweepFrame
  <2> QED BY <1>t, <2>1, <2>2, Zenon
<1> DEFINE Rest ==
      /\ store' \in [completed : Nat, failed : Nat]
      /\ callback' \in {"none", "registered", "removed"}
      /\ sweep' \in [Sweepers -> SweepRow]
      /\ thens' \in 0 .. 1 /\ catches' \in Nat /\ reports' \in [Jobs -> Nat]
      /\ storeErrors' \in 0 .. MaxStoreErrors
<1>3. ASSUME UNCHANGED batchVars PROVE Rest
  BY <1>t, <1>3 DEF batchVars
<1>4. ASSUME DispatchStep PROVE Rest
  <2>1. CASE Create
    BY <1>t, <2>1, BatchConstants DEF Create, StoreOK, StoreError
  <2>2. CASE PushMember
    BY <1>t, <2>2 DEF PushMember
  <2>3. CASE CountUnsent
    BY <1>t, <2>3, BatchConstants DEF CountUnsent, StoreOK, StoreError, Failed
  <2>4. CASE CatchUnsent
    BY <1>t, <2>4 DEF CatchUnsent
  <2>5. CASE AllSent
    BY <1>t, <2>5 DEF AllSent
  <2>6. CASE SettleDispatch
    BY <1>t, <2>6, BatchConstants DEF SettleDispatch, StoreOK, StoreError
  <2> QED BY <1>4, <2>1, <2>2, <2>3, <2>4, <2>5, <2>6 DEF DispatchStep
<1>5. ASSUME NEW h \in Handlers, Report(h) PROVE Rest
  <2>1. CASE ReportCount(h)
    <3>1. Carried(h) \in Jobs
      BY <2>1 DEF JobInv, ReportCount, HandHasCopy, CopyHasJob, HandAt, Carried
    <3>2. reports[Carried(h)] + 1 \in Nat
      BY <1>t, <3>1
    <3> QED BY <1>t, <2>1, <3>1, <3>2, BatchConstants
            DEF ReportCount, StoreOK, StoreError, Failed, Completed, WorkerIdle
  <2>2. CASE ReportFlag(h) \/ ReportGet(h) \/ ReportDrop(h)
    BY <1>t, <2>2, BatchConstants
       DEF ReportFlag, ReportGet, ReportDrop, StoreOK, StoreError, WorkerIdle, CompleteOnce
  <2> QED BY <1>5, <2>1, <2>2 DEF Report
<1>6. ASSUME DeadlinePasses PROVE Rest
  BY <1>t, <1>6 DEF DeadlinePasses
<1>7. ASSUME NEW s \in Sweepers, SweepDue(s) \/ SweepStep(s) PROVE Rest
  <2>1. \A pc \in {"idle", "cas", "count", "lose", "final", "delete", "release"} :
           \A n \in Nat : SweepGoto(s, pc, n) => sweep' \in [Sweepers -> SweepRow]
    BY <1>t, SweepRows DEF SweepGoto
  <2>2. Lost \in Nat
    BY LostType
  <2>3. sweep[s].lost \in Nat
    BY <1>t DEF SweepRow
  <2>4. CASE SweepDue(s) \/ SweepCAS(s)
    BY <1>t, <2>1, <2>4 DEF SweepDue, SweepCAS, SweepFrame
  <2>5. CASE SweepCount(s)
    BY <1>t, <2>1, <2>2, <2>5, BatchConstants DEF SweepCount, SweepFrame, StoreOK, StoreError
  <2>6. CASE SweepLose(s)
    BY <1>t, <2>1, <2>3, <2>6, BatchConstants DEF SweepLose, SweepFrame, StoreOK, StoreError, Failed
  <2>7. CASE SweepFinal(s)
    BY <1>t, <2>1, <2>7, BatchConstants DEF SweepFinal, SweepFrame, StoreOK, StoreError, CompleteOnce
  <2>8. CASE SweepDelete(s) \/ SweepRelease(s)
    BY <1>t, <2>1, <2>8 DEF SweepDelete, SweepRelease, SweepFrame
  <2> QED BY <1>7, <2>4, <2>5, <2>6, <2>7, <2>8 DEF SweepStep
<1>8. Rest
  BY <1>3, <1>4, <1>5, <1>6, <1>7 DEF BatchNext, WorkerStep, allVars
<1> QED BY <1>1, <1>2, <1>b, <1>8 DEF BatchTypeOK, JobInv, DispatchRow, SweepRow

(* Which jobs have a copy changes only when Dispatch pushes a member: a    *)
(* retry is of a job that has one.                                         *)
LEMMA CopyChange ==
    ASSUME BatchTypeOK, JobInv, [BatchNext]_allVars
    PROVE  /\ \A j \in Jobs : HasCopy(j) => HasCopy(j)'
           /\ \A j \in Jobs : HasCopy(j)' =>
                 HasCopy(j) \/ (j \in dispatch.unsent /\ j \notin dispatch'.unsent)
<1>t. /\ place \in [Copies -> Queue!Places] /\ jobOf \in [Copies -> Jobs \union {NoJob}]
      /\ dispatch \in DispatchRow
  BY DEF JobInv, JobTypeOK, Queue!TypeOK, BatchTypeOK, DispatchRow
<1>1. ASSUME UNCHANGED jobOf,
             \A c \in Copies : place'[c] = "absent" <=> place[c] = "absent"
      PROVE  \A j \in Jobs : HasCopy(j)' <=> HasCopy(j)
  BY <1>1 DEF HasCopy
<1>2. ASSUME NEW j \in Jobs, NEW n, PushCopy(j, n)
      PROVE  \A i \in Jobs : HasCopy(i)' <=> HasCopy(i) \/ i = j
  <2>1. PICK c \in Copies :
           /\ place[c] = "absent"
           /\ place' = [place EXCEPT ![c] = "waiting"]
           /\ jobOf' = [jobOf EXCEPT ![c] = j]
    BY <1>2 DEF PushCopy, Fresh, Queue!Accept
  <2>2. \A d \in Copies : /\ place'[d] = IF d = c THEN "waiting" ELSE place[d]
                          /\ jobOf'[d] = IF d = c THEN j ELSE jobOf[d]
    BY <1>t, <2>1
  <2> QED BY <2>1, <2>2 DEF HasCopy
<1>3. CASE PushMember
  <2>1. PICK j \in dispatch.unsent :
           \/ /\ PushCopy(j, 0)
              /\ dispatch' = [dispatch EXCEPT !.unsent = @ \ {j}]
           \/ UNCHANGED queueVars
    BY <1>3 DEF PushMember
  <2>2. j \in Jobs
    BY <1>t DEF DispatchRow
  <2>3. CASE UNCHANGED queueVars
    BY <1>1, <2>3 DEF queueVars
  <2>4. CASE PushCopy(j, 0) /\ dispatch' = [dispatch EXCEPT !.unsent = @ \ {j}]
    <3>1. j \notin dispatch'.unsent
      BY <1>t, <2>4 DEF DispatchRow
    <3> QED BY <1>2, <2>2, <2>4, <3>1
  <2> QED BY <2>1, <2>3, <2>4
<1>4. CASE DispatchStep /\ ~PushMember
  BY <1>1, <1>4
     DEF DispatchStep, Create, CountUnsent, CatchUnsent, AllSent, SettleDispatch, jobVars, queueVars
<1>5. ASSUME NEW h \in Handlers, PushRetry(h)
      PROVE  \A j \in Jobs : HasCopy(j)' <=> HasCopy(j)
  <2>1. /\ hand[h].copy \in Copies /\ place[hand[h].copy] # "absent"
        /\ Carried(h) \in Jobs /\ HasCopy(Carried(h))
    BY <1>5 DEF PushRetry, JobInv, HandHasCopy, CopyHasJob, HandAt, Carried, HasCopy
  <2>2. CASE PushCopy(Carried(h), effectiveAttempt(h) + 1)
    BY <1>2, <2>1, <2>2
  <2>3. CASE UNCHANGED queueVars
    BY <1>1, <2>3 DEF queueVars
  <2> QED BY <1>5, <2>2, <2>3 DEF PushRetry
<1>6. ASSUME NEW h \in Handlers, Pop(h) \/ AckJob(h)
      PROVE  \A j \in Jobs : HasCopy(j)' <=> HasCopy(j)
  <2>1. CASE Pop(h)
    BY <1>t, <1>1, <2>1 DEF Pop, Queue!Deliver
  <2>2. CASE AckJob(h)
    <3>1. hand[h].copy \in Copies
      BY <2>2 DEF AckJob, JobInv, HandHasCopy, HandAt
    <3> QED BY <1>t, <1>1, <2>2, <3>1 DEF AckJob, Removed, Queue!Remove
  <2> QED BY <1>6, <2>1, <2>2
<1>7. ASSUME NEW c \in Copies, LapseJob(c)
      PROVE  \A j \in Jobs : HasCopy(j)' <=> HasCopy(j)
  BY <1>t, <1>1, <1>7 DEF LapseJob, Queue!Return
<1>8. ASSUME NEW h \in Handlers, RunHandler(h) \/ HandlerDies(h) \/ Report(h)
      PROVE  \A j \in Jobs : HasCopy(j)' <=> HasCopy(j)
  BY <1>1, <1>8 DEF RunHandler, HandlerDies, Report, ReportCount, ReportFlag, ReportGet, ReportDrop,
                    WorkerIdle, queueVars
<1>9. CASE DeadlinePasses \/ (\E s \in Sweepers : SweepDue(s) \/ SweepStep(s)) \/ UNCHANGED allVars
  BY <1>1, <1>9
     DEF DeadlinePasses, SweepDue, SweepStep, SweepCAS, SweepCount, SweepLose, SweepFinal,
         SweepDelete, SweepRelease, SweepFrame, jobVars, queueVars, allVars
<1> QED BY <1>3, <1>4, <1>5, <1>6, <1>7, <1>8, <1>9 DEF BatchNext, WorkerStep, HandlerStep

(* What a report counts; no other step counts a success.                   *)
Counts(h) ==
    /\ HandAt(h, "incr")
    /\ store'.completed = IF Success(h) THEN store.completed + 1 ELSE store.completed
    /\ reports' = [reports EXCEPT ![Carried(h)] = @ + 1]
    /\ HandPC(h, "flag")
    /\ UNCHANGED finished

(* What a step may do to the counters of the batch.                        *)
LEMMA CountChange ==
    ASSUME BatchTypeOK, JobInv, [BatchNext]_allVars
    PROVE  \/ /\ store'.completed = store.completed
              /\ UNCHANGED reports
              /\ \A j \in Jobs : finished[j] \subseteq finished'[j]
           \/ \E h \in Handlers : Counts(h)
<1>t. /\ store \in [completed : Nat, failed : Nat] /\ finished \in [Jobs -> SUBSET {"success", "dead"}]
      /\ reports \in [Jobs -> Nat]
  BY DEF BatchTypeOK, JobTypeOK
<1>1. CASE DispatchStep
  <2>1. UNCHANGED << reports, finished >>
    BY <1>1 DEF DispatchStep, Create, PushMember, CountUnsent, CatchUnsent, AllSent, SettleDispatch,
                jobVars
  <2>2. store'.completed = store.completed
    BY <1>t, <1>1 DEF DispatchStep, Create, PushMember, CountUnsent, CatchUnsent, AllSent, SettleDispatch,
                Failed
  <2> QED BY <2>1, <2>2
<1>2. ASSUME NEW h \in Handlers, Report(h)
      PROVE  \/ store'.completed = store.completed /\ UNCHANGED << reports, finished >>
             \/ Counts(h)
  <2>1. CASE ReportCount(h)
    <3>1. \/ UNCHANGED << store, reports, finished >>
          \/ /\ store' = IF Success(h) THEN Completed(1) ELSE Failed(1)
             /\ reports' = [reports EXCEPT ![Carried(h)] = @ + 1]
             /\ HandPC(h, "flag") /\ HandAt(h, "incr")
             /\ UNCHANGED finished
      BY <2>1 DEF ReportCount, WorkerIdle
    <3>2. store' = (IF Success(h) THEN Completed(1) ELSE Failed(1)) =>
             store'.completed = IF Success(h) THEN store.completed + 1 ELSE store.completed
      BY <1>t DEF Completed, Failed
    <3> QED BY <3>1, <3>2 DEF Counts
  <2>2. CASE ReportFlag(h) \/ ReportGet(h) \/ ReportDrop(h)
    BY <2>2 DEF ReportFlag, ReportGet, ReportDrop, WorkerIdle
  <2> QED BY <1>2, <2>1, <2>2 DEF Report
<1>3. ASSUME NEW h \in Handlers, Pop(h) \/ HandlerDies(h) \/ HandlerStep(h)
      PROVE  \A j \in Jobs : finished[j] \subseteq finished'[j]
  <2>1. CASE AckJob(h)
    <3>1. UNCHANGED finished \/
          finished' = [finished EXCEPT ![Carried(h)] = @ \union {hand[h].verdict}]
      BY <2>1 DEF AckJob
    <3> QED BY <1>t, <3>1
  <2>2. CASE UNCHANGED finished
    BY <2>2
  <2> QED BY <1>3, <2>1, <2>2 DEF HandlerStep, Pop, HandlerDies, RunHandler, PushRetry
<1>4. CASE DeadlinePasses \/ UNCHANGED allVars
  BY <1>4 DEF DeadlinePasses, allVars, jobVars, batchVars
<1>5. ASSUME NEW s \in Sweepers, SweepDue(s) \/ SweepStep(s)
      PROVE  store'.completed = store.completed /\ UNCHANGED << reports, finished >>
  BY <1>t, <1>5
     DEF SweepDue, SweepStep, SweepCAS, SweepCount, SweepLose, SweepFinal,
         SweepDelete, SweepRelease, SweepFrame, jobVars, Failed
<1>6. ASSUME NEW c \in Copies, LapseJob(c) PROVE UNCHANGED finished
  BY <1>6 DEF LapseJob
<1> QED BY <1>1, <1>2, <1>3, <1>4, <1>5, <1>6 DEF BatchNext, WorkerStep, batchVars

(* The jobs that succeeded are finitely many.                              *)
LEMMA SucceededFinite ==
    /\ IsFiniteSet(Succeeded) /\ Cardinality(Succeeded) \in Nat /\ Succeeded \subseteq Jobs
    /\ \A j : IsFiniteSet(Succeeded \ {j}) /\ Cardinality(Succeeded \ {j}) \in Nat
<1>1. Succeeded \subseteq Jobs /\ \A j : Succeeded \ {j} \subseteq Jobs
  BY DEF Succeeded
<1> QED BY <1>1, FS_Subset, FS_CardinalityType, BatchConstants

(* Successes only grow.                                                    *)
LEMMA MoreSucceed ==
    ASSUME Succeeded \subseteq Succeeded'
    PROVE  /\ Cardinality(Succeeded) <= Cardinality(Succeeded')
           /\ \A j : Cardinality(Succeeded \ {j}) <= Cardinality(Succeeded' \ {j})
<1>1. Succeeded' \subseteq Jobs
  BY DEF Succeeded
<1>2. IsFiniteSet(Succeeded') /\ \A j : IsFiniteSet(Succeeded' \ {j})
  BY <1>1, FS_Subset, BatchConstants
<1>3. \A j : Succeeded \ {j} \subseteq Succeeded' \ {j}
  OBVIOUS
<1> QED BY <1>2, <1>3, FS_Subset

(* The counter follows the jobs that succeeded.                            *)
LEMMA CountStep ==
    ASSUME BatchInv, [BatchNext]_allVars, BatchTypeOK', OnceEach'
    PROVE  /\ OnceEach
           /\ store'.completed <= Cardinality(Succeeded')
           /\ \A j \in Jobs : Doomed(j) => Doomed(j)'
<1>t. /\ BatchTypeOK /\ JobInv
      /\ reports \in [Jobs -> Nat] /\ store.completed \in Nat
  BY DEF BatchInv, BatchTypeOK
<1>u. \A j \in Jobs : ~HasCopy(j) /\ j \notin dispatch.unsent =>
         ~HasCopy(j)' /\ j \notin dispatch'.unsent
  BY <1>t, CopyChange, DispatchStepType
<1>1. CASE /\ store'.completed = store.completed
           /\ UNCHANGED reports
           /\ \A j \in Jobs : finished[j] \subseteq finished'[j]
  <2>1. OnceEach
    BY <1>1 DEF OnceEach
  <2>2. Succeeded \subseteq Succeeded'
    BY <1>1 DEF Succeeded
  <2>3. /\ Cardinality(Succeeded) <= Cardinality(Succeeded')
        /\ \A j : Cardinality(Succeeded \ {j}) <= Cardinality(Succeeded' \ {j})
    BY <2>2, MoreSucceed
  <2>4. store.completed <= Cardinality(Succeeded)
    BY <2>1 DEF BatchInv, CompletedSucceeded
  <2>5. Cardinality(Succeeded') \in Nat /\ \A j : Cardinality(Succeeded' \ {j}) \in Nat
    <3>1. Succeeded' \subseteq Jobs /\ \A j : Succeeded' \ {j} \subseteq Jobs
      BY DEF Succeeded
    <3> QED BY <3>1, FS_Subset, FS_CardinalityType, BatchConstants
  <2>6. \A j \in Jobs : Doomed(j) => Doomed(j)'
    <3> SUFFICES ASSUME NEW j \in Jobs, Doomed(j) PROVE Doomed(j)'
      OBVIOUS
    <3>1. reports'[j] >= 1 \/ (~HasCopy(j)' /\ j \notin dispatch'.unsent)
      BY <1>1, <1>u DEF Doomed
    <3>2. Cardinality(Succeeded \ {j}) \in Nat /\ Cardinality(Succeeded' \ {j}) \in Nat
      BY <2>5, SucceededFinite
    <3>3. Cardinality(Succeeded \ {j}) <= Cardinality(Succeeded' \ {j})
      BY <2>3
    <3>4. store.completed <= Cardinality(Succeeded \ {j})
      BY DEF Doomed
    <3>5. store'.completed <= Cardinality(Succeeded' \ {j})
      BY <1>1, <1>t, <3>2, <3>3, <3>4
    <3> QED BY <3>1, <3>5 DEF Doomed
  <2> QED BY <1>1, <1>t, <2>1, <2>3, <2>4, <2>5, <2>6, SucceededFinite
<1>2. ASSUME NEW h \in Handlers, Counts(h)
      PROVE  /\ OnceEach
             /\ store'.completed <= Cardinality(Succeeded')
             /\ \A j \in Jobs : Doomed(j) => Doomed(j)'
  <2> DEFINE i == Carried(h)
  <2>1. i \in Jobs /\ HasCopy(i)
    BY <1>t, <1>2 DEF Counts, JobInv, HandHasCopy, CopyHasJob, HandAt, Carried, HasCopy
  <2>2. /\ reports[i] = 0 /\ reports'[i] = 1
        /\ \A j \in Jobs : j # i => reports'[j] = reports[j]
    BY <1>t, <1>2, <2>1 DEF Counts, OnceEach
  <2>3. OnceEach
    BY <2>2 DEF OnceEach
  <2>4. i \notin Succeeded
    BY <2>2 DEF Succeeded
  <2>5. Succeeded' = IF "success" \in finished[i] THEN Succeeded \union {i} ELSE Succeeded
    BY <1>2, <2>1, <2>2 DEF Succeeded, Counts
  <2>6. Success(h) => Succeeded' = Succeeded \union {i}
    BY <1>2, <2>5 DEF BatchInv, SuccessIsFinished, Counts
  <2>7. /\ Cardinality(Succeeded \union {i}) = Cardinality(Succeeded) + 1
        /\ \A j : j # i => Cardinality((Succeeded \ {j}) \union {i}) = Cardinality(Succeeded \ {j}) + 1
    BY <2>4, FS_AddElement, SucceededFinite
  <2>8. Succeeded \subseteq Succeeded'
    BY <2>5
  <2>9. store.completed <= Cardinality(Succeeded)
    BY <2>3 DEF BatchInv, CompletedSucceeded
  <2>10. Cardinality(Succeeded') \in Nat /\ \A j : Cardinality(Succeeded' \ {j}) \in Nat
    <3>1. Succeeded' \subseteq Jobs /\ \A j : Succeeded' \ {j} \subseteq Jobs
      BY DEF Succeeded
    <3> QED BY <3>1, FS_Subset, FS_CardinalityType, BatchConstants
  <2>11. store'.completed <= Cardinality(Succeeded')
    <3>1. CASE Success(h)
      BY <1>2, <1>t, <2>6, <2>7, <2>9, <3>1, SucceededFinite DEF Counts
    <3>2. CASE ~Success(h)
      BY <1>2, <1>t, <2>8, <2>9, <2>10, <3>2, MoreSucceed, SucceededFinite DEF Counts
    <3> QED BY <3>1, <3>2
  <2>12. ASSUME NEW j \in Jobs, Doomed(j) PROVE Doomed(j)'
    <3>1. j # i
      BY <2>1, <2>2, <2>12 DEF Doomed
    <3>2. reports'[j] >= 1 \/ (~HasCopy(j)' /\ j \notin dispatch'.unsent)
      BY <1>u, <2>2, <2>12, <3>1 DEF Doomed
    <3>3. store.completed <= Cardinality(Succeeded \ {j})
      BY <2>12 DEF Doomed
    <3>n. Cardinality(Succeeded \ {j}) \in Nat /\ Cardinality(Succeeded' \ {j}) \in Nat
      BY <2>10, SucceededFinite
    <3>4. store'.completed <= Cardinality(Succeeded' \ {j})
      <4>1. CASE Success(h)
        <5>1. Succeeded' \ {j} = (Succeeded \ {j}) \union {i}
          BY <2>6, <3>1, <4>1
        <5>2. Cardinality(Succeeded' \ {j}) = Cardinality(Succeeded \ {j}) + 1
          BY <2>7, <3>1, <5>1
        <5> QED BY <1>2, <1>t, <3>3, <3>n, <4>1, <5>2 DEF Counts
      <4>2. CASE ~Success(h)
        <5>1. Cardinality(Succeeded \ {j}) <= Cardinality(Succeeded' \ {j})
          BY <2>8, MoreSucceed
        <5>2. store'.completed = store.completed
          BY <1>2, <4>2 DEF Counts
        <5> QED BY <1>t, <3>3, <3>n, <5>1, <5>2
      <4> QED BY <4>1, <4>2
    <3> QED BY <3>2, <3>4 DEF Doomed
  <2> QED BY <2>3, <2>11, <2>12
<1> QED BY <1>1, <1>2, <1>t, CountChange

(* What one step may do to the store, the callbacks and the sweepers.      *)
ThensChange ==
    thens' = 1 =>
        \/ thens = 1
        \/ \E h \in Handlers :
              HandAt(h, "drop") /\ Success(h) /\ callback = "registered" /\ ~settling
        \/ \E s \in Sweepers :
              SweepAt(s, "final") /\ store.completed + store.failed >= Total /\ store.failed = 0
CatchesChange ==
    catches' > 0 =>
        \/ catches > 0
        \/ dispatch.pc = "catch"
        \/ \E h \in Handlers : HandAt(h, "flag") /\ ~Success(h)
        \/ \E s \in Sweepers :
              SweepAt(s, "lose") /\ store' = Failed(sweep[s].lost) /\ UNCHANGED << settling, thens >>
SettlingChange ==
    settling => settling' \/ \E s \in Sweepers : SweepAt(s, "release") /\ UNCHANGED callback
CallbackChange ==
    \/ UNCHANGED callback
    \/ callback' = "removed" /\ ~DispatchAt("create")
    \/ callback' = "registered" /\ DispatchAt("create") /\ ~DispatchAt("create")'
SweepChange ==
    \A s \in Sweepers :
        \/ sweep'[s] = sweep[s]
        \/ /\ SweepDue(s) \/ SweepStep(s)
           /\ \A t \in Sweepers : t # s => sweep'[t] = sweep[t]
StoreChange ==
    /\ storeErrors' = 0 => storeErrors = 0
    /\ store'.failed >= store.failed

(* What a step may do to the state of the batch.                           *)
LEMMA BatchChange ==
    ASSUME BatchInv, [BatchNext]_allVars
    PROVE  /\ ThensChange /\ CatchesChange /\ SettlingChange /\ CallbackChange /\ SweepChange
           /\ StoreChange
<1>t. /\ store \in [completed : Nat, failed : Nat] /\ catches \in Nat /\ thens \in 0 .. 1
      /\ storeErrors \in 0 .. MaxStoreErrors /\ sweep \in [Sweepers -> SweepRow]
      /\ dispatch \in DispatchRow /\ settling \in BOOLEAN
  BY DEF BatchInv, BatchTypeOK, SweepRow, DispatchRow
<1> DEFINE Goal == /\ ThensChange /\ CatchesChange /\ SettlingChange /\ CallbackChange /\ SweepChange
                   /\ StoreChange
<1>1. ASSUME UNCHANGED << store, callback, settling, sweep, thens, catches, storeErrors >>
      PROVE  Goal
  BY <1>1, <1>t DEF ThensChange, CatchesChange, SettlingChange, CallbackChange, SweepChange, StoreChange
<1>2. ASSUME DispatchStep PROVE Goal
  <2>1. ASSUME Create PROVE Goal
    <3>1. dispatch'.pc # "create"
      BY <1>t, <2>1 DEF Create, DispatchGoto, DispatchRow
    <3> QED BY <1>t, <2>1, <3>1, BatchConstants DEF Create, StoreOK, StoreError, DispatchAt, ThensChange, CatchesChange,
            SettlingChange, CallbackChange, SweepChange, StoreChange
  <2>2. CASE PushMember \/ AllSent
    BY <1>1, <2>2 DEF PushMember, AllSent
  <2>3. ASSUME CountUnsent PROVE Goal
    BY <1>t, <2>3, BatchConstants DEF CountUnsent, StoreOK, StoreError, Failed, ThensChange, CatchesChange,
            SettlingChange, CallbackChange, SweepChange, StoreChange
  <2>4. ASSUME CatchUnsent PROVE Goal
    BY <1>t, <2>4 DEF CatchUnsent, DispatchAt, ThensChange, CatchesChange,
            SettlingChange, CallbackChange, SweepChange, StoreChange
  <2>6. ASSUME SettleDispatch PROVE Goal
    BY <1>t, <2>6, BatchConstants DEF SettleDispatch, StoreOK, StoreError, DispatchAt, ThensChange, CatchesChange,
            SettlingChange, CallbackChange, SweepChange, StoreChange
  <2> QED BY <1>2, <2>1, <2>2, <2>3, <2>4, <2>6 DEF DispatchStep
<1>3. ASSUME NEW h \in Handlers, Report(h) PROVE Goal
  <2>1. ASSUME ReportCount(h) PROVE Goal
    BY <1>t, <2>1, BatchConstants DEF ReportCount, StoreOK, StoreError, Failed, Completed, WorkerIdle, ThensChange, CatchesChange,
            SettlingChange, CallbackChange, SweepChange, StoreChange
  <2>2. ASSUME ReportFlag(h) PROVE Goal
    BY <1>t, <2>2 DEF ReportFlag, WorkerIdle, ThensChange, CatchesChange,
            SettlingChange, CallbackChange, SweepChange, StoreChange
  <2>3. ASSUME ReportGet(h) PROVE Goal
    BY <1>t, <2>3, BatchConstants DEF ReportGet, StoreOK, StoreError, WorkerIdle, ThensChange, CatchesChange,
            SettlingChange, CallbackChange, SweepChange, StoreChange
  <2>4. ASSUME ReportDrop(h) PROVE Goal
    <3>1. callback = "registered" => ~DispatchAt("create")
      BY DEF BatchInv, CreateFirst, DispatchAt
    <3> QED BY <1>t, <2>4, <3>1 DEF ReportDrop, Sees, WorkerIdle, ThensChange, CatchesChange,
            SettlingChange, CallbackChange, SweepChange, StoreChange
  <2> QED BY <1>3, <2>1, <2>2, <2>3, <2>4 DEF Report
<1>4. ASSUME NEW s \in Sweepers, SweepDue(s) \/ SweepStep(s) PROVE Goal
  <2>1. \A pc, n : SweepGoto(s, pc, n) => \A t \in Sweepers : t # s => sweep'[t] = sweep[t]
    BY <1>t DEF SweepGoto
  <2>2. SweepChange
    <3>1. \A t \in Sweepers : t # s => sweep'[t] = sweep[t]
      BY <1>4, <2>1 DEF SweepDue, SweepStep, SweepCAS, SweepCount, SweepLose, SweepFinal, SweepDelete, SweepRelease
    <3> QED BY <1>4, <3>1 DEF SweepChange
  <2>3. CASE SweepDue(s) \/ SweepCAS(s) \/ SweepCount(s)
    BY <1>t, <2>2, <2>3, BatchConstants
       DEF SweepDue, SweepCAS, SweepCount, StoreOK, StoreError, ThensChange, CatchesChange,
           SettlingChange, CallbackChange, StoreChange
  <2>4. CASE SweepLose(s)
    <3>1. sweep[s].lost \in Nat
      BY <1>t DEF SweepRow
    <3> QED BY <1>t, <2>2, <2>4, <3>1, BatchConstants
       DEF SweepLose, StoreOK, StoreError, Failed, ThensChange, CatchesChange,
           SettlingChange, CallbackChange, StoreChange
  <2>5. CASE SweepFinal(s)
    BY <1>t, <2>2, <2>5, BatchConstants
       DEF SweepFinal, StoreOK, StoreError, Settled, ThensChange, CatchesChange,
           SettlingChange, CallbackChange, StoreChange
  <2>6. CASE SweepDelete(s)
    <3>1. ~DispatchAt("create")
      BY <2>6 DEF SweepDelete, BatchInv, CreateFirst, DispatchAt, SweepAt
    <3> QED BY <1>t, <2>2, <2>6, <3>1
       DEF SweepDelete, ThensChange, CatchesChange, SettlingChange, CallbackChange, StoreChange
  <2>7. CASE SweepRelease(s)
    BY <1>t, <2>2, <2>7
       DEF SweepRelease, ThensChange, CatchesChange, SettlingChange, CallbackChange, StoreChange
  <2> QED BY <1>4, <2>3, <2>4, <2>5, <2>6, <2>7 DEF SweepStep
<1>5. CASE DeadlinePasses
  BY <1>1, <1>5 DEF DeadlinePasses
<1>6. CASE UNCHANGED batchVars
  BY <1>1, <1>6 DEF batchVars
<1> QED BY <1>2, <1>3, <1>4, <1>5, <1>6 DEF BatchNext, WorkerStep, allVars

(* A handler that reports keeps its job, and how it came to report.        *)
LEMMA ReportChange ==
    ASSUME BatchInv, [BatchNext]_allVars, JobInv', NEW h \in Handlers
    PROVE  /\ hand'[h].pc = "incr" =>
                 \/ hand'[h] = hand[h] /\ Carried(h)' = Carried(h)
                 \/ Success(h)' => "success" \in finished'[Carried(h)']
           /\ hand'[h].pc = "flag" =>
                 /\ Carried(h)' = Carried(h) /\ Success(h)' = Success(h)
                 /\ hand'[h] = hand[h] \/ Counts(h)
           /\ hand'[h].pc = "drop" =>
                 \/ hand'[h] = hand[h]
                 \/ Success(h)' => store.completed >= Total
<1>t. /\ JobInv /\ hand \in [Handlers -> Hand] /\ jobOf \in [Copies -> Jobs \union {NoJob}]
      /\ store \in [completed : Nat, failed : Nat]
  BY DEF BatchInv, JobInv, JobTypeOK, BatchTypeOK
<1>i. IdleHand.pc = "idle"
  BY DEF IdleHand
<1>1. ASSUME hand[h].pc # "idle", hand'[h].copy = hand[h].copy PROVE Carried(h)' = Carried(h)
  <2>1. hand[h].copy \in Copies /\ place[hand[h].copy] # "absent"
    BY <1>1, <1>t DEF JobInv, HandHasCopy, HandAt
  <2>2. \A c \in Copies : place[c] # "absent" => jobOf'[c] = jobOf[c]
    <3>1. \A j, n : PushCopy(j, n) => \A c \in Copies : place[c] # "absent" => jobOf'[c] = jobOf[c]
      BY <1>t DEF PushCopy, Fresh
    <3>2. CASE DispatchStep
      BY <3>1, <3>2 DEF DispatchStep, Create, PushMember, CountUnsent, CatchUnsent, AllSent, SettleDispatch,
                        jobVars, queueVars
    <3>3. ASSUME NEW g \in Handlers, Pop(g) \/ HandlerDies(g) \/ HandlerStep(g) \/ Report(g)
          PROVE  \A c \in Copies : place[c] # "absent" => jobOf'[c] = jobOf[c]
      BY <3>1, <3>3 DEF Pop, HandlerDies, HandlerStep, RunHandler, PushRetry, AckJob, Report, ReportCount, ReportFlag,
                        ReportGet, ReportDrop, WorkerIdle, queueVars
    <3>4. ASSUME NEW s \in Sweepers, SweepDue(s) \/ SweepStep(s) PROVE UNCHANGED jobOf
      BY <3>4 DEF SweepDue, SweepStep, SweepCAS, SweepCount, SweepLose, SweepFinal,
         SweepDelete, SweepRelease, SweepFrame, jobVars, queueVars
    <3> QED BY <3>2, <3>3, <3>4 DEF BatchNext, WorkerStep, LapseJob, DeadlinePasses, jobVars, queueVars, allVars
  <2> QED BY <1>1, <2>1, <2>2 DEF Carried
<1> DEFINE Goal ==
           /\ hand'[h].pc = "incr" =>
                 \/ hand'[h] = hand[h] /\ Carried(h)' = Carried(h)
                 \/ Success(h)' => "success" \in finished'[Carried(h)']
           /\ hand'[h].pc = "flag" =>
                 /\ Carried(h)' = Carried(h) /\ Success(h)' = Success(h)
                 /\ hand'[h] = hand[h] \/ Counts(h)
           /\ hand'[h].pc = "drop" =>
                 \/ hand'[h] = hand[h]
                 \/ Success(h)' => store.completed >= Total
<1>2. ASSUME hand'[h] = hand[h] PROVE Goal
  BY <1>1, <1>2 DEF Success
<1>3. ASSUME hand'[h].pc \in {"idle", "run", "push", "ack", "get"} PROVE Goal
  BY <1>3
<1>4. ASSUME AckJob(h) PROVE Goal
  <2>0. hand[h] \in Hand /\ hand[h].pc = "ack"
    BY <1>4, <1>t DEF AckJob, HandAt
  <2>1. CASE HandGoto(h, IdleHand)
    BY <1>3, <1>i, <1>t, <2>1 DEF HandGoto
  <2>2. CASE /\ HandGoto(h, [hand[h] EXCEPT !.pc = "incr"])
             /\ finished' = [finished EXCEPT ![Carried(h)] = @ \union {hand[h].verdict}]
    <3>1. hand'[h] = [hand[h] EXCEPT !.pc = "incr"]
      BY <1>t, <2>2 DEF HandGoto
    <3>2. hand'[h].pc = "incr" /\ hand'[h].copy = hand[h].copy /\ hand'[h].verdict = hand[h].verdict
      BY <2>0, <3>1 DEF Hand
    <3>3. Carried(h)' = Carried(h)
      BY <1>1, <2>0, <3>2
    <3>4. Carried(h) \in Jobs /\ finished \in [Jobs -> SUBSET {"success", "dead"}]
      BY <1>t, <2>0 DEF JobInv, HandHasCopy, CopyHasJob, HandAt, Carried, JobTypeOK
    <3>5. hand[h].verdict \in finished'[Carried(h)]
      BY <2>2, <3>4
    <3> QED BY <3>2, <3>3, <3>5 DEF Success
  <2> QED BY <1>4, <2>1, <2>2 DEF AckJob
<1>5. ASSUME Report(h) PROVE Goal
  <2>0. hand[h] \in Hand /\ hand[h].pc \in {"incr", "flag", "get", "drop"}
    BY <1>5, <1>t DEF Report, ReportCount, ReportFlag, ReportGet, ReportDrop, HandAt
  <2>1. CASE HandGoto(h, IdleHand)
    BY <1>3, <1>i, <1>t, <2>1 DEF HandGoto
  <2>2. CASE HandPC(h, "get")
    <3>1. hand'[h].pc = "get"
      BY <1>t, <2>0, <2>2 DEF HandPC, HandGoto, Hand
    <3> QED BY <1>3, <3>1
  <2>3. CASE ReportCount(h) /\ ~HandGoto(h, IdleHand)
    <3>1. HandPC(h, "flag")
      BY <2>3 DEF ReportCount, ReportEnds
    <3>2. hand'[h] = [hand[h] EXCEPT !.pc = "flag"]
      BY <1>t, <3>1 DEF HandPC, HandGoto
    <3>3. hand'[h].pc = "flag" /\ hand'[h].copy = hand[h].copy /\ hand'[h].verdict = hand[h].verdict
      BY <2>0, <3>2 DEF Hand
    <3>4. Carried(h)' = Carried(h)
      BY <1>1, <2>0, <3>3
    <3>5. store' = (IF Success(h) THEN Completed(1) ELSE Failed(1)) =>
             store'.completed = IF Success(h) THEN store.completed + 1 ELSE store.completed
      BY <1>t DEF Completed, Failed
    <3>6. Counts(h)
      BY <2>3, <3>1, <3>5 DEF ReportCount, ReportEnds, Counts, WorkerIdle
    <3> QED BY <3>3, <3>4, <3>6 DEF Success
  <2>4. CASE ReportGet(h) /\ ~HandGoto(h, IdleHand)
    <3>1. /\ Settled
          /\ HandGoto(h, [hand[h] EXCEPT !.pc = "drop",
                !.verdict = IF Success(h) /\ store.failed = 0 THEN "success" ELSE "dead"])
      BY <2>4 DEF ReportGet, ReportEnds
    <3>2. /\ hand'[h].pc = "drop"
          /\ hand'[h].verdict = IF Success(h) /\ store.failed = 0 THEN "success" ELSE "dead"
      BY <1>t, <2>0, <3>1 DEF HandGoto, Hand
    <3>3. Success(h)' => store.failed = 0
      BY <3>2 DEF Success
    <3>4. Total \in Nat
      BY LostType DEF BatchInv
    <3>5. Success(h)' => store.completed >= Total
      BY <1>t, <3>1, <3>3, <3>4 DEF Settled
    <3> QED BY <3>2, <3>5
  <2> QED BY <1>5, <2>1, <2>2, <2>3, <2>4 DEF Report, ReportFlag, ReportDrop, ReportEnds
<1>6. ASSUME Pop(h) PROVE Goal
  <2>1. PICK c \in Copies :
           hand' = [hand EXCEPT ![h] = [IdleHand EXCEPT !.pc = "run", !.copy = c, !.got = attempt[c]]]
    BY <1>6 DEF Pop, HandGoto
  <2>2. hand'[h].pc = "run"
    BY <1>t, <2>1 DEF IdleHand
  <2> QED BY <1>3, <2>2
<1>7. ASSUME RunHandler(h) PROVE Goal
  <2>1. hand[h] \in Hand
    BY <1>t
  <2>2. \/ hand'[h] = [hand[h] EXCEPT !.pc = "ack", !.verdict = "success"]
        \/ hand'[h] = [hand[h] EXCEPT !.verdict = Verdict(h),
                           !.pc = IF Verdict(h) = "dead" THEN "ack" ELSE "push"]
    BY <1>t, <1>7 DEF RunHandler, HandGoto
  <2>3. hand'[h].pc \in {"ack", "push"}
    BY <2>1, <2>2 DEF Hand
  <2> QED BY <1>3, <2>3
<1>8. ASSUME PushRetry(h) PROVE Goal
  <2>1. hand[h] \in Hand
    BY <1>t
  <2>2. hand'[h] = [hand[h] EXCEPT !.pc = "ack"] \/ hand'[h] = IdleHand
    BY <1>t, <1>8 DEF PushRetry, HandGoto
  <2>3. hand'[h].pc \in {"ack", "idle"}
    BY <1>i, <2>1, <2>2 DEF Hand
  <2> QED BY <1>3, <2>3
<1>9. ASSUME HandlerDies(h) PROVE Goal
  BY <1>3, <1>9, <1>i, <1>t DEF HandlerDies, HandGoto
<1>10. ASSUME NEW g \in Handlers, g # h, Pop(g) \/ HandlerDies(g) \/ HandlerStep(g) \/ Report(g)
       PROVE  hand'[h] = hand[h]
  <2>1. \A next : HandGoto(g, next) => hand'[h] = hand[h]
    BY <1>10, <1>t DEF HandGoto
  <2>2. \E next : HandGoto(g, next)
    <3>1. CASE Pop(g) \/ HandlerDies(g)
      BY <3>1 DEF Pop, HandlerDies
    <3>2. CASE RunHandler(g)
      BY <3>2 DEF RunHandler
    <3>3. CASE PushRetry(g)
      BY <3>3 DEF PushRetry
    <3>4. CASE AckJob(g)
      BY <3>4 DEF AckJob
    <3>5. CASE ReportCount(g) \/ ReportFlag(g)
      BY <3>5 DEF ReportCount, ReportFlag, HandPC, ReportEnds
    <3>6. CASE ReportGet(g) \/ ReportDrop(g)
      BY <3>6 DEF ReportGet, ReportDrop, ReportEnds
    <3> QED BY <1>10, <3>1, <3>2, <3>3, <3>4, <3>5, <3>6 DEF HandlerStep, Report
  <2> QED BY <2>1, <2>2
<1>11. ASSUME DispatchStep \/ DeadlinePasses \/ UNCHANGED allVars \/ \E c \in Copies : LapseJob(c)
       PROVE  Goal
  BY <1>2, <1>11 DEF DispatchStep, Create, PushMember, CountUnsent, CatchUnsent, AllSent, SettleDispatch,
                     DeadlinePasses, allVars, jobVars, LapseJob
<1>12. ASSUME NEW s \in Sweepers, SweepDue(s) \/ SweepStep(s) PROVE Goal
  BY <1>2, <1>12 DEF SweepDue, SweepStep, SweepCAS, SweepCount, SweepLose, SweepFinal,
         SweepDelete, SweepRelease, SweepFrame, jobVars
<1> HIDE DEF Goal
<1>13. Goal
  <2>1. ASSUME NEW g \in Handlers, Pop(g) \/ HandlerDies(g) \/ HandlerStep(g) \/ Report(g)
        PROVE  Goal
    <3>1. CASE g # h
      BY <1>2, <1>10, <2>1, <3>1
    <3>2. CASE g = h
      BY <1>4, <1>5, <1>6, <1>7, <1>8, <1>9, <2>1, <3>2 DEF HandlerStep
    <3> QED BY <3>1, <3>2
  <2> QED BY <1>11, <1>12, <2>1 DEF BatchNext, WorkerStep
<1> QED BY <1>13 DEF Goal

(* Members that were not pushed.                                           *)
LEMMA UnsentStep ==
    ASSUME BatchInv, [BatchNext]_allVars
    PROVE  ReportsHaveCopies' /\ UnsentHasNoCopy' /\ FailureLeavesOne' /\ CreateFirst'
<1>t. /\ BatchTypeOK /\ JobInv /\ reports \in [Jobs -> Nat] /\ dispatch \in DispatchRow
      /\ sweep \in [Sweepers -> SweepRow]
  BY DEF BatchInv, BatchTypeOK, DispatchRow, SweepRow
<1>0. ReportsHaveCopies /\ UnsentHasNoCopy /\ FailureLeavesOne /\ CreateFirst
  BY DEF BatchInv
<1>c. /\ \A j \in Jobs : HasCopy(j) => HasCopy(j)'
      /\ \A j \in Jobs : HasCopy(j)' =>
            HasCopy(j) \/ (j \in dispatch.unsent /\ j \notin dispatch'.unsent)
  BY <1>t, CopyChange
<1>d. dispatch'.unsent \subseteq dispatch.unsent /\ dispatch.unsent \subseteq Jobs
  BY <1>t, DispatchStepType
<1>1. ReportsHaveCopies'
  <2>1. CASE UNCHANGED reports
    BY <1>0, <1>c, <2>1 DEF ReportsHaveCopies
  <2>2. ASSUME NEW h \in Handlers, Counts(h) PROVE ReportsHaveCopies'
    <3>1. Carried(h) \in Jobs /\ HasCopy(Carried(h))
      BY <1>t, <2>2 DEF Counts, JobInv, HandHasCopy, CopyHasJob, HandAt, Carried, HasCopy
    <3>2. \A j \in Jobs : j # Carried(h) => reports'[j] = reports[j]
      BY <1>t, <2>2 DEF Counts
    <3> QED BY <1>0, <1>c, <3>1, <3>2 DEF ReportsHaveCopies
  <2> QED BY <1>t, <2>1, <2>2, CountChange
<1>2. UnsentHasNoCopy'
  BY <1>0, <1>c, <1>d DEF UnsentHasNoCopy
<1>3. FailureLeavesOne'
  <2>1. ASSUME dispatch.failures > 0 PROVE \E j \in Jobs \ dispatch'.unsent : ~HasCopy(j)'
    BY <1>0, <1>c, <1>d, <2>1 DEF FailureLeavesOne
  <2>2. CASE UNCHANGED dispatch
    BY <1>0, <2>1, <2>2 DEF FailureLeavesOne
  <2>3. CASE PushMember
    <3>1. PICK j \in dispatch.unsent :
             \/ dispatch' = [dispatch EXCEPT !.unsent = @ \ {j}]
             \/ /\ dispatch' = [dispatch EXCEPT !.pc = "incr", !.unsent = @ \ {j},
                                                !.failures = @ + 1]
                /\ UNCHANGED queueVars
      BY <2>3 DEF PushMember
    <3>2. CASE dispatch' = [dispatch EXCEPT !.unsent = @ \ {j}]
      <4>1. dispatch'.failures = dispatch.failures /\ dispatch'.pc = dispatch.pc
        BY <1>t, <3>2 DEF DispatchRow
      <4> QED BY <1>0, <2>1, <4>1 DEF FailureLeavesOne
    <3>3. CASE /\ dispatch' = [dispatch EXCEPT !.pc = "incr", !.unsent = @ \ {j},
                                                !.failures = @ + 1]
               /\ UNCHANGED queueVars
      <4>1. /\ dispatch'.failures = dispatch.failures + 1 /\ dispatch.failures \in Nat
            /\ dispatch'.unsent = dispatch.unsent \ {j}
        BY <1>t, <3>3 DEF DispatchRow
      <4>2. j \in Jobs /\ ~HasCopy(j)
        BY <1>0, <1>d DEF UnsentHasNoCopy
      <4>3. ~HasCopy(j)'
        BY <3>3, <4>2 DEF HasCopy, queueVars
      <4> QED BY <4>1, <4>2, <4>3 DEF FailureLeavesOne
    <3> QED BY <3>1, <3>2, <3>3
  <2>4. CASE Create \/ CountUnsent \/ CatchUnsent \/ AllSent \/ SettleDispatch
    <3>1. PICK pc \in {"create", "push", "incr", "catch", "settle", "done"} :
             /\ dispatch' = [dispatch EXCEPT !.pc = pc]
             /\ pc \in {"incr", "catch"} => dispatch.pc = "incr"
      BY <2>4 DEF Create, CountUnsent, CatchUnsent, AllSent, SettleDispatch, DispatchGoto, DispatchAt
    <3>2. dispatch'.pc = pc /\ dispatch'.failures = dispatch.failures
      BY <1>t, <3>1 DEF DispatchRow
    <3> QED BY <1>0, <2>1, <3>1, <3>2 DEF FailureLeavesOne
  <2>5. ASSUME NEW h \in Handlers, Report(h) PROVE UNCHANGED dispatch
    BY <2>5 DEF Report, ReportCount, ReportFlag, ReportGet, ReportDrop, WorkerIdle
  <2>6. ASSUME NEW s \in Sweepers, SweepDue(s) \/ SweepStep(s) PROVE UNCHANGED dispatch
    BY <2>6 DEF SweepDue, SweepStep, SweepCAS, SweepCount, SweepLose, SweepFinal, SweepDelete,
                SweepRelease, SweepFrame
  <2> QED BY <2>2, <2>3, <2>4, <2>5, <2>6
          DEF BatchNext, DispatchStep, WorkerStep, DeadlinePasses, batchVars, allVars
<1>4. CreateFirst'
  <2> SUFFICES ASSUME dispatch'.pc = "create"
               PROVE  callback' = "none" /\ \A s \in Sweepers : SweepAt(s, "idle")'
    BY DEF CreateFirst
  <2>1. dispatch.pc = "create"
    <3>1. CASE DispatchStep
      BY <1>t, <3>1 DEF DispatchStep, Create, PushMember, CountUnsent, CatchUnsent, AllSent, SettleDispatch,
                   DispatchGoto, DispatchAt, DispatchRow
    <3>5. ASSUME NEW h \in Handlers, Report(h) PROVE UNCHANGED dispatch
      BY <3>5 DEF Report, ReportCount, ReportFlag, ReportGet, ReportDrop, WorkerIdle
    <3>6. ASSUME NEW s \in Sweepers, SweepDue(s) \/ SweepStep(s) PROVE UNCHANGED dispatch
      BY <3>6 DEF SweepDue, SweepStep, SweepCAS, SweepCount, SweepLose, SweepFinal, SweepDelete,
                SweepRelease, SweepFrame
    <3> QED BY <3>1, <3>5, <3>6 DEF BatchNext, WorkerStep, DeadlinePasses, batchVars, allVars
  <2>2. callback = "none" /\ \A s \in Sweepers : sweep[s].pc = "idle"
    BY <1>0, <2>1 DEF CreateFirst, SweepAt
  <2>3. callback' = "none"
    BY <2>1, <2>2, BatchChange DEF CallbackChange, DispatchAt
  <2>4. \A s \in Sweepers : sweep'[s] = sweep[s]
    BY <2>2, BatchChange
       DEF SweepChange, SweepDue, SweepStep, SweepCAS, SweepCount, SweepLose, SweepFinal, SweepDelete,
           SweepRelease, SweepAt
  <2> QED BY <2>2, <2>3, <2>4 DEF SweepAt
<1> QED BY <1>1, <1>2, <1>3, <1>4

(* What the reports count.                                                 *)
LEMMA CountersStep ==
    ASSUME BatchInv, [BatchNext]_allVars, BatchTypeOK', JobInv'
    PROVE  /\ SuccessIsFinished' /\ CompletedSucceeded' /\ FailedIsDoomed' /\ ThenIsLast'
<1>t. /\ BatchTypeOK /\ JobInv /\ store.completed \in Nat /\ store'.completed \in Nat
      /\ Total \in Nat /\ store.failed \in Nat /\ reports \in [Jobs -> Nat]
  BY LostType DEF BatchInv, BatchTypeOK
<1>0. SuccessIsFinished /\ CompletedSucceeded /\ FailedIsDoomed /\ ThenIsLast
  BY DEF BatchInv
<1>c. \/ /\ store'.completed = store.completed
         /\ UNCHANGED reports
         /\ \A j \in Jobs : finished[j] \subseteq finished'[j]
      \/ \E h \in Handlers : Counts(h)
  BY <1>t, CountChange
<1>m. store'.completed >= store.completed
  BY <1>c, <1>t DEF Counts
<1>1. SuccessIsFinished'
  <2> SUFFICES ASSUME NEW h \in Handlers, hand'[h].pc = "incr", Success(h)'
               PROVE  "success" \in finished'[Carried(h)']
    BY DEF SuccessIsFinished, HandAt
  <2>1. CASE hand'[h] = hand[h] /\ Carried(h)' = Carried(h)
    <3>1. "success" \in finished[Carried(h)]
      BY <1>0, <2>1 DEF SuccessIsFinished, HandAt, Success
    <3>2. Carried(h) \in Jobs
      BY <1>t, <2>1 DEF JobInv, HandHasCopy, CopyHasJob, HandAt, Carried
    <3> QED BY <1>c, <2>1, <3>1, <3>2 DEF Counts
  <2> QED BY <2>1, ReportChange
<1>2. CompletedSucceeded'
  BY CountStep DEF CompletedSucceeded
<1>3. FailedIsDoomed'
  <2> SUFFICES ASSUME OnceEach', NEW h \in Handlers, hand'[h].pc = "flag", ~Success(h)'
               PROVE  Doomed(Carried(h))'
    BY DEF FailedIsDoomed, HandAt
  <2>1. /\ Carried(h)' = Carried(h) /\ ~Success(h)
        /\ hand'[h] = hand[h] \/ Counts(h)
    BY ReportChange
  <2>2. PICK i \in Jobs : i = Carried(h)
    BY <1>t, <2>1 DEF JobInv, HandHasCopy, CopyHasJob, HandAt, Carried, Counts
  <2>3. /\ OnceEach /\ \A j \in Jobs : Doomed(j) => Doomed(j)'
    BY CountStep
  <2>4. CASE hand'[h] = hand[h]
    <3>1. Doomed(i)
      BY <1>0, <2>1, <2>2, <2>3, <2>4 DEF FailedIsDoomed, HandAt
    <3>2. Doomed(i)'
      BY <2>2, <2>3, <3>1
    <3> QED BY <2>1, <2>2, <3>2 DEF Doomed
  <2>5. CASE Counts(h)
    <3>1. reports[i] = 0 /\ reports'[i] = 1 /\ \A j \in Jobs : j # i => reports'[j] = reports[j]
      BY <1>t, <2>2, <2>5 DEF Counts, OnceEach
    <3>2. Succeeded \subseteq Succeeded' \ {i}
      BY <2>5, <3>1 DEF Succeeded, Counts
    <3>3. IsFiniteSet(Succeeded' \ {i})
      <4>1. Succeeded' \ {i} \subseteq Jobs
        BY DEF Succeeded
      <4> QED BY <4>1, FS_Subset, BatchConstants
    <3>4. /\ Cardinality(Succeeded) <= Cardinality(Succeeded' \ {i})
          /\ Cardinality(Succeeded' \ {i}) \in Nat /\ Cardinality(Succeeded) \in Nat
      BY <3>2, <3>3, FS_Subset, FS_CardinalityType
    <3>5. store.completed <= Cardinality(Succeeded)
      BY <1>0, <2>3 DEF CompletedSucceeded
    <3>6. store'.completed = store.completed
      BY <2>1, <2>5 DEF Counts
    <3>7. store'.completed <= Cardinality(Succeeded' \ {i})
      BY <1>t, <3>4, <3>5, <3>6
    <3> QED BY <2>1, <2>2, <3>1, <3>7 DEF Doomed
  <2> QED BY <2>1, <2>4, <2>5
<1>4. ThenIsLast'
  <2>1. thens' = 1 => store'.completed >= Total
    <3>1. thens' = 1 => store.completed >= Total
      BY <1>0, <1>t, BatchChange DEF ThensChange, ThenIsLast
    <3> QED BY <1>t, <1>m, <3>1
  <2>2. ASSUME NEW h \in Handlers, hand'[h].pc = "drop", Success(h)'
        PROVE  store'.completed >= Total
    <3>1. store.completed >= Total
      BY <1>0, <2>2, ReportChange DEF ThenIsLast, HandAt, Success
    <3> QED BY <1>t, <1>m, <3>1
  <2> QED BY <2>1, <2>2 DEF ThenIsLast, HandAt
<1> QED BY <1>1, <1>2, <1>3, <1>4

(* The sweepers.                                                           *)
LEMMA SweepersStep ==
    ASSUME BatchInv, [BatchNext]_allVars, BatchTypeOK'
    PROVE  OneSettles' /\ LoserComesFirst' /\ SweeperFinishes'
<1>t. /\ sweep \in [Sweepers -> SweepRow] /\ settling \in BOOLEAN /\ thens \in 0 .. 1
      /\ store \in [completed : Nat, failed : Nat] /\ Total \in Nat /\ Lost \in Nat
      /\ store' \in [completed : Nat, failed : Nat] /\ thens' \in 0 .. 1
      /\ storeErrors \in Nat
  BY LostType, BatchConstants DEF BatchInv, BatchTypeOK, SweepRow
<1>0. OneSettles /\ LoserComesFirst /\ SweeperFinishes /\ ThenIsLast /\ CreateFirst
  BY DEF BatchInv
<1>c. /\ ThensChange /\ SettlingChange /\ CallbackChange /\ SweepChange /\ StoreChange
  BY BatchChange
<1>m. store'.completed >= store.completed /\ store'.failed >= store.failed
  BY <1>c, <1>t, CountChange DEF Counts, StoreChange, BatchInv
<1>g. \A s \in Sweepers : \A pc, n : SweepGoto(s, pc, n) =>
         sweep'[s].pc = pc /\ sweep'[s].lost = n
  BY <1>t DEF SweepGoto
<1>s. ASSUME NEW s \in Sweepers, sweep'[s] # sweep[s]
      PROVE  /\ SweepDue(s) \/ SweepStep(s)
             /\ \A t \in Sweepers : t # s => sweep'[t] = sweep[t]
  BY <1>s, <1>c DEF SweepChange
<1>1. OneSettles'
  <2>1. \A s \in Sweepers : Settles(s)' => Settles(s) \/ (SweepCAS(s) /\ ~settling)
    <3> SUFFICES ASSUME NEW s \in Sweepers, Settles(s)', ~Settles(s)
                 PROVE  SweepCAS(s) /\ ~settling
      OBVIOUS
    <3>1. sweep'[s] # sweep[s]
      BY DEF Settles
    <3>2. ~SweepDue(s)
      BY <1>g DEF SweepDue, Settles
    <3>3. SweepCAS(s)
      BY <1>s, <3>1, <3>2 DEF SweepStep, SweepCount, SweepLose, SweepFinal, SweepDelete, SweepRelease, SweepAt,
                              Settles
    <3>4. ~settling
      BY <1>g, <3>3 DEF SweepCAS, Settles
    <3> QED BY <3>3, <3>4
  <2>2. ASSUME NEW s \in Sweepers, SweepCAS(s), ~settling PROVE OneSettles'
    <3>1. settling' /\ \A t \in Sweepers : ~Settles(t)
      BY <1>0, <2>2 DEF SweepCAS, OneSettles
    <3>2. \A t \in Sweepers : t # s => sweep'[t] = sweep[t]
      BY <1>t, <2>2 DEF SweepCAS, SweepGoto
    <3> QED BY <3>1, <3>2 DEF OneSettles, Settles
  <2>3. CASE \A s \in Sweepers : Settles(s)' => Settles(s)
    <3>1. \A s, t \in Sweepers : Settles(s)' /\ Settles(t)' => s = t
      BY <1>0, <2>3 DEF OneSettles
    <3>2. ASSUME NEW s \in Sweepers, Settles(s)' PROVE settling'
      <4>1. settling /\ Settles(s)
        BY <1>0, <2>3, <3>2 DEF OneSettles
      <4>2. SUFFICES ASSUME ~settling' PROVE FALSE
        OBVIOUS
      <4>3. PICK r \in Sweepers : SweepRelease(r)
        <5>1. CASE DispatchStep
          BY <4>1, <4>2, <5>1 DEF DispatchStep, Create, PushMember, CountUnsent, CatchUnsent, AllSent, SettleDispatch
        <5>2. ASSUME NEW h \in Handlers, Report(h) PROVE UNCHANGED settling
          BY <5>2 DEF Report, ReportCount, ReportFlag, ReportGet, ReportDrop
        <5>3. ASSUME NEW r \in Sweepers, SweepDue(r) \/ SweepStep(r) PROVE SweepRelease(r)
          BY <4>1, <4>2, <5>3 DEF SweepDue, SweepStep, SweepCAS, SweepCount, SweepLose, SweepFinal, SweepDelete
        <5> QED BY <4>1, <4>2, <5>1, <5>2, <5>3 DEF BatchNext, WorkerStep, DeadlinePasses, batchVars, allVars
      <4>4. r = s /\ sweep'[r].pc = "idle"
        BY <1>0, <1>g, <4>1, <4>3 DEF OneSettles, Settles, SweepRelease, SweepAt
      <4> QED BY <3>2, <4>4 DEF Settles
    <3> QED BY <3>1, <3>2 DEF OneSettles
  <2> QED BY <2>1, <2>2, <2>3
<1>2. LoserComesFirst'
  <2> SUFFICES ASSUME NEW s \in Sweepers, sweep'[s].pc = "lose"
               PROVE  /\ thens' = 0 /\ sweep'[s].lost > 0
                      /\ store'.completed + store'.failed + sweep'[s].lost >= Total
    BY DEF LoserComesFirst, SweepAt
  <2>l. sweep[s].lost \in Nat
    BY <1>t DEF SweepRow
  <2>1. CASE sweep'[s] = sweep[s]
    <3>1. /\ thens = 0 /\ sweep[s].lost > 0
          /\ store.completed + store.failed + sweep[s].lost >= Total
      BY <1>0, <2>1 DEF LoserComesFirst, SweepAt
    <3>2. settling /\ \A r \in Sweepers : sweep[r].pc # "final"
      BY <1>0, <2>1 DEF OneSettles, Settles
    <3>3. thens' # 1
      BY <1>c, <3>1, <3>2 DEF ThensChange, SweepAt
    <3> QED BY <1>m, <1>t, <2>1, <2>l, <3>1, <3>3
  <2>2. CASE sweep'[s] # sweep[s]
    <3>0. SweepCount(s) /\ SweepGoto(s, "lose", Lost) /\ Lost # 0
      <4>1. SweepDue(s) \/ SweepStep(s)
        BY <1>s, <2>2
      <4>2. ~SweepDue(s) /\ ~SweepCAS(s) /\ ~SweepLose(s) /\ ~SweepFinal(s) /\ ~SweepDelete(s) /\ ~SweepRelease(s)
        BY <1>g DEF SweepDue, SweepCAS, SweepLose, SweepFinal, SweepDelete, SweepRelease
      <4>3. SweepCount(s)
        BY <4>1, <4>2 DEF SweepStep
      <4> QED BY <1>g, <4>3 DEF SweepCount
    <3>1. ~Settled /\ Lost = Total - store.completed - store.failed /\ Lost > 0
      BY <1>t, <3>0 DEF Lost
    <3>2. thens = 0
      BY <1>0, <1>t, <3>1 DEF ThenIsLast, Settled
    <3>3. UNCHANGED << store, thens >> /\ sweep'[s].lost = Lost
      BY <1>g, <3>0 DEF SweepCount
    <3> QED BY <1>t, <3>1, <3>2, <3>3
  <2> QED BY <2>1, <2>2
<1>3. SweeperFinishes'
  <2> SUFFICES ASSUME storeErrors' = 0, NEW s \in Sweepers
               PROVE  /\ sweep'[s].pc \in {"final", "delete"} => Settled'
                      /\ sweep'[s].pc = "release" => callback' = "removed"
    BY DEF SweeperFinishes, SweepAt
  <2>e. storeErrors = 0
    BY <1>c DEF StoreChange
  <2>0. /\ sweep[s].pc \in {"final", "delete"} => Settled
        /\ sweep[s].pc = "release" => callback = "removed"
        /\ sweep[s].lost \in Nat
    BY <1>0, <1>t, <2>e DEF SweeperFinishes, SweepAt, SweepRow
  <2>m. Settled => Settled'
    BY <1>m, <1>t DEF Settled
  <2>1. CASE sweep'[s] = sweep[s]
    <3>1. callback = "removed" => callback' = "removed"
      BY <1>0, <1>c DEF CallbackChange, CreateFirst, DispatchAt
    <3> QED BY <2>0, <2>1, <2>m, <3>1
  <2>2. CASE SweepDue(s) \/ SweepCAS(s) \/ SweepRelease(s)
    BY <1>g, <2>2 DEF SweepDue, SweepCAS, SweepRelease
  <2>3. CASE SweepCount(s)
    <3>1. SweepGoto(s, IF Lost = 0 THEN "final" ELSE "lose", Lost) /\ UNCHANGED store
      BY <1>t, <2>3, <2>e DEF SweepCount, StoreError
    <3>2. Lost = 0 => Settled
      BY <1>t DEF Lost, Settled
    <3> QED BY <1>g, <2>m, <3>1, <3>2
  <2>4. CASE SweepLose(s)
    <3>1. store' = Failed(sweep[s].lost) /\ sweep'[s].pc = "final"
      BY <1>g, <2>4, <2>e DEF SweepLose, StoreError
    <3>2. store.completed + store.failed + sweep[s].lost >= Total
      BY <1>0, <2>4 DEF LoserComesFirst, SweepLose
    <3>3. store'.completed = store.completed /\ store'.failed = store.failed + sweep[s].lost
      BY <1>t, <3>1 DEF Failed
    <3> QED BY <1>t, <2>0, <3>1, <3>2, <3>3 DEF Settled
  <2>5. CASE SweepFinal(s)
    <3>1. Settled
      BY <2>0, <2>5 DEF SweepFinal, SweepAt
    <3>2. sweep'[s].pc = "delete"
      BY <1>g, <2>5, <2>e, <3>1 DEF SweepFinal, StoreError
    <3> QED BY <2>m, <3>1, <3>2
  <2>6. CASE SweepDelete(s)
    BY <1>g, <2>6 DEF SweepDelete
  <2> QED BY <1>s, <2>1, <2>2, <2>3, <2>4, <2>5, <2>6 DEF SweepStep
<1> QED BY <1>1, <1>2, <1>3

(* Every Catch leaves its mark.                                            *)
LEMMA CatchStep ==
    ASSUME BatchInv, [BatchNext]_allVars, BatchTypeOK'
    PROVE  CatchLeavesMark'
<1> SUFFICES ASSUME storeErrors' = 0, OnceEach', catches' > 0
             PROVE  TakenOver' \/ \E j \in Jobs : Doomed(j)'
  BY DEF CatchLeavesMark
<1>t. /\ store \in [completed : Nat, failed : Nat] /\ store' \in [completed : Nat, failed : Nat]
      /\ thens \in 0 .. 1 /\ thens' \in 0 .. 1 /\ JobInv
      /\ sweep \in [Sweepers -> SweepRow] /\ catches \in Nat /\ reports \in [Jobs -> Nat]
  BY DEF BatchInv, BatchTypeOK, SweepRow
<1>0. /\ OneSettles /\ LoserComesFirst /\ SweeperFinishes /\ CreateFirst /\ CatchLeavesMark
      /\ FailureLeavesOne /\ ReportsHaveCopies /\ CompletedSucceeded /\ FailedIsDoomed
  BY DEF BatchInv
<1>c. /\ ThensChange /\ CatchesChange /\ SettlingChange /\ CallbackChange /\ StoreChange
  BY BatchChange
<1>d. OnceEach /\ \A j \in Jobs : Doomed(j) => Doomed(j)'
  BY CountStep
<1>e. storeErrors = 0
  BY <1>c DEF StoreChange
<1>1. CASE catches > 0
  <2>1. CASE \E j \in Jobs : Doomed(j)
    BY <1>d, <2>1
  <2>2. CASE TakenOver
    <3>1. thens' # 1
      BY <1>c, <2>2 DEF TakenOver, ThensChange
    <3>2. store'.failed > 0
      BY <1>c, <1>t, <2>2 DEF TakenOver, StoreChange
    <3>3. callback = "removed" => callback' = "removed"
      BY <1>0, <1>c DEF CallbackChange, CreateFirst, DispatchAt
    <3>4. settling => settling' \/ callback' = "removed"
      BY <1>0, <1>c, <1>e DEF SettlingChange, SweeperFinishes
    <3> QED BY <1>t, <2>2, <3>1, <3>2, <3>3, <3>4 DEF TakenOver
  <2> QED BY <1>0, <1>1, <1>d, <1>e, <2>1, <2>2 DEF CatchLeavesMark
<1>2. CASE dispatch.pc = "catch"
  <2>1. PICK j \in Jobs : j \notin dispatch.unsent /\ ~HasCopy(j)
    BY <1>0, <1>2 DEF FailureLeavesOne
  <2>2. ~(reports[j] >= 1)
    BY <1>0, <2>1 DEF ReportsHaveCopies
  <2>3. Succeeded \ {j} = Succeeded
    BY <2>2 DEF Succeeded
  <2>4. Doomed(j)
    BY <1>0, <1>d, <2>1, <2>3 DEF CompletedSucceeded, Doomed
  <2> QED BY <1>d, <2>4
<1>3. ASSUME NEW h \in Handlers, HandAt(h, "flag"), ~Success(h)
      PROVE  \E j \in Jobs : Doomed(j)'
  <2>1. PICK j \in Jobs : j = Carried(h)
    BY <1>t, <1>3 DEF JobInv, HandHasCopy, CopyHasJob, HandAt, Carried
  <2>2. Doomed(j)
    BY <1>0, <1>3, <1>d, <2>1 DEF FailedIsDoomed
  <2> QED BY <1>d, <2>2
<1>4. ASSUME NEW s \in Sweepers, SweepAt(s, "lose"), store' = Failed(sweep[s].lost),
             UNCHANGED << settling, thens >>
      PROVE  TakenOver'
  <2>1. thens = 0 /\ sweep[s].lost > 0 /\ sweep[s].lost \in Nat
    BY <1>0, <1>4, <1>t DEF LoserComesFirst, SweepRow
  <2>2. settling
    BY <1>0, <1>4 DEF OneSettles, Settles, SweepAt
  <2>3. store'.failed > 0
    BY <1>4, <1>t, <2>1 DEF Failed
  <2> QED BY <1>4, <2>1, <2>2, <2>3 DEF TakenOver
<1> QED BY <1>1, <1>2, <1>3, <1>4, <1>c DEF CatchesChange

(* Every step keeps the invariant.                                         *)
LEMMA BatchInvStep == BatchInv /\ [BatchNext]_allVars => BatchInv'
<1> SUFFICES ASSUME BatchInv, [BatchNext]_allVars PROVE BatchInv'
  OBVIOUS
<1>1. BatchTypeOK' /\ JobInv'
  BY BatchTypeStep DEF BatchInv
<1> QED BY <1>1, UnsentStep, CountersStep, SweepersStep, CatchStep DEF BatchInv

(* What the invariant says of Then.                                        *)
LEMMA BatchInvThen == BatchInv => ThenIsTrue
<1> SUFFICES ASSUME BatchInv, thens = 1, OnceEach
             PROVE  AllSucceeded /\ (storeErrors = 0 => catches = 0)
  BY DEF ThenIsTrue, OnceEach
<1>1. /\ store.completed \in Nat /\ catches \in Nat /\ Total \in Nat
      /\ store.completed >= Total /\ store.completed <= Cardinality(Succeeded)
  BY LostType DEF BatchInv, BatchTypeOK, ThenIsLast, CompletedSucceeded
<1>2. Cardinality(Succeeded) = Cardinality(Jobs) /\ Succeeded \subseteq Jobs
  <2>1. Cardinality(Succeeded) <= Cardinality(Jobs) /\ Succeeded \subseteq Jobs
    BY SucceededFinite, FS_Subset, BatchConstants
  <2> QED BY <1>1, <2>1, SucceededFinite DEF Total
<1>3. Succeeded = Jobs
  BY <1>2, FS_Subset, BatchConstants
<1>4. AllSucceeded
  BY <1>3 DEF AllSucceeded, Succeeded
<1>5. ASSUME NEW j \in Jobs, Doomed(j) PROVE FALSE
  <2>1. Cardinality(Jobs \ {j}) = Cardinality(Jobs) - 1 /\ Cardinality(Jobs) \in Nat
    BY FS_RemoveElement, FS_CardinalityType, BatchConstants
  <2> QED BY <1>1, <1>3, <1>5, <2>1 DEF Doomed, Total
<1>6. storeErrors = 0 => catches = 0
  BY <1>1, <1>5 DEF BatchInv, CatchLeavesMark, TakenOver
<1> QED BY <1>4, <1>6

(* Workers and batches keep their types.                                   *)
THEOREM BatchTypeCorrect == BatchSpec => []BatchTypeOK
<1>1. BatchInv => BatchTypeOK
  BY DEF BatchInv
<1> QED BY <1>1, BatchInvInit, BatchInvStep, PTL DEF BatchSpec

(* A job that was pushed is never lost: until its success or its dead      *)
(* letter was acknowledged the queue has a copy of it, whoever dies, is    *)
(* late, or fails between handleRetry's two queue calls.                   *)
THEOREM JobsAreNotLost == BatchSpec => []JobNotLost
<1>1. BatchInv => JobNotLost
  BY DEF BatchInv, JobInv
<1> QED BY <1>1, BatchInvInit, BatchInvStep, PTL DEF BatchSpec

(* A dead letter was delivered MaxAttempts times.                          *)
THEOREM DeadLettersAreEarned == BatchSpec => []DeadLetterEarned
<1>1. BatchInv => DeadLetterEarned
  BY DEF BatchInv, JobInv
<1> QED BY <1>1, BatchInvInit, BatchInvStep, PTL DEF BatchSpec

(* Then is called only for a batch whose members all succeeded and, unless *)
(* the store failed, of which no Catch is ever called.                     *)
THEOREM ThenTellsTheTruth == BatchSpec => []ThenIsTrue
<1> QED BY BatchInvThen, BatchInvInit, BatchInvStep, PTL DEF BatchSpec

=============================================================================
