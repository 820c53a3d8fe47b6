---------------------------- MODULE OutboxRelay ----------------------------
(***************************************************************************)
(* The transactional outbox of adapters/outbox/db: the table that Record   *)
(* fills inside a business transaction, the relays of several replicas     *)
(* that claim its rows under a lease, publish them and record the outcome  *)
(* (relay.go), and the operator's commands (admin.go).                     *)
(*                                                                         *)
(* Every SQL statement is one atomic step on the table; a relay is the     *)
(* sequence of statements and Publish calls of its poll loop, and other    *)
(* relays, operators, crashes and the clock run between any two of them.   *)
(* Times are kept relative to now, so the clock has no horizon: a lease is *)
(* the time left to it, a processed row has an age.                        *)
(***************************************************************************)
EXTENDS Integers, FiniteSets

CONSTANTS
    Messages,     \* the messages business transactions may record
    Relays,       \* the replicas, each running one relay
    Created,      \* created_at of each message
    BatchSize,    \* Options.BatchSize
    LockTime,     \* Options.LockSeconds
    Delays,       \* the delays the retry backoff may return
    MaxAttempts,  \* Options.MaxAttempts
    Retention,    \* Options.Retention
    MaxFaults,    \* bound: crashes, closes, lost statements, late errors
    MaxAdmin,     \* bound: the operator's commands
    Prompt        \* TRUE when no relay outlives the lease of its batch

ASSUME RelayAssumption ==
    /\ Created \in [Messages -> Nat]
    /\ BatchSize \in Nat \ {0}
    /\ LockTime \in Nat
    /\ Delays \subseteq Nat /\ Delays # {}
    /\ MaxAttempts \in Nat \ {0}
    /\ Retention \in Nat
    /\ MaxFaults \in Nat
    /\ MaxAdmin \in Nat
    /\ Prompt \in BOOLEAN

VARIABLES
    status,       \* the status column; absent, purged and deleted: no row
    attempts,     \* the attempts column
    lockedUntil,  \* locked_until less now; Free when it is NULL or past
    age,          \* now less processed_at, counted up to Retention + 1
    publisher,    \* the relay has a Publisher
    phase,        \* where the relay's goroutine is
    cancelled,    \* Close cancelled the relay's context
    batch,        \* claimed rows the relay has yet to deliver
    current,      \* the claimed row whose outcome is yet to be recorded
    published,    \* how often the transport accepted a message
    unrecorded,   \* claims whose true outcome never reached the row
    faults,       \* how much of MaxFaults is used
    admin         \* how much of MaxAdmin is used

rowVars == <<status, attempts, lockedUntil, age>>
relayVars == <<publisher, phase, cancelled, batch, current>>
historyVars == <<published, unrecorded>>
boundVars == <<faults, admin>>
vars == <<rowVars, relayVars, historyVars, boundVars>>

Free == -1

Statuses == {"absent", "pending", "processed", "failed", "purged", "deleted"}

(* new: opened, not started.  idle: waiting for the ticker.  batch:        *)
(* between two deliveries.  ok, error: Publish returned, the row is not    *)
(* marked yet.  stopped: the goroutine is gone.                            *)
Phases == {"new", "idle", "batch", "ok", "error", "stopped"}

(* A row as claim returned it: attempts is the relay's own copy.           *)
Claims == [id : Messages, attempts : Nat]

Held(r) == batch[r] \union current[r]

Init ==
    /\ status = [m \in Messages |-> "absent"]
    /\ attempts = [m \in Messages |-> 0]
    /\ lockedUntil = [m \in Messages |-> Free]
    /\ age = [m \in Messages |-> 0]
    /\ publisher = [r \in Relays |-> FALSE]
    /\ phase = [r \in Relays |-> "new"]
    /\ cancelled = [r \in Relays |-> FALSE]
    /\ batch = [r \in Relays |-> {}]
    /\ current = [r \in Relays |-> {}]
    /\ published = [m \in Messages |-> 0]
    /\ unrecorded = [m \in Messages |-> 0]
    /\ faults = 0
    /\ admin = 0

-----------------------------------------------------------------------------
(* Record: the insert commits with the business write.  A repeated id is   *)
(* refused by the primary key and takes its transaction down with it.      *)
Record(m) ==
    /\ status[m] = "absent"
    /\ status' = [status EXCEPT ![m] = "pending"]
    /\ attempts' = [attempts EXCEPT ![m] = 0]
    /\ lockedUntil' = [lockedUntil EXCEPT ![m] = Free]
    /\ UNCHANGED <<age, relayVars, historyVars, boundVars>>

-----------------------------------------------------------------------------
(* The relay's life: wiring, Start, Close, and the end of the process.     *)

SetPublisher(r) ==
    /\ phase[r] # "stopped"
    /\ ~publisher[r]
    /\ publisher' = [publisher EXCEPT ![r] = TRUE]
    /\ UNCHANGED <<rowVars, phase, cancelled, batch, current, historyVars,
                   boundVars>>

(* Start refuses a closed driver and one without a publisher, and does     *)
(* nothing when the loop already runs.                                     *)
Start(r) ==
    /\ phase[r] = "new"
    /\ publisher[r]
    /\ phase' = [phase EXCEPT ![r] = "idle"]
    /\ UNCHANGED <<rowVars, publisher, cancelled, batch, current,
                   historyVars, boundVars>>

(* Close cancels the context and waits for the loop; a driver that was     *)
(* never started has nothing to wait for.                                  *)
Close(r) ==
    /\ faults < MaxFaults
    /\ phase[r] # "stopped"
    /\ ~cancelled[r]
    /\ faults' = faults + 1
    /\ cancelled' = [cancelled EXCEPT ![r] = TRUE]
    /\ phase' = [phase EXCEPT ![r] = IF @ = "new" THEN "stopped" ELSE @]
    /\ UNCHANGED <<rowVars, publisher, batch, current, historyVars, admin>>

(* loop leaves on ctx.Done, and Close returns.                             *)
LoopExit(r) ==
    /\ phase[r] = "idle"
    /\ cancelled[r]
    /\ phase' = [phase EXCEPT ![r] = "stopped"]
    /\ UNCHANGED <<rowVars, publisher, cancelled, batch, current,
                   historyVars, boundVars>>

(* The claims whose outcome is lost with the relay that holds them; a      *)
(* relay holds no two of one message.                                      *)
Forgotten(S) ==
    [m \in Messages |->
        IF \E c \in S : c.id = m THEN unrecorded[m] + 1 ELSE unrecorded[m]]

(* The process dies.                                                       *)
Crash(r) ==
    /\ faults < MaxFaults
    /\ phase[r] # "stopped"
    /\ faults' = faults + 1
    /\ phase' = [phase EXCEPT ![r] = "stopped"]
    /\ batch' = [batch EXCEPT ![r] = {}]
    /\ current' = [current EXCEPT ![r] = {}]
    /\ unrecorded' = Forgotten(Held(r))
    /\ UNCHANGED <<rowVars, publisher, cancelled, published, admin>>

(* A new process opens the store; nothing is started or wired yet.         *)
Restart(r) ==
    /\ phase[r] = "stopped"
    /\ phase' = [phase EXCEPT ![r] = "new"]
    /\ publisher' = [publisher EXCEPT ![r] = FALSE]
    /\ cancelled' = [cancelled EXCEPT ![r] = FALSE]
    /\ UNCHANGED <<rowVars, batch, current, historyVars, boundVars>>

-----------------------------------------------------------------------------
(* pollOnce: claim, deliver one by one, cleanup.                           *)

(* Mutant of Due: the lease is not looked at.                              *)
DueUnlocked == {m \in Messages : status[m] = "pending"}

(* Mutant of Due: a lapsed lease does not free a row, only a NULL one, so  *)
(* only rows that were never claimed are taken.                            *)
DueNeverLeased == {m \in Messages : status[m] = "pending" /\ attempts[m] = 0}

(* The rows the claim statement may take.                                  *)
Due == {m \in Messages : status[m] = "pending" /\ lockedUntil[m] < 0}

(* ORDER BY created_at LIMIT BatchSize; rows of one created_at in any      *)
(* order.                                                                  *)
Batches ==
    {S \in SUBSET Due :
        /\ Cardinality(S) =
              IF Cardinality(Due) < BatchSize THEN Cardinality(Due)
                                              ELSE BatchSize
        /\ \A m \in S, n \in Due \ S : Created[m] <= Created[n]}

(* The UPDATE of the claim statement.                                      *)
ClaimRows(S) ==
    /\ attempts' = [m \in Messages |->
                       IF m \in S THEN attempts[m] + 1 ELSE attempts[m]]
    /\ lockedUntil' = [m \in Messages |->
                          IF m \in S THEN LockTime ELSE lockedUntil[m]]
    /\ UNCHANGED <<status, age>>

Claim(r) ==
    /\ phase[r] = "idle"
    /\ ~cancelled[r]
    /\ \E S \in Batches :
          /\ ClaimRows(S)
          /\ batch' = [batch EXCEPT ![r] =
                          {[id |-> m, attempts |-> attempts'[m]] : m \in S}]
    /\ phase' = [phase EXCEPT ![r] = "batch"]
    /\ UNCHANGED <<publisher, cancelled, current, historyVars, boundVars>>

(* The statement commits but its rows do not reach the relay (connection   *)
(* lost, scan error): pollOnce returns with the rows leased to nobody.     *)
ClaimLost(r) ==
    /\ phase[r] = "idle"
    /\ ~cancelled[r]
    /\ faults < MaxFaults
    /\ faults' = faults + 1
    /\ \E S \in Batches \ {{}} :
          /\ ClaimRows(S)
          /\ unrecorded' = [m \in Messages |->
                IF m \in S THEN unrecorded[m] + 1 ELSE unrecorded[m]]
    /\ UNCHANGED <<relayVars, published, admin>>

(* deliver: Publish of one claimed row.  RETURNING promises no order, so   *)
(* any row of the batch may be next.  The transport may accept a message   *)
(* and the call still return an error.                                     *)
Publish(r, accepted, answer) ==
    /\ phase[r] = "batch"
    /\ ~cancelled[r]
    /\ answer = "ok" => accepted
    /\ faults' = faults + (IF accepted /\ answer = "error" THEN 1 ELSE 0)
    /\ faults' <= MaxFaults
    /\ \E c \in batch[r] :
          /\ batch' = [batch EXCEPT ![r] = @ \ {c}]
          /\ current' = [current EXCEPT ![r] = {c}]
          /\ published' =
                [published EXCEPT ![c.id] = @ + IF accepted THEN 1 ELSE 0]
          /\ unrecorded' =
                [unrecorded EXCEPT ![c.id] = @ + (faults' - faults)]
    /\ phase' = [phase EXCEPT ![r] = answer]
    /\ UNCHANGED <<rowVars, publisher, cancelled, admin>>

(* Mutant of BatchDropped: the batch is not let go.                        *)
BatchDroppedKept(r) ==
    /\ phase[r] = "batch"
    /\ cancelled[r]
    /\ batch[r] # {}
    /\ phase' = [phase EXCEPT ![r] = "idle"]
    /\ UNCHANGED <<rowVars, publisher, cancelled, batch, current,
                   historyVars, boundVars>>

(* pollOnce sees the cancelled context before the next delivery and        *)
(* returns; the leases of the rest of the batch are left to lapse.         *)
BatchDropped(r) ==
    /\ phase[r] = "batch"
    /\ cancelled[r]
    /\ batch[r] # {}
    /\ batch' = [batch EXCEPT ![r] = {}]
    /\ unrecorded' = Forgotten(batch[r])
    /\ phase' = [phase EXCEPT ![r] = "idle"]
    /\ UNCHANGED <<rowVars, publisher, cancelled, current, published,
                   boundVars>>

(* Mutant of Exhausted: one attempt too many.                              *)
ExhaustedLate(c) == c.attempts > MaxAttempts

(* The attempt that fails for good, by the relay's copy of the count.      *)
Exhausted(c) == c.attempts >= MaxAttempts

(* Mutant of StillPending: the outcome is recorded whatever the row says.  *)
StillPendingUnchecked(m) == status[m] \notin {"absent", "purged", "deleted"}

(* WHERE id = ? AND status = 'pending'; the three mark statements do not   *)
(* ask whose lease it is.                                                  *)
StillPending(m) == status[m] = "pending"

markProcessed(m) ==
    /\ status' = [status EXCEPT ![m] = "processed"]
    /\ lockedUntil' = [lockedUntil EXCEPT ![m] = Free]
    /\ age' = [age EXCEPT ![m] = 0]

markFailed(m) ==
    /\ status' = [status EXCEPT ![m] = "failed"]
    /\ lockedUntil' = [lockedUntil EXCEPT ![m] = Free]
    /\ UNCHANGED age

markRetry(m) ==
    /\ \E d \in Delays : lockedUntil' = [lockedUntil EXCEPT ![m] = d]
    /\ UNCHANGED <<status, age>>

(* Mutant of Outcome: an error of the last attempt counts as delivered.    *)
OutcomeGivenUp(answer, c) ==
    \/ answer = "ok" /\ markProcessed(c.id)
    \/ answer = "error" /\ Exhausted(c) /\ markProcessed(c.id)
    \/ answer = "error" /\ ~Exhausted(c) /\ markRetry(c.id)

(* The switch of deliver.                                                  *)
Outcome(answer, c) ==
    \/ answer = "ok" /\ markProcessed(c.id)
    \/ answer = "error" /\ Exhausted(c) /\ markFailed(c.id)
    \/ answer = "error" /\ ~Exhausted(c) /\ markRetry(c.id)

Mark(r) ==
    /\ phase[r] \in {"ok", "error"}
    /\ ~cancelled[r]
    /\ \E c \in current[r] :
          \/ StillPending(c.id) /\ Outcome(phase[r], c)
          \/ ~StillPending(c.id) /\ UNCHANGED <<status, lockedUntil, age>>
    /\ current' = [current EXCEPT ![r] = {}]
    /\ phase' = [phase EXCEPT ![r] = "batch"]
    /\ UNCHANGED <<attempts, publisher, cancelled, batch, historyVars,
                   boundVars>>

(* The mark statement fails, always so when Close has cancelled the        *)
(* context it runs under: setRelayError, and on to the next row.           *)
MarkLost(r) ==
    /\ phase[r] \in {"ok", "error"}
    /\ faults' = faults + (IF cancelled[r] THEN 0 ELSE 1)
    /\ faults' <= MaxFaults
    /\ current' = [current EXCEPT ![r] = {}]
    /\ unrecorded' = Forgotten(current[r])
    /\ phase' = [phase EXCEPT ![r] = "batch"]
    /\ UNCHANGED <<rowVars, publisher, cancelled, batch, published,
                   admin>>

(* Rows processed more than t ago.                                         *)
OlderThan(t) == {m \in Messages : status[m] = "processed" /\ age[m] > t}

Purged(S) == [m \in Messages |-> IF m \in S THEN "purged" ELSE status[m]]

(* cleanup ends the poll; it deletes nothing when its statement fails.     *)
Cleanup(r) ==
    /\ phase[r] = "batch"
    /\ batch[r] = {}
    /\ \/ ~cancelled[r] /\ status' = Purged(OlderThan(Retention))
       \/ UNCHANGED status
    /\ phase' = [phase EXCEPT ![r] = "idle"]
    /\ UNCHANGED <<attempts, lockedUntil, age, publisher, cancelled, batch,
                   current, historyVars, boundVars>>

-----------------------------------------------------------------------------
(* admin.go, run by an operator beside the relays.                         *)

AdminStep == admin < MaxAdmin /\ admin' = admin + 1

(* Requeue of one failed message, or of all with the empty id.             *)
Requeue(S) ==
    /\ AdminStep
    /\ status' = [m \in Messages |-> IF m \in S THEN "pending" ELSE status[m]]
    /\ attempts' = [m \in Messages |-> IF m \in S THEN 0 ELSE attempts[m]]
    /\ lockedUntil' = [m \in Messages |->
                          IF m \in S THEN Free ELSE lockedUntil[m]]
    /\ UNCHANGED <<age, relayVars, published, unrecorded, faults>>

Failed == {m \in Messages : status[m] = "failed"}

RequeueOne(m) == m \in Failed /\ Requeue({m})
RequeueAll == Failed # {} /\ Requeue(Failed)

Purge(t) ==
    /\ AdminStep
    /\ OlderThan(t) # {}
    /\ status' = Purged(OlderThan(t))
    /\ UNCHANGED <<attempts, lockedUntil, age, relayVars, historyVars, faults>>

(* Delete takes a row whatever its status, a claimed one too.              *)
Delete(m) ==
    /\ AdminStep
    /\ status[m] \in {"pending", "processed", "failed"}
    /\ status' = [status EXCEPT ![m] = "deleted"]
    /\ UNCHANGED <<attempts, lockedUntil, age, relayVars, historyVars, faults>>

-----------------------------------------------------------------------------
(* The clock.  Under Prompt it does not take the last of a lease away from *)
(* a relay that still works under it.                                      *)
Tick ==
    /\ Prompt => \A r \in Relays : \A c \in Held(r) :
                    status[c.id] = "pending" => lockedUntil[c.id] # 0
    /\ lockedUntil' = [m \in Messages |->
                          IF lockedUntil[m] > Free THEN lockedUntil[m] - 1
                                                   ELSE Free]
    /\ age' = [m \in Messages |->
                  IF status[m] = "processed" /\ age[m] <= Retention
                  THEN age[m] + 1 ELSE age[m]]
    /\ UNCHANGED <<status, attempts, relayVars, historyVars, boundVars>>

Deliver(r) ==
    \E accepted \in BOOLEAN, answer \in {"ok", "error"} :
        Publish(r, accepted, answer)

RelayStep(r) ==
    \/ SetPublisher(r) \/ Start(r) \/ LoopExit(r) \/ Restart(r)
    \/ Claim(r) \/ Deliver(r) \/ BatchDropped(r) \/ Mark(r) \/ Cleanup(r)

FaultStep(r) == Close(r) \/ Crash(r) \/ ClaimLost(r) \/ MarkLost(r)

AdminNext ==
    \/ \E m \in Messages : RequeueOne(m) \/ Delete(m)
    \/ RequeueAll
    \/ \E t \in -1..Retention : Purge(t)

Next ==
    \/ \E m \in Messages : Record(m)
    \/ \E r \in Relays : RelayStep(r) \/ FaultStep(r)
    \/ AdminNext
    \/ Tick

Spec == Init /\ [][Next]_vars

(* Every replica is wired, started and restarted, its loop keeps running,  *)
(* a cancelled mark statement returns, and time passes.  Nothing makes     *)
(* business transactions, operators or faults happen.                      *)
Fairness ==
    /\ WF_vars(Tick)
    /\ \A r \in Relays :
          /\ WF_vars(RelayStep(r))
          /\ WF_vars(cancelled[r] /\ MarkLost(r))

FairSpec == Spec /\ Fairness

-----------------------------------------------------------------------------
(* Rows, relays and counters have their types; a relay holds claims only   *)
(* while it delivers them, and exactly one between Publish and its mark.   *)
TypeOK ==
    /\ status \in [Messages -> Statuses]
    /\ attempts \in [Messages -> Nat]
    /\ lockedUntil \in [Messages -> Int]
    /\ \A m \in Messages : lockedUntil[m] >= Free
    /\ age \in [Messages -> 0..(Retention + 1)]
    /\ publisher \in [Relays -> BOOLEAN]
    /\ phase \in [Relays -> Phases]
    /\ cancelled \in [Relays -> BOOLEAN]
    /\ batch \in [Relays -> SUBSET Claims]
    /\ current \in [Relays -> SUBSET Claims]
    /\ published \in [Messages -> Nat]
    /\ unrecorded \in [Messages -> Nat]
    /\ faults \in 0..MaxFaults
    /\ admin \in 0..MaxAdmin
    /\ \A r \in Relays :
          /\ phase[r] \in {"new", "idle", "stopped"} => batch[r] = {}
          /\ phase[r] \notin {"ok", "error"} => current[r] = {}
          /\ phase[r] \in {"ok", "error"} =>
                \E c \in current[r] : current[r] = {c}

(* A row is marked processed, and later purged, only when the transport    *)
(* has accepted its message: whatever crashes, lapses or races, no message *)
(* leaves the table undelivered except by the operator's Delete.           *)
NoSilentLoss ==
    \A m \in Messages :
        status[m] \in {"processed", "purged"} => published[m] > 0

(* A processed row never becomes pending or failed again, and a failed one *)
(* leaves the dead-letter queue only by an operator's command, although    *)
(* relays whose lease lapsed long ago still come back with their outcome.  *)
SettledStays ==
    [][\A m \in Messages :
          /\ status[m] = "processed" =>
                status'[m] \in {"processed", "purged", "deleted"}
          /\ status[m] = "failed" =>
                status'[m] = "failed" \/ admin' = admin + 1]_vars

(* While relays finish within their lease: each publication beyond the     *)
(* first answers a claim whose outcome was lost, so replicas never publish *)
(* a message twice by racing each other.                                   *)
NoRacePublish ==
    Prompt => \A m \in Messages : published[m] <= 1 + unrecorded[m]

(* While relays finish within their lease: the attempts of a row exceed    *)
(* MaxAttempts by no more than the claims whose outcome was lost.          *)
AttemptBudget ==
    Prompt => \A m \in Messages :
                 attempts[m] <= MaxAttempts + unrecorded[m]

(* A recorded message is published and its row settled, or it ends in the  *)
(* dead-letter queue or is deleted: leases of dead relays lapse, retries   *)
(* end, and no row waits for ever behind older ones.                       *)
RowsSettle ==
    \A m \in Messages :
        status[m] = "pending" ~>
            \/ status[m] \in {"processed", "purged"} /\ published[m] > 0
            \/ status[m] \in {"failed", "deleted"}

(* The user guide: any number of replicas relays one table without double  *)
(* publication.                                                            *)
NoDoublePublish == \A m \in Messages : published[m] <= 1

=============================================================================
