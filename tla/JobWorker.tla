----------------------------- MODULE JobWorker -----------------------------
(***************************************************************************)
(* core/job.Worker over any queue that keeps QueueContract.  A copy is one  *)
(* message of the queue; a retry pushes a new copy of its job, with the     *)
(* attempt number in a header, before it acknowledges the old one.          *)
(* Handlers are the goroutines of all workers; backoff delays are time      *)
(* spent waiting in the queue and are left out.                             *)
(***************************************************************************)
EXTENDS Naturals, FiniteSets

CONSTANTS
    Jobs,          \* jobs that are dispatched
    Handlers,      \* goroutines running handlers
    Local,         \* handlers in the process that dispatches; they cannot die alone
    MaxAttempts,   \* RetryPolicy.MaxAttempts
    MaxCopies,     \* messages
    MaxJobFaults,  \* leases that lapse too early, workers that die, queue calls that fail
    NoJob

ASSUME JobConstants ==
    /\ MaxAttempts \in Nat \ {0}
    /\ MaxCopies \in Nat
    /\ MaxJobFaults \in Nat
    /\ Local \subseteq Handlers
    /\ NoJob \notin Jobs

Copies == 1 .. MaxCopies

VARIABLES
    place, attempt,  \* the queue: place and Message.Attempt of each copy
    jobOf,           \* the job of a copy
    header,          \* its attempt header, 0 when it has none
    hand,            \* per handler: program counter, copy, attempt delivered, verdict
    deliveries,      \* history: deliveries of each job
    finished,        \* history: verdicts that were acknowledged, by job
    jobFaults        \* number of faults so far

queueVars == << place, attempt, jobOf, header >>
jobVars == << queueVars, hand, deliveries, finished, jobFaults >>

Queue == INSTANCE QueueContract WITH Messages <- Copies
-----------------------------------------------------------------------------
Verdicts == {"success", "dead", "retry"}

Hand ==
    [pc : {"idle", "run", "push", "ack", "incr", "flag", "get", "drop"},
     copy : Copies \union {0}, got : Nat, verdict : Verdicts]

IdleHand == [pc |-> "idle", copy |-> 0, got |-> 0, verdict |-> "retry"]

JobTypeOK ==
    /\ Queue!TypeOK
    /\ jobOf \in [Copies -> Jobs \union {NoJob}]
    /\ header \in [Copies -> 0 .. MaxAttempts]
    /\ hand \in [Handlers -> Hand]
    /\ deliveries \in [Jobs -> Nat]
    /\ finished \in [Jobs -> SUBSET {"success", "dead"}]
    /\ jobFaults \in 0 .. MaxJobFaults

JobInit ==
    /\ Queue!Init
    /\ jobOf = [c \in Copies |-> NoJob]
    /\ header = [c \in Copies |-> 0]
    /\ hand = [h \in Handlers |-> IdleHand]
    /\ deliveries = [j \in Jobs |-> 0]
    /\ finished = [j \in Jobs |-> {}]
    /\ jobFaults = 0
-----------------------------------------------------------------------------
HandAt(h, pc) == hand[h].pc = pc
HandGoto(h, next) == hand' = [hand EXCEPT ![h] = next]
Carried(h) == jobOf[hand[h].copy]

JobFault == jobFaults < MaxJobFaults /\ jobFaults' = jobFaults + 1

\* A new message for job j, with attempt header n.
Fresh == {c \in Copies : place[c] = "absent"}
PushCopy(j, n) ==
    \E c \in Fresh :
        /\ \A d \in Fresh : c <= d
        /\ Queue!Accept(c)
        /\ jobOf' = [jobOf EXCEPT ![c] = j]
        /\ header' = [header EXCEPT ![c] = n]

\* runLoop, popNextAvailable: some worker gets a message.
Pop(h) ==
    \E c \in Copies :
        /\ HandAt(h, "idle")
        /\ Queue!Deliver(c)
        /\ HandGoto(h, [IdleHand EXCEPT !.pc = "run", !.copy = c, !.got = attempt[c]])
        /\ deliveries' = [deliveries EXCEPT ![jobOf[c]] = @ + 1]
        /\ UNCHANGED << jobOf, header, finished, jobFaults >>

effectiveAttempt(h) ==
    IF header[hand[h].copy] # 0 THEN header[hand[h].copy] ELSE hand[h].got

\* Mutant of Verdict: given up one attempt early.
VerdictEarly(h) == IF effectiveAttempt(h) + 1 >= MaxAttempts THEN "dead" ELSE "retry"

\* handleResult after a failure.
Verdict(h) == IF effectiveAttempt(h) >= MaxAttempts THEN "dead" ELSE "retry"

\* The handler returns, panics or times out.
RunHandler(h) ==
    /\ HandAt(h, "run")
    /\ \/ HandGoto(h, [hand[h] EXCEPT !.pc = "ack", !.verdict = "success"])
       \/ HandGoto(h, [hand[h] EXCEPT !.verdict = Verdict(h),
                           !.pc = IF Verdict(h) = "dead" THEN "ack" ELSE "push"])
    /\ UNCHANGED << queueVars, deliveries, finished, jobFaults >>

\* Mutants of PushRetry: the delivery is acknowledged although the push
\* failed; the attempt header is not raised.
PushRetryIgnored(h) ==
    /\ HandAt(h, "push")
    /\ \/ PushCopy(Carried(h), effectiveAttempt(h) + 1) /\ UNCHANGED jobFaults
       \/ JobFault /\ UNCHANGED queueVars
    /\ HandGoto(h, [hand[h] EXCEPT !.pc = "ack"])
    /\ UNCHANGED << deliveries, finished >>

PushRetrySame(h) ==
    /\ HandAt(h, "push")
    /\ PushCopy(Carried(h), effectiveAttempt(h))
    /\ HandGoto(h, [hand[h] EXCEPT !.pc = "ack"])
    /\ UNCHANGED << deliveries, finished, jobFaults >>

\* handleRetry: the next attempt goes into the queue first.
PushRetry(h) ==
    /\ HandAt(h, "push")
    /\ \/ /\ PushCopy(Carried(h), effectiveAttempt(h) + 1)
          /\ HandGoto(h, [hand[h] EXCEPT !.pc = "ack"])
          /\ UNCHANGED jobFaults
       \/ /\ JobFault
          /\ HandGoto(h, IdleHand)
          /\ UNCHANGED queueVars
    /\ UNCHANGED << deliveries, finished >>

\* Ack removes the delivery it names; a stale one is answered with nil too.
Removed(c, got) ==
    IF place[c] = "leased" /\ attempt[c] = got
    THEN Queue!Remove(c)
    ELSE UNCHANGED << place, attempt >>

\* The Ack of handleSuccess, handleDeadLetter and handleRetry.  A batch
\* member's result is reported only after it.
AckJob(h) ==
    /\ HandAt(h, "ack")
    /\ \/ /\ Removed(hand[h].copy, hand[h].got)
          /\ IF hand[h].verdict = "retry"
             THEN HandGoto(h, IdleHand) /\ UNCHANGED finished
             ELSE /\ HandGoto(h, [hand[h] EXCEPT !.pc = "incr"])
                  /\ finished' = [finished EXCEPT ![Carried(h)] = @ \union {hand[h].verdict}]
          /\ UNCHANGED jobFaults
       \/ /\ JobFault
          /\ HandGoto(h, IdleHand)
          /\ UNCHANGED << place, attempt, finished >>
    /\ UNCHANGED << jobOf, header, deliveries >>

\* The visibility timeout: of a delivery nobody works on, or too early.
LapseJob(c) ==
    /\ Queue!Return({c})
    /\ IF \E h \in Handlers : ~HandAt(h, "idle") /\ hand[h].copy = c /\ hand[h].got = attempt[c]
       THEN JobFault
       ELSE UNCHANGED jobFaults
    /\ UNCHANGED << jobOf, header, hand, deliveries, finished >>

\* A worker process is killed.
HandlerDies(h) ==
    /\ ~HandAt(h, "idle")
    /\ h \notin Local
    /\ JobFault
    /\ HandGoto(h, IdleHand)
    /\ UNCHANGED << queueVars, deliveries, finished >>

HandlerStep(h) == RunHandler(h) \/ PushRetry(h) \/ AckJob(h)
-----------------------------------------------------------------------------
(* Properties. *)

Pushed == {jobOf[c] : c \in {d \in Copies : place[d] # "absent"}}

\* A job that was pushed is never lost: until a handler's success or its
\* dead letter was acknowledged, the queue has a copy of it, whoever dies or
\* is late, and whichever of handleRetry's two queue calls fails.
JobNotLost ==
    \A j \in Pushed :
        \/ finished[j] # {}
        \/ \E c \in Copies : jobOf[c] = j /\ place[c] \in {"waiting", "leased"}

\* A job is given up only after MaxAttempts deliveries: the number a handler
\* goes by, from the header or from the queue, never runs ahead of what was
\* delivered, also when copies of the job multiply.
DeadLetterEarned ==
    \A j \in Jobs : "dead" \in finished[j] => deliveries[j] >= MaxAttempts
=============================================================================
