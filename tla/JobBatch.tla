------------------------------ MODULE JobBatch ------------------------------
(***************************************************************************)
(* A batch of core/job: Batch.Dispatch, the reports workers make for its    *)
(* members and the sweeper that settles it after its deadline.  Counters    *)
(* live in the BatchStore, the callbacks in a map of the dispatching        *)
(* process, so only Local handlers and that process's sweepers find them.   *)
(***************************************************************************)
EXTENDS JobWorker

CONSTANTS
    Sweepers,        \* sweep loops in the dispatching process
    MaxStoreErrors   \* BatchStore calls that fail

ASSUME BatchConstants ==
    /\ IsFiniteSet(Jobs)
    /\ MaxStoreErrors \in Nat

VARIABLES
    store,         \* BatchStore: [completed, failed]
    callback,      \* entry of batchCallbacks: "none", "registered", "removed"
    settling,      \* its flag
    due,           \* its deadline has passed
    dispatch,      \* Batch.Dispatch: [pc, unsent, failures]
    sweep,         \* per sweeper: [pc, lost]
    thens, catches,\* calls of onComplete and onFailure
    reports,       \* history: results counted, by job
    storeErrors

batchVars == << store, callback, settling, due, dispatch, sweep, thens, catches,
                reports, storeErrors >>
allVars == << jobVars, batchVars >>

Total == Cardinality(Jobs)

BatchTypeOK ==
    /\ JobTypeOK
    /\ store \in [completed : Nat, failed : Nat]
    /\ callback \in {"none", "registered", "removed"}
    /\ settling \in BOOLEAN
    /\ due \in BOOLEAN
    /\ dispatch \in [pc : {"create", "push", "incr", "catch", "settle", "done"},
                     unsent : SUBSET Jobs, failures : Nat]
    /\ sweep \in [Sweepers -> [pc : {"idle", "cas", "count", "lose", "final", "delete", "release"},
                               lost : Nat]]
    /\ thens \in 0 .. 1
    /\ catches \in Nat
    /\ reports \in [Jobs -> Nat]
    /\ storeErrors \in 0 .. MaxStoreErrors

BatchInit ==
    /\ JobInit
    /\ store = [completed |-> 0, failed |-> 0]
    /\ callback = "none"
    /\ settling = FALSE
    /\ due = FALSE
    /\ dispatch = [pc |-> "create", unsent |-> Jobs, failures |-> 0]
    /\ sweep = [s \in Sweepers |-> [pc |-> "idle", lost |-> 0]]
    /\ thens = 0
    /\ catches = 0
    /\ reports = [j \in Jobs |-> 0]
    /\ storeErrors = 0
-----------------------------------------------------------------------------
StoreError ==
    /\ storeErrors < MaxStoreErrors
    /\ storeErrors' = storeErrors + 1
StoreOK == UNCHANGED storeErrors

\* Mutant of Settled: one member too early.
SettledEarly == store.completed + store.failed + 1 >= Total

Settled == store.completed + store.failed >= Total
Completed(n) == [store EXCEPT !.completed = @ + n]
Failed(n) == [store EXCEPT !.failed = @ + n]

\* completeOnce.Do(onComplete)
CompleteOnce == thens' = 1

DispatchAt(pc) == dispatch.pc = pc
DispatchGoto(pc) == dispatch' = [dispatch EXCEPT !.pc = pc]

\* store.Create, whose error ends Dispatch; then the callbacks are registered.
Create ==
    /\ DispatchAt("create")
    /\ \/ StoreOK /\ callback' = "registered" /\ DispatchGoto("push")
       \/ StoreError /\ DispatchGoto("done") /\ UNCHANGED callback
    /\ UNCHANGED << jobVars, store, settling, due, sweep, thens, catches, reports >>

\* One member goes to the queue, or its push fails.
PushMember ==
    /\ DispatchAt("push")
    /\ \E j \in dispatch.unsent :
          \/ /\ PushCopy(j, 0)
             /\ dispatch' = [dispatch EXCEPT !.unsent = @ \ {j}]
             /\ UNCHANGED jobFaults
          \/ /\ JobFault
             /\ dispatch' = [dispatch EXCEPT !.pc = "incr", !.unsent = @ \ {j},
                                             !.failures = @ + 1]
             /\ UNCHANGED queueVars
    /\ UNCHANGED << hand, deliveries, finished, store, callback, settling, due, sweep,
                    thens, catches, reports, storeErrors >>

\* The failed member is counted; its Catch is called when it was.
CountUnsent ==
    /\ DispatchAt("incr")
    /\ \/ StoreOK /\ store' = Failed(1) /\ DispatchGoto("catch")
       \/ StoreError /\ DispatchGoto("push") /\ UNCHANGED store
    /\ UNCHANGED << jobVars, callback, settling, due, sweep, thens, catches, reports >>

CatchUnsent ==
    /\ DispatchAt("catch")
    /\ catches' = IF callback = "registered" THEN catches + 1 ELSE catches
    /\ DispatchGoto("push")
    /\ UNCHANGED << jobVars, store, callback, settling, due, sweep, thens, reports, storeErrors >>

\* The loop is over; with failures Dispatch looks whether that settled it.
AllSent ==
    /\ DispatchAt("push")
    /\ dispatch.unsent = {}
    /\ DispatchGoto(IF dispatch.failures > 0 THEN "settle" ELSE "done")
    /\ UNCHANGED << jobVars, store, callback, settling, due, sweep, thens, catches,
                    reports, storeErrors >>

SettleDispatch ==
    /\ DispatchAt("settle")
    /\ \/ StoreOK /\ callback' = IF Settled THEN "removed" ELSE callback
       \/ StoreError /\ UNCHANGED callback
    /\ DispatchGoto("done")
    /\ UNCHANGED << jobVars, store, settling, due, sweep, thens, catches, reports >>
-----------------------------------------------------------------------------
\* What a report sees of the callback map.
Sees(h) == h \in Local /\ callback = "registered"
Success(h) == hand[h].verdict = "success"
HandPC(h, pc) == HandGoto(h, [hand[h] EXCEPT !.pc = pc])
ReportEnds(h) == HandGoto(h, IdleHand)
WorkerIdle == UNCHANGED << queueVars, deliveries, finished, jobFaults, due, dispatch, sweep >>

\* IncrementCompleted, IncrementFailed; an error ends the report.
ReportCount(h) ==
    /\ HandAt(h, "incr")
    /\ \/ /\ StoreOK
          /\ store' = IF Success(h) THEN Completed(1) ELSE Failed(1)
          /\ reports' = [reports EXCEPT ![Carried(h)] = @ + 1]
          /\ HandPC(h, "flag")
       \/ /\ StoreError
          /\ ReportEnds(h)
          /\ UNCHANGED << store, reports >>
    /\ WorkerIdle
    /\ UNCHANGED << callback, settling, thens, catches >>

\* While the sweeper settles the batch the report leaves the rest to it;
\* otherwise a failure calls Catch.
ReportFlag(h) ==
    /\ HandAt(h, "flag")
    /\ \/ /\ Sees(h) /\ settling
          /\ ReportEnds(h)
          /\ UNCHANGED catches
       \/ /\ ~(Sees(h) /\ settling)
          /\ catches' = IF Sees(h) /\ ~Success(h) THEN catches + 1 ELSE catches
          /\ HandPC(h, "get")
    /\ WorkerIdle
    /\ UNCHANGED << store, callback, settling, thens, reports, storeErrors >>

\* batchSettle; failed is remembered as the verdict of the batch.
ReportGet(h) ==
    /\ HandAt(h, "get")
    /\ \/ /\ StoreOK
          /\ IF Settled
             THEN HandGoto(h, [hand[h] EXCEPT !.pc = "drop",
                     !.verdict = IF Success(h) /\ store.failed = 0 THEN "success" ELSE "dead"])
             ELSE ReportEnds(h)
       \/ StoreError /\ ReportEnds(h)
    /\ WorkerIdle
    /\ UNCHANGED << store, callback, settling, thens, catches, reports >>

\* The entry goes, unless the sweeper is at it; the last success calls Then.
ReportDrop(h) ==
    /\ HandAt(h, "drop")
    /\ IF Sees(h) /\ ~settling
       THEN /\ callback' = "removed"
            /\ IF Success(h) THEN CompleteOnce ELSE UNCHANGED thens
       ELSE UNCHANGED << callback, thens >>
    /\ ReportEnds(h)
    /\ WorkerIdle
    /\ UNCHANGED << store, settling, catches, reports, storeErrors >>
-----------------------------------------------------------------------------
\* The deadline matters from the registration on.
DeadlinePasses ==
    /\ ~due
    /\ callback = "registered"
    /\ due' = TRUE
    /\ UNCHANGED << jobVars, store, callback, settling, dispatch, sweep, thens, catches,
                    reports, storeErrors >>

SweepAt(s, pc) == sweep[s].pc = pc
SweepGoto(s, pc, n) == sweep' = [sweep EXCEPT ![s] = [pc |-> pc, lost |-> n]]
SweepFrame == UNCHANGED << jobVars, due, dispatch, reports >>

\* settleDueBatches, and acquireSettling's look at the map.
SweepDue(s) ==
    /\ SweepAt(s, "idle")
    /\ due
    /\ callback = "registered"
    /\ SweepGoto(s, "cas", 0)
    /\ SweepFrame
    /\ UNCHANGED << store, callback, settling, thens, catches, storeErrors >>

\* acquireSettling's compare-and-swap, outside the lock.
SweepCAS(s) ==
    /\ SweepAt(s, "cas")
    /\ settling' = TRUE
    /\ SweepGoto(s, IF settling THEN "idle" ELSE "count", 0)
    /\ SweepFrame
    /\ UNCHANGED << store, callback, thens, catches, storeErrors >>

\* loadAndFailLost: whoever is not accounted for is lost.
Lost == IF Settled THEN 0 ELSE Total - store.completed - store.failed

SweepCount(s) ==
    /\ SweepAt(s, "count")
    /\ \/ StoreOK /\ SweepGoto(s, IF Lost = 0 THEN "final" ELSE "lose", Lost)
       \/ StoreError /\ SweepGoto(s, "release", 0)
    /\ SweepFrame
    /\ UNCHANGED << store, callback, settling, thens, catches >>

SweepLose(s) ==
    /\ SweepAt(s, "lose")
    /\ \/ /\ StoreOK
          /\ store' = Failed(sweep[s].lost)
          /\ catches' = catches + sweep[s].lost
       \/ StoreError /\ UNCHANGED << store, catches >>
    /\ SweepGoto(s, "final", 0)
    /\ SweepFrame
    /\ UNCHANGED << callback, settling, thens >>

\* finalizeExpired
SweepFinal(s) ==
    /\ SweepAt(s, "final")
    /\ \/ /\ StoreOK
          /\ SweepGoto(s, IF Settled THEN "delete" ELSE "release", 0)
          /\ IF Settled /\ store.failed = 0 THEN CompleteOnce ELSE UNCHANGED thens
       \/ StoreError /\ SweepGoto(s, "release", 0) /\ UNCHANGED thens
    /\ SweepFrame
    /\ UNCHANGED << store, callback, settling, catches >>

SweepDelete(s) ==
    /\ SweepAt(s, "delete")
    /\ callback' = "removed"
    /\ SweepGoto(s, "release", 0)
    /\ SweepFrame
    /\ UNCHANGED << store, settling, thens, catches, storeErrors >>

\* Mutant of SweepRelease: the flag stays up.
SweepReleaseHeld(s) ==
    /\ SweepAt(s, "release")
    /\ SweepGoto(s, "idle", 0)
    /\ SweepFrame
    /\ UNCHANGED << store, callback, settling, thens, catches, storeErrors >>

SweepRelease(s) ==
    /\ SweepAt(s, "release")
    /\ settling' = FALSE
    /\ SweepGoto(s, "idle", 0)
    /\ SweepFrame
    /\ UNCHANGED << store, callback, thens, catches, storeErrors >>
-----------------------------------------------------------------------------
DispatchStep ==
    \/ Create \/ PushMember \/ CountUnsent \/ CatchUnsent
    \/ AllSent \/ SettleDispatch
Report(h) == ReportCount(h) \/ ReportFlag(h) \/ ReportGet(h) \/ ReportDrop(h)
SweepStep(s) ==
    \/ SweepCAS(s) \/ SweepCount(s) \/ SweepLose(s) \/ SweepFinal(s)
    \/ SweepDelete(s) \/ SweepRelease(s)
WorkerStep(h) == HandlerStep(h) /\ UNCHANGED batchVars

BatchNext ==
    \/ DispatchStep
    \/ \E h \in Handlers :
          \/ (Pop(h) \/ HandlerDies(h)) /\ UNCHANGED batchVars
          \/ WorkerStep(h)
          \/ Report(h)
    \/ \E c \in Copies : LapseJob(c) /\ UNCHANGED batchVars
    \/ DeadlinePasses
    \/ \E s \in Sweepers : SweepDue(s) \/ SweepStep(s)

BatchSpec == BatchInit /\ [][BatchNext]_allVars

\* Dispatch runs to its end; handlers of living workers return and report;
\* workers keep popping; the queue returns what nobody works on; the sweeper
\* ticks every second.
BatchFairness ==
    /\ WF_allVars(DispatchStep)
    /\ WF_allVars(DeadlinePasses)
    /\ \A h \in Handlers :
          /\ WF_allVars(Pop(h) /\ UNCHANGED batchVars)
          /\ WF_allVars(WorkerStep(h))
          /\ WF_allVars(Report(h))
    /\ \A c \in Copies : WF_allVars(LapseJob(c) /\ UNCHANGED batchVars)
    /\ \A s \in Sweepers : WF_allVars(SweepDue(s)) /\ WF_allVars(SweepStep(s))

BatchFairSpec == BatchSpec /\ BatchFairness
-----------------------------------------------------------------------------
(* Properties. *)

AllSucceeded == \A j \in Jobs : "success" \in finished[j]

\* Then tells the truth as long as no member was counted twice: every member
\* succeeded and, unless a store call failed, no Catch was or will be called,
\* although the last report, the sweeper and a late failure race for the
\* entry.
ThenIsTrue ==
    (thens = 1 /\ \A j \in Jobs : reports[j] <= 1) =>
        /\ AllSucceeded
        /\ storeErrors = 0 => catches = 0

\* Every registered batch is settled in the end and its entry leaves the
\* process's map, whichever workers died and whichever store calls failed.
BatchResolved == (callback = "registered") ~> (callback = "removed")

\* Every job that was pushed ends, with a success or as a dead letter.
JobEnds == \A j \in Jobs : (j \in Pushed) ~> (finished[j] # {})

=============================================================================
