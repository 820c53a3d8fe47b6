-------------------------------- MODULE Saga --------------------------------
(***************************************************************************)
(* The saga engine of adapters/workflow/db: RunSaga and RecoverStuckSagas   *)
(* over one run, that is one row of workflow_saga_runs and its rows of      *)
(* workflow_saga_compensations.  An engine is one call of either operation, *)
(* in any replica; it works synchronously, one statement at a time, and can *)
(* die after every one.  What a step does outside the database is an        *)
(* effect: a successful Execute adds one, a successful Compensate takes one *)
(* back, a failed call has none.                                            *)
(*                                                                          *)
(* The lease is a flag: the clock only decides when locked_until is far     *)
(* enough in the past for RecoverStuckSagas.                                *)
(***************************************************************************)
EXTENDS Integers, Sequences

CONSTANTS
    Engines,       \* calls of RunSaga and RecoverStuckSagas
    N,             \* number of steps of the definition
    Pivots,        \* indexes of the steps with Pivot = true
    Compensable,   \* indexes of the steps with a Compensate function
    Overlap,       \* may a call start while another one works on the run?
    MaxCrashes,    \* engines that die
    MaxDBErrors,   \* statements that fail
    MaxStepErrors, \* Execute and Compensate calls that fail for good
    NoRun          \* no row

Steps == 0 .. N - 1

ASSUME SagaConstants ==
    /\ N \in Nat
    /\ Pivots \subseteq Steps
    /\ Compensable \subseteq Steps
    /\ Overlap \in BOOLEAN
    /\ MaxCrashes \in Nat
    /\ MaxDBErrors \in Nat
    /\ MaxStepErrors \in Nat

VARIABLES
    saga,          \* the row of workflow_saga_runs, or NoRun
    compRow,       \* the rows of workflow_saga_compensations, by step
    engine,        \* per engine: program counter and locals
    executed,      \* history: effects of Execute, by step
    undone,        \* history: effects of Compensate, by step
    persisted,     \* history: steps whose progress was written
    sagaFaults     \* history: [crashes, db, step]

sagaVars == << saga, compRow, engine, executed, undone, persisted, sagaFaults >>
-----------------------------------------------------------------------------
Terminal == {"completed", "failed", "compensation_failed"}
Status == {"running", "compensating"} \union Terminal

\* results holds, for each entry of the state document, the step it came from.
SagaRow ==
    [status : Status, current : 0 .. N, results : Seq(Steps), leased : BOOLEAN]

ASSUME NoRunIsNone == NoRun \notin SagaRow

EnginePC ==
    {"idle", "insert", "execute", "load", "write", "rollback",
     "compLoad", "compDone", "undo", "record", "finish"}

\* step is the loop variable of whatever loop the engine is in, results and
\* done what it read, ok the outcome of the compensation it ran last, status
\* and current what it is about to write.
Engine ==
    [pc : EnginePC, step : -1 .. N, rolling : BOOLEAN, results : Seq(Steps),
     from : -1 .. N - 1, done : SUBSET Steps, ok : BOOLEAN, compFailed : BOOLEAN,
     status : Status, current : 0 .. N]

IdleEngine ==
    [pc |-> "idle", step |-> 0, rolling |-> FALSE, results |-> << >>,
     from |-> -1, done |-> {}, ok |-> FALSE, compFailed |-> FALSE,
     status |-> "running", current |-> 0]

SagaTypeOK ==
    /\ saga \in SagaRow \union {NoRun}
    /\ compRow \in [Steps -> {"none", "ok", "failed"}]
    /\ engine \in [Engines -> Engine]
    /\ executed \in [Steps -> Nat]
    /\ undone \in [Steps -> Nat]
    /\ persisted \subseteq Steps
    /\ sagaFaults \in [crashes : Nat, db : Nat, step : Nat]

SagaInit ==
    /\ saga = NoRun
    /\ compRow = [s \in Steps |-> "none"]
    /\ engine = [e \in Engines |-> IdleEngine]
    /\ executed = [s \in Steps |-> 0]
    /\ undone = [s \in Steps |-> 0]
    /\ persisted = {}
    /\ sagaFaults = [crashes |-> 0, db |-> 0, step |-> 0]
-----------------------------------------------------------------------------
At(e, pc) == engine[e].pc = pc
Goto(e, next) == engine' = [engine EXCEPT ![e] = next]
Row(status, current) == [saga EXCEPT !.status = status, !.current = current]

DBError ==
    /\ sagaFaults.db < MaxDBErrors
    /\ sagaFaults' = [sagaFaults EXCEPT !.db = @ + 1]
StepError ==
    /\ sagaFaults.step < MaxStepErrors
    /\ sagaFaults' = [sagaFaults EXCEPT !.step = @ + 1]
NoFault == UNCHANGED sagaFaults
History == << executed, undone, persisted >>

\* Somebody else may be at work only where the deployment lets calls overlap.
MayStart(e) ==
    /\ At(e, "idle")
    /\ Overlap \/ \A o \in Engines : At(o, "idle")

\* Mutant of Resumed: a rollback is resumed one step too low.
ResumedBelow(row) ==
    IF row.status = "compensating"
    THEN [IdleEngine EXCEPT !.pc = "compLoad", !.from = IF row.current < 2 THEN -1 ELSE row.current - 2]
    ELSE [IdleEngine EXCEPT !.pc = "execute", !.step = row.current]

\* runSaga's dispatch on the status it was given.
Resumed(row) ==
    IF row.status = "compensating"
    THEN [IdleEngine EXCEPT !.pc = "compLoad", !.from = row.current - 1]
    ELSE [IdleEngine EXCEPT !.pc = "execute", !.step = row.current]

\* RunSaga with a workflow ID that has a row: a terminal run is left alone.
RunExisting(e) ==
    /\ MayStart(e)
    /\ saga # NoRun
    /\ saga.status \notin Terminal
    /\ Goto(e, Resumed(saga))
    /\ NoFault
    /\ UNCHANGED << saga, compRow, History >>

\* RunSaga with a new workflow ID: the lookup found nothing.
RunNew(e) ==
    /\ MayStart(e)
    /\ saga = NoRun
    /\ Goto(e, [IdleEngine EXCEPT !.pc = "insert"])
    /\ NoFault
    /\ UNCHANGED << saga, compRow, History >>

\* The primary key lets one of two inserts through; the other call fails.
Insert(e) ==
    /\ At(e, "insert")
    /\ \/ /\ saga = NoRun
          /\ saga' = [status |-> "running", current |-> 0, results |-> << >>, leased |-> TRUE]
          /\ Goto(e, [IdleEngine EXCEPT !.pc = "execute"])
          /\ NoFault
       \/ /\ saga # NoRun
          /\ Goto(e, IdleEngine)
          /\ NoFault
          /\ UNCHANGED saga
       \/ /\ DBError
          /\ Goto(e, IdleEngine)
          /\ UNCHANGED saga
    /\ UNCHANGED << compRow, History >>

\* Mutant of Recover: a rollback that was interrupted is not looked for.
RecoverRunning(e) ==
    /\ MayStart(e)
    /\ saga # NoRun
    /\ saga.status = "running"
    /\ ~saga.leased
    /\ Goto(e, Resumed(saga))
    /\ NoFault
    /\ UNCHANGED << saga, compRow, History >>

\* RecoverStuckSagas: the query's conditions; nothing is claimed.
Recover(e) ==
    /\ MayStart(e)
    /\ saga # NoRun
    /\ saga.status \in {"running", "compensating"}
    /\ ~saga.leased
    /\ Goto(e, Resumed(saga))
    /\ NoFault
    /\ UNCHANGED << saga, compRow, History >>

\* Mutant of HasPivot: the step just before the failed one is missed.
HasPivotEarlier(failed) == \E j \in Pivots : j + 1 < failed

\* Some executed step before failed is a pivot.
HasPivot(failed) == \E j \in Pivots : j < failed

ExecuteOK(e) ==
    LET i == engine[e].step IN
    /\ At(e, "execute")
    /\ i < N
    /\ executed' = [executed EXCEPT ![i] = @ + 1]
    /\ Goto(e, [engine[e] EXCEPT !.pc = "load"])
    /\ NoFault
    /\ UNCHANGED << saga, compRow, undone, persisted >>

\* What a failed step leads to: after a pivot the remaining steps are retried
\* forward, and a step that fails there too ends the run.
AfterFailure(eng) ==
    CASE eng.rolling ->
            [eng EXCEPT !.pc = "finish", !.status = "failed", !.current = eng.step]
      [] ~eng.rolling /\ HasPivot(eng.step) ->
            [eng EXCEPT !.rolling = TRUE]
      [] OTHER ->
            [eng EXCEPT !.pc = "rollback", !.from = eng.step - 1]

ExecuteFails(e) ==
    /\ At(e, "execute")
    /\ engine[e].step < N
    /\ StepError
    /\ Goto(e, AfterFailure(engine[e]))
    /\ UNCHANGED << saga, compRow, History >>

\* The loop is over: every step has been executed.
AllExecuted(e) ==
    /\ At(e, "execute")
    /\ engine[e].step = N
    /\ Goto(e, [engine[e] EXCEPT !.pc = "finish", !.status = "completed", !.current = N])
    /\ NoFault
    /\ UNCHANGED << saga, compRow, History >>

\* persistSagaProgress failed: the run is marked failed at this step.
NotPersisted(eng) ==
    [eng EXCEPT !.pc = "finish", !.status = "failed", !.current = eng.step]

PersistLoad(e) ==
    /\ At(e, "load")
    /\ \/ /\ Goto(e, [engine[e] EXCEPT !.pc = "write", !.results = saga.results])
          /\ NoFault
       \/ /\ DBError
          /\ Goto(e, NotPersisted(engine[e]))
    /\ UNCHANGED << saga, compRow, History >>

\* Mutants of Progress: the position is not advanced; the result is dropped;
\* the position is advanced twice.
ProgressStays(eng) ==
    [saga EXCEPT !.current = eng.step, !.results = Append(eng.results, eng.step),
                 !.leased = TRUE]

ProgressForgets(eng) ==
    [saga EXCEPT !.current = eng.step + 1, !.results = eng.results, !.leased = TRUE]

ProgressTwice(eng) ==
    [saga EXCEPT !.current = eng.step + 2, !.results = Append(eng.results, eng.step),
                 !.leased = TRUE]

Progress(eng) ==
    [saga EXCEPT !.current = eng.step + 1, !.results = Append(eng.results, eng.step),
                 !.leased = TRUE]

PersistWrite(e) ==
    /\ At(e, "write")
    /\ \/ /\ saga' = Progress(engine[e])
          /\ persisted' = persisted \union {engine[e].step}
          /\ Goto(e, [engine[e] EXCEPT !.pc = "execute", !.step = @ + 1])
          /\ NoFault
       \/ /\ DBError
          /\ Goto(e, NotPersisted(engine[e]))
          /\ UNCHANGED << saga, persisted >>
    /\ UNCHANGED << compRow, executed, undone >>

\* The update to compensating: its error is dropped, the rollback goes on.
Rollback(e) ==
    /\ At(e, "rollback")
    /\ \/ saga' = Row("compensating", engine[e].step) /\ NoFault
       \/ DBError /\ UNCHANGED saga
    /\ Goto(e, [engine[e] EXCEPT !.pc = "compLoad"])
    /\ UNCHANGED << compRow, History >>

\* compensateSaga reads the results, then the compensations recorded as done.
CompLoad(e) ==
    /\ At(e, "compLoad")
    /\ \/ /\ Goto(e, [engine[e] EXCEPT !.pc = "compDone", !.results = saga.results])
          /\ NoFault
       \/ /\ DBError
          /\ Goto(e, [engine[e] EXCEPT !.pc = "finish", !.status = "compensation_failed",
                                       !.current = engine[e].from + 1])
    /\ UNCHANGED << saga, compRow, History >>

Successful == {s \in Steps : compRow[s] = "ok"}

CompDone(e) ==
    LET undoing(done) ==
            [engine[e] EXCEPT !.pc = "undo", !.step = engine[e].from, !.done = done]
    IN
    /\ At(e, "compDone")
    /\ \/ Goto(e, undoing(Successful)) /\ NoFault
       \/ DBError /\ Goto(e, undoing({}))
    /\ UNCHANGED << saga, compRow, History >>

Skipped(eng, j) == j \notin Compensable \/ j \in eng.done

Skip(e) ==
    /\ At(e, "undo")
    /\ engine[e].step >= 0
    /\ Skipped(engine[e], engine[e].step)
    /\ Goto(e, [engine[e] EXCEPT !.step = @ - 1])
    /\ NoFault
    /\ UNCHANGED << saga, compRow, History >>

\* runCompensation: the retries are over, with or without success.
UndoOK(e) ==
    LET j == engine[e].step IN
    /\ At(e, "undo")
    /\ j >= 0
    /\ ~Skipped(engine[e], j)
    /\ undone' = [undone EXCEPT ![j] = @ + 1]
    /\ Goto(e, [engine[e] EXCEPT !.pc = "record", !.ok = TRUE])
    /\ NoFault
    /\ UNCHANGED << saga, compRow, executed, persisted >>

UndoFails(e) ==
    /\ At(e, "undo")
    /\ engine[e].step >= 0
    /\ ~Skipped(engine[e], engine[e].step)
    /\ StepError
    /\ Goto(e, [engine[e] EXCEPT !.pc = "record", !.ok = FALSE, !.compFailed = TRUE])
    /\ UNCHANGED << saga, compRow, History >>

\* recordCompensation is an INSERT: the first row of a step stays.
Recorded(j, outcome) ==
    IF compRow[j] = "none" THEN [compRow EXCEPT ![j] = outcome] ELSE compRow

Record(e) ==
    LET j == engine[e].step
        ok == engine[e].ok
    IN
    /\ At(e, "record")
    /\ \/ /\ compRow' = Recorded(j, IF ok THEN "ok" ELSE "failed")
          /\ NoFault
       \/ DBError /\ UNCHANGED compRow
    /\ Goto(e, [engine[e] EXCEPT !.pc = "undo", !.step = @ - 1])
    /\ UNCHANGED << saga, executed, undone, persisted >>

AllUndone(e) ==
    /\ At(e, "undo")
    /\ engine[e].step < 0
    /\ Goto(e, [engine[e] EXCEPT !.pc = "finish", !.current = engine[e].from + 1,
                   !.status = IF engine[e].compFailed THEN "compensation_failed" ELSE "failed"])
    /\ NoFault
    /\ UNCHANGED << saga, compRow, History >>

\* The last updateSagaStatus of a call; its error is dropped.
Finish(e) ==
    /\ At(e, "finish")
    /\ \/ saga' = Row(engine[e].status, engine[e].current) /\ NoFault
       \/ DBError /\ UNCHANGED saga
    /\ Goto(e, IdleEngine)
    /\ UNCHANGED << compRow, History >>

\* The process dies, or a step panics: the call is gone.
EngineDies(e) ==
    /\ ~At(e, "idle")
    /\ sagaFaults.crashes < MaxCrashes
    /\ sagaFaults' = [sagaFaults EXCEPT !.crashes = @ + 1]
    /\ Goto(e, IdleEngine)
    /\ UNCHANGED << saga, compRow, History >>

\* locked_until passes.
LeaseRunsOut ==
    /\ saga # NoRun
    /\ saga.leased
    /\ saga' = [saga EXCEPT !.leased = FALSE]
    /\ UNCHANGED << compRow, engine, History, sagaFaults >>

SagaWork(e) ==
    \/ Insert(e) \/ ExecuteOK(e) \/ ExecuteFails(e) \/ AllExecuted(e)
    \/ PersistLoad(e) \/ PersistWrite(e)
    \/ Rollback(e) \/ CompLoad(e) \/ CompDone(e)
    \/ Skip(e) \/ UndoOK(e) \/ UndoFails(e) \/ Record(e) \/ AllUndone(e)
    \/ Finish(e)

SagaNext ==
    \/ \E e \in Engines : RunNew(e) \/ RunExisting(e) \/ Recover(e) \/ SagaWork(e) \/ EngineDies(e)
    \/ LeaseRunsOut

SagaSpec == SagaInit /\ [][SagaNext]_sagaVars

\* A call that started goes on as long as its process lives; somebody calls
\* RecoverStuckSagas again and again (it is "caller-driven"); leases run out.
SagaFairness ==
    /\ \A e \in Engines : WF_sagaVars(SagaWork(e)) /\ WF_sagaVars(Recover(e))
    /\ WF_sagaVars(LeaseRunsOut)

SagaFairSpec == SagaSpec /\ SagaFairness
-----------------------------------------------------------------------------
(* Properties.  The first ones are what the engine achieves for a run that  *)
(* one call at a time works on, with crashes between any two statements.    *)

\* What a terminal status says is true of the outside world, as long as no
\* statement failed: completed means that every step took effect and nothing
\* was taken back, failed means that every step that was persisted and can
\* be compensated was, unless a pivot had committed the run.  Crashes and
\* recoveries in between may not turn one into the other (runSaga,
\* compensateSaga and the terminal updateSagaStatus calls).
SagaOutcome ==
    (saga # NoRun /\ sagaFaults.db = 0) =>
        /\ saga.status = "completed" =>
               \A s \in Steps : executed[s] >= 1 /\ undone[s] = 0
        /\ (saga.status = "failed" /\ persisted \intersect Pivots = {}) =>
               \A s \in persisted \intersect Compensable : undone[s] >= 1

\* A step is never executed again once its progress was persisted: a resumed
\* run starts at current_step, whatever statement failed and whoever died.
NeverReexecuted ==
    [][\A s \in persisted : executed'[s] = executed[s]]_sagaVars

\* A compensation is called with the result of its own step, also when the
\* results were written by several calls: entry j of the state document
\* comes from step j (persistSagaProgress appends, compensateSaga indexes).
OwnResult ==
    \A e \in Engines :
        LET eng == engine[e] IN
        (At(e, "undo") /\ eng.step >= 0 /\ ~Skipped(eng, eng.step)) =>
            /\ eng.step < Len(eng.results)
            /\ eng.results[eng.step + 1] = eng.step

\* Rollback runs backwards through the persisted steps and never past a
\* pivot: a step is compensated only when each later persisted step was
\* compensated or its compensation has failed for good, and no persisted
\* step is a pivot.  (A statement that fails may lose the record of either.)
ReverseOrder ==
    [][\A s \in Steps : undone'[s] # undone[s] =>
          /\ persisted \intersect Pivots = {}
          /\ sagaFaults.db = 0 =>
                \A k \in persisted \intersect Compensable :
                    k > s => undone[k] >= 1 \/ compRow[k] = "failed"]_sagaVars

\* A saga that was started reaches a terminal status and stays in it, when
\* somebody keeps calling RecoverStuckSagas.
SagaEnds ==
    (saga # NoRun) ~> [](saga # NoRun /\ saga.status \in Terminal)
=============================================================================
