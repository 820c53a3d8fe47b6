------------------------ MODULE BackgroundProofs -------------------------
(***************************************************************************)
(* The saga engine and the leased scheduler, for any number of calls,      *)
(* replicas, steps, slots and faults; and what the run of MCBackground     *)
(* explores: its behaviours are behaviours of the four components, so the  *)
(* theorems about each of them hold there too.                             *)
(***************************************************************************)
EXTENDS MCBackground, DbQueueProofs, JobBatchProofs

-----------------------------------------------------------------------------
(* Sagas.  With one call at a time on a run, its row is the record of the  *)
(* steps below current_step, and the call at work knows it: what it        *)
(* executes is the first step not on record, what it compensates are steps *)
(* that are, from the last one down.  Calls come and go between any two    *)
(* statements, so all of it is stated of the row and of the call at work.  *)

(* A call's record, field by field.                                        *)
Fields(F, pc, step, rolling, results, from, done, ok, compFailed, status, current) ==
    /\ F \in Engine
    /\ F.pc = pc /\ F.step = step /\ F.rolling = rolling /\ F.results = results
    /\ F.from = from /\ F.done = done /\ F.ok = ok /\ F.compFailed = compFailed
    /\ F.status = status /\ F.current = current

(* The types of the fields of a call.                                      *)
LEMMA EngineFields ==
    ASSUME NEW E \in Engine
    PROVE  /\ E.pc \in EnginePC /\ E.step \in -1 .. N /\ E.rolling \in BOOLEAN
           /\ E.results \in Seq(Steps) /\ E.from \in -1 .. N - 1 /\ E.done \in SUBSET Steps
           /\ E.ok \in BOOLEAN /\ E.compFailed \in BOOLEAN /\ E.status \in Status
           /\ E.current \in 0 .. N
BY Zenon DEF Engine

(* A call that is not there.                                               *)
LEMMA IdleFields ==
    Fields(IdleEngine, "idle", 0, FALSE, << >>, -1, {}, FALSE, FALSE, "running", 0)
<1>1. 0 \in -1 .. N /\ -1 \in -1 .. N - 1 /\ 0 \in 0 .. N /\ {} \in SUBSET Steps
  BY SagaConstants
<1>2. << >> \in Seq(Steps)
  OBVIOUS
<1> HIDE DEF Steps
<1> QED BY <1>1, <1>2, Zenon DEF IdleEngine, Engine, EnginePC, Status, Fields

(* A call that starts.                                                     *)
LEMMA StartFields ==
    ASSUME NEW n \in 0 .. N, NEW m \in -1 .. N - 1
    PROVE  /\ Fields([IdleEngine EXCEPT !.pc = "insert"],
                     "insert", 0, FALSE, << >>, -1, {}, FALSE, FALSE, "running", 0)
           /\ Fields([IdleEngine EXCEPT !.pc = "execute"],
                     "execute", 0, FALSE, << >>, -1, {}, FALSE, FALSE, "running", 0)
           /\ Fields([IdleEngine EXCEPT !.pc = "execute", !.step = n],
                     "execute", n, FALSE, << >>, -1, {}, FALSE, FALSE, "running", 0)
           /\ Fields([IdleEngine EXCEPT !.pc = "compLoad", !.from = m],
                     "compLoad", 0, FALSE, << >>, m, {}, FALSE, FALSE, "running", 0)
<1>1. 0 \in -1 .. N /\ -1 \in -1 .. N - 1 /\ 0 \in 0 .. N /\ {} \in SUBSET Steps /\ n \in -1 .. N
  BY SagaConstants
<1>2. << >> \in Seq(Steps)
  OBVIOUS
<1> HIDE DEF Steps
<1> QED BY <1>1, <1>2, Zenon DEF IdleEngine, Engine, EnginePC, Status, Fields

(* The row, field by field.                                                *)
LEMMA RowTypes ==
    ASSUME NEW was \in SagaRow
    PROVE  /\ was.status \in Status /\ was.current \in 0 .. N /\ was.results \in Seq(Steps)
           /\ was.leased \in BOOLEAN
BY Zenon DEF SagaRow

(* The row when its lease runs out.                                        *)
LEMMA LeaseFields ==
    ASSUME NEW was \in SagaRow, NEW next, next = [was EXCEPT !.leased = FALSE]
    PROVE  /\ next \in SagaRow
           /\ next.status = was.status /\ next.current = was.current
           /\ next.results = was.results
BY Zenon DEF SagaRow

(* The row RunSaga inserts.                                                *)
LEMMA NewRow ==
    [status |-> "running", current |-> 0, results |-> << >>, leased |-> TRUE] \in SagaRow
<1>1. 0 \in 0 .. N /\ << >> \in Seq(Steps) /\ "running" \in Status
  BY SagaConstants DEF Status
<1> HIDE DEF Steps
<1> QED BY <1>1, Zenon DEF SagaRow

(* Where the loop variable points, however calls overlap.                  *)
StepInRange(e) ==
    /\ engine[e].pc \notin {"idle", "insert"} => saga # NoRun
    /\ engine[e].pc \in {"execute", "rollback"} => engine[e].step \in 0 .. N
    /\ engine[e].pc \in {"load", "write", "record"} => engine[e].step \in Steps
    /\ engine[e].pc = "undo" => engine[e].step \in -1 .. N - 1

SagaTypes == SagaTypeOK /\ \A e \in Engines : StepInRange(e)

-----------------------------------------------------------------------------
(* One call at a time.  The row is then the record of the steps below its  *)
(* position, and the call at work knows it.                                *)
Solo == \A e, f \in Engines : engine[e].pc # "idle" /\ engine[f].pc # "idle" => e = f

RowIsRecord ==
    /\ saga = NoRun => persisted = {}
    /\ saga # NoRun =>
          /\ persisted = 0 .. saga.current - 1
          /\ Len(saga.results) = saga.current
          /\ \A j \in 1 .. saga.current : saga.results[j] = j - 1
    /\ \A s \in persisted : executed[s] >= 1

Undoing == {"compLoad", "compDone", "undo", "record"}

EngineKnows(e) ==
    /\ engine[e].pc = "insert" => saga = NoRun
    /\ engine[e].pc \notin {"idle", "insert"} => saga # NoRun /\ saga.status \notin Terminal
    /\ engine[e].pc \in {"execute", "load", "write", "rollback"} =>
          saga.status = "running" /\ engine[e].step = saga.current
    /\ engine[e].pc \in {"load", "write"} => executed[engine[e].step] >= 1
    /\ engine[e].pc = "write" => engine[e].results = saga.results
    /\ engine[e].pc = "rollback" => engine[e].from = saga.current - 1
    /\ engine[e].pc \in Undoing => engine[e].from = saga.current - 1
    /\ engine[e].pc \in {"undo", "record"} => engine[e].step <= engine[e].from
    /\ engine[e].pc \in {"compDone", "undo", "record"} => engine[e].results = saga.results
    /\ engine[e].pc = "finish" => engine[e].current = saga.current /\ engine[e].status \in Terminal
    /\ engine[e].pc = "finish" /\ engine[e].status = "completed" =>
          saga.status = "running" /\ saga.current = N

(* No rollback once a pivot is committed.                                  *)
Committed == \E p \in Pivots : p \in persisted
RowUncommitted == saga # NoRun /\ saga.status = "compensating" => ~Committed
EngineUncommitted(e) ==
    /\ engine[e].pc \in Undoing \union {"rollback"} => ~Committed
    /\ engine[e].pc \in {"execute", "load", "write"} /\ engine[e].rolling = TRUE => Committed

(* What is recorded as compensated was.                                    *)
RecordedUndone == \A s \in Steps : compRow[s] = "ok" => undone[s] >= 1
EngineUndone(e) ==
    /\ engine[e].pc = "record" /\ engine[e].ok = TRUE => undone[engine[e].step] >= 1
    /\ engine[e].pc \in {"undo", "record"} => \A s \in engine[e].done : undone[s] >= 1

(* As long as no statement failed, compensations come in order, after the  *)
(* row says compensating, and the verdict is right.                        *)
NothingUndone == \A s \in Steps : undone[s] = 0
AllCompensated == \A s \in persisted : s \in Compensable => undone[s] >= 1
RowClean ==
    sagaFaults.db = 0 /\ (saga = NoRun \/ saga.status \in {"running", "completed"}) =>
        NothingUndone
UndoneAbove(n, compFailed) ==
    \A k \in persisted : k \in Compensable /\ k > n =>
        /\ undone[k] >= 1 \/ compRow[k] = "failed"
        /\ undone[k] >= 1 \/ compFailed = TRUE
EngineClean(e) ==
    sagaFaults.db = 0 =>
        /\ engine[e].pc \in Undoing => saga.status = "compensating"
        /\ engine[e].pc \in {"undo", "record"} =>
              UndoneAbove(engine[e].step, engine[e].compFailed)
        /\ engine[e].pc = "record" => engine[e].ok = TRUE \/ engine[e].compFailed = TRUE
        /\ engine[e].pc = "finish" /\ engine[e].status = "failed" => Committed \/ AllCompensated

RowOK == RowIsRecord /\ RowUncommitted /\ RecordedUndone /\ RowClean /\ SagaOutcome
EngineOK(e) == EngineKnows(e) /\ EngineUncommitted(e) /\ EngineUndone(e) /\ EngineClean(e)

SagaInv == SagaTypes /\ Solo /\ RowOK /\ \A e \in Engines : EngineOK(e)

(* The initial state.                                                      *)
LEMMA SagaInvInit == SagaInit => SagaInv
<1> SUFFICES ASSUME SagaInit PROVE SagaInv
  OBVIOUS
<1>1. IdleEngine \in Engine /\ \A e \in Engines : engine[e].pc = "idle"
  BY IdleFields DEF SagaInit, Fields
<1>2. SagaTypes
  BY <1>1 DEF SagaInit, SagaTypes, SagaTypeOK, StepInRange
<1>3. Solo /\ \A e \in Engines : EngineOK(e)
  BY <1>1 DEF Solo, EngineOK, EngineKnows, EngineUncommitted, EngineUndone, EngineClean, Undoing
<1>4. RowOK
  BY DEF SagaInit, RowOK, RowIsRecord, RowUncommitted, RecordedUndone, RowClean, NothingUndone,
         SagaOutcome
<1> QED BY <1>2, <1>3, <1>4 DEF SagaInv

(* What one step leaves to be shown.                                       *)
LEMMA TypesBy ==
    ASSUME SagaTypes, NEW e \in Engines, NEW F \in Engine, engine' = [engine EXCEPT ![e] = F],
           saga' \in SagaRow \union {NoRun}, saga # NoRun => saga' # NoRun,
           compRow' \in [Steps -> {"none", "ok", "failed"}],
           executed' \in [Steps -> Nat], undone' \in [Steps -> Nat], persisted' \subseteq Steps,
           sagaFaults' \in [crashes : Nat, db : Nat, step : Nat],
           StepInRange(e)'
    PROVE  SagaTypes' /\ engine'[e] = F /\ \A f \in Engines : f # e => engine'[f] = engine[f]
<1>1. /\ engine'[e] = F /\ \A f \in Engines : f # e => engine'[f] = engine[f]
      /\ engine' \in [Engines -> Engine]
  BY DEF SagaTypes, SagaTypeOK
<1>2. SagaTypeOK'
  BY <1>1 DEF SagaTypeOK
<1>3. ASSUME NEW f \in Engines, f # e PROVE StepInRange(f)'
  BY <1>1, <1>3 DEF SagaTypes, StepInRange
<1> QED BY <1>1, <1>2, <1>3 DEF SagaTypes

(* What one step leaves to be shown of the invariant.                      *)
LEMMA InvBy ==
    ASSUME SagaInv, SagaTypes', NEW e \in Engines, Solo,
           \A f \in Engines : f # e => engine[f].pc = "idle" /\ engine'[f] = engine[f],
           RowOK', EngineOK(e)'
    PROVE  SagaInv'
<1>1. Solo'
  BY DEF Solo
<1>2. ASSUME NEW f \in Engines, f # e PROVE EngineOK(f)'
  <2>1. engine'[f].pc = "idle"
    BY <1>2
  <2> QED BY <2>1 DEF EngineOK, EngineKnows, EngineUncommitted, EngineUndone, EngineClean, Undoing
<1> QED BY <1>1, <1>2 DEF SagaInv

(* The call alone at work.                                                 *)
LEMMA AloneAtWork ==
    ASSUME Solo, NEW e \in Engines, engine[e].pc # "idle" \/ (~Overlap /\ MayStart(e))
    PROVE  \A f \in Engines : f # e => engine[f].pc = "idle"
BY DEF Solo, MayStart, At

(* A step that changes the call only.                                      *)
LEMMA RowStays ==
    ASSUME RowOK, UNCHANGED << saga, compRow, executed, undone, persisted >>,
           sagaFaults'.db = 0 => sagaFaults.db = 0
    PROVE  RowOK'
BY DEF RowOK, RowIsRecord, RowUncommitted, Committed, RecordedUndone, RowClean, NothingUndone,
       SagaOutcome

(* Faults are counted.                                                     *)
LEMMA FaultTypes ==
    ASSUME SagaTypeOK
    PROVE  /\ NoFault => /\ sagaFaults' \in [crashes : Nat, db : Nat, step : Nat]
                         /\ sagaFaults'.db = 0 => sagaFaults.db = 0
           /\ DBError => /\ sagaFaults' \in [crashes : Nat, db : Nat, step : Nat]
                         /\ sagaFaults'.db # 0
           /\ StepError => /\ sagaFaults' \in [crashes : Nat, db : Nat, step : Nat]
                           /\ sagaFaults'.db = 0 => sagaFaults.db = 0
           /\ sagaFaults' = [sagaFaults EXCEPT !.crashes = @ + 1] =>
                           /\ sagaFaults' \in [crashes : Nat, db : Nat, step : Nat]
                           /\ sagaFaults'.db = 0 => sagaFaults.db = 0
<1>1. sagaFaults \in [crashes : Nat, db : Nat, step : Nat]
  BY DEF SagaTypeOK
<1> QED BY <1>1 DEF NoFault, DBError, StepError

(* A step of a call that changes neither the row nor the effects.          *)
LEMMA QuietBy ==
    ASSUME SagaTypes, NEW e \in Engines, NEW F \in Engine, engine' = [engine EXCEPT ![e] = F],
           UNCHANGED << saga, compRow, executed, undone, persisted >>,
           sagaFaults' \in [crashes : Nat, db : Nat, step : Nat],
           sagaFaults'.db = 0 => sagaFaults.db = 0,
           StepInRange(e)',
           engine[e].pc # "idle" \/ MayStart(e),
           SagaInv => EngineOK(e)'
    PROVE  SagaTypes' /\ (SagaInv /\ ~Overlap => SagaInv')
<1>1. SagaTypes' /\ \A f \in Engines : f # e => engine'[f] = engine[f]
  <2>1. /\ saga' \in SagaRow \union {NoRun} /\ (saga # NoRun => saga' # NoRun)
        /\ compRow' \in [Steps -> {"none", "ok", "failed"}]
        /\ executed' \in [Steps -> Nat] /\ undone' \in [Steps -> Nat] /\ persisted' \subseteq Steps
    BY DEF SagaTypes, SagaTypeOK
  <2> QED BY <2>1, TypesBy
<1>2. ASSUME SagaInv, ~Overlap PROVE SagaInv'
  <2>1. Solo /\ RowOK
    BY <1>2 DEF SagaInv
  <2>2. RowOK'
    BY <2>1, RowStays
  <2>3. \A f \in Engines : f # e => engine[f].pc = "idle"
    BY <1>2, <2>1, AloneAtWork
  <2> QED BY <1>1, <1>2, <2>1, <2>2, <2>3, InvBy
<1> QED BY <1>1, <1>2

(* A call is gone.                                                         *)
LEMMA IdleBy ==
    ASSUME SagaTypes, NEW e \in Engines, Goto(e, IdleEngine), engine[e].pc # "idle",
           UNCHANGED << saga, compRow, executed, undone, persisted >>,
           sagaFaults' \in [crashes : Nat, db : Nat, step : Nat],
           sagaFaults'.db = 0 => sagaFaults.db = 0
    PROVE  SagaTypes' /\ (SagaInv /\ ~Overlap => SagaInv')
<1>1. IdleEngine \in Engine /\ engine'[e].pc = "idle" /\ engine' = [engine EXCEPT ![e] = IdleEngine]
  BY IdleFields DEF Goto, SagaTypes, SagaTypeOK, Fields
<1>2. StepInRange(e)' /\ EngineOK(e)'
  BY <1>1 DEF StepInRange, EngineOK, EngineKnows, EngineUncommitted, EngineUndone, EngineClean,
              Undoing
<1> QED BY <1>1, <1>2, QuietBy

(* The process dies.                                                       *)
LEMMA DieStep ==
    ASSUME SagaTypes, NEW e \in Engines, EngineDies(e)
    PROVE  SagaTypes' /\ (SagaInv /\ ~Overlap => SagaInv')
<1>1. /\ sagaFaults' \in [crashes : Nat, db : Nat, step : Nat]
      /\ sagaFaults'.db = 0 => sagaFaults.db = 0
  BY FaultTypes DEF EngineDies, SagaTypes
<1> QED BY <1>1, IdleBy DEF EngineDies, At, History

(* RunSaga and RecoverStuckSagas begin: the call knows the row it was given. *)
LEMMA StartStep ==
    ASSUME SagaTypes, NEW e \in Engines, RunNew(e) \/ RunExisting(e) \/ Recover(e)
    PROVE  SagaTypes' /\ (SagaInv /\ ~Overlap => SagaInv')
<1>0. /\ engine \in [Engines -> Engine] /\ SagaTypeOK
  BY DEF SagaTypes, SagaTypeOK
<1>1. /\ MayStart(e) /\ NoFault /\ UNCHANGED << saga, compRow, executed, undone, persisted >>
  BY DEF RunNew, RunExisting, Recover, History
<1>2. /\ sagaFaults' \in [crashes : Nat, db : Nat, step : Nat]
      /\ sagaFaults'.db = 0 => sagaFaults.db = 0
  BY <1>0, <1>1, FaultTypes
<1>3. CASE RunNew(e)
  <2>1. PICK F : F = [IdleEngine EXCEPT !.pc = "insert"]
    OBVIOUS
  <2>2. F \in Engine /\ F.pc = "insert" /\ engine' = [engine EXCEPT ![e] = F] /\ engine'[e] = F
    <3>1. 0 \in 0 .. N /\ -1 \in -1 .. N - 1
      BY SagaConstants
    <3> QED BY <1>0, <1>3, <2>1, <3>1, StartFields DEF Fields, RunNew, Goto
  <2>3. StepInRange(e)' /\ EngineOK(e)'
    BY <1>1, <1>3, <2>2 DEF RunNew, StepInRange, EngineOK, EngineKnows, EngineUncommitted, EngineUndone,
                            EngineClean, Undoing
  <2> QED BY <1>1, <1>2, <2>2, <2>3, QuietBy
<1>4. CASE RunExisting(e) \/ Recover(e)
  <2>0. /\ saga # NoRun /\ saga \in SagaRow /\ engine' = [engine EXCEPT ![e] = Resumed(saga)]
        /\ saga.status \in {"running", "compensating"}
    <3>1. saga # NoRun /\ saga \in SagaRow
      BY <1>0, <1>4 DEF RunExisting, Recover, SagaTypeOK
    <3>2. saga.status \in Status
      BY <3>1, RowTypes
    <3> QED BY <1>4, <3>1, <3>2 DEF RunExisting, Recover, Goto, Status, Terminal
  <2>1. saga.current \in 0 .. N
    BY <2>0, Zenon DEF SagaRow
  <2>2. saga.current - 1 \in -1 .. N - 1 /\ saga.current \in -1 .. N
    BY <2>1, SagaConstants
  <2>3. CASE saga.status = "compensating"
    <3>1. PICK F : F = [IdleEngine EXCEPT !.pc = "compLoad", !.from = saga.current - 1]
      OBVIOUS
    <3>2. Fields(F, "compLoad", 0, FALSE, << >>, saga.current - 1, {}, FALSE, FALSE, "running", 0)
      BY <2>1, <2>2, <3>1, StartFields
    <3>3. /\ F \in Engine /\ F.pc = "compLoad" /\ F.from = saga.current - 1
          /\ engine' = [engine EXCEPT ![e] = F] /\ engine'[e] = F
      BY <1>0, <2>0, <2>3, <3>1, <3>2 DEF Fields, Resumed
    <3>4. StepInRange(e)'
      BY <1>1, <2>0, <3>3 DEF StepInRange
    <3>5. ASSUME SagaInv PROVE EngineOK(e)'
      <4>1. EngineKnows(e)'
        BY <1>1, <2>0, <2>3, <3>3 DEF EngineKnows, Undoing, Terminal
      <4>2. ~Committed /\ (Committed' <=> Committed)
        BY <1>1, <2>0, <2>3, <3>5 DEF SagaInv, RowOK, RowUncommitted, Committed
      <4>3. EngineUncommitted(e)' /\ EngineUndone(e)' /\ EngineClean(e)'
        BY <1>1, <2>3, <3>3, <4>2 DEF EngineUncommitted, EngineUndone, EngineClean, Undoing
      <4> QED BY <4>1, <4>3 DEF EngineOK
    <3> QED BY <1>1, <1>2, <3>3, <3>4, <3>5, QuietBy
  <2>4. CASE saga.status = "running"
    <3>1. PICK F : F = [IdleEngine EXCEPT !.pc = "execute", !.step = saga.current]
      OBVIOUS
    <3>2. Fields(F, "execute", saga.current, FALSE, << >>, -1, {}, FALSE, FALSE, "running", 0)
      BY <2>1, <2>2, <3>1, StartFields
    <3>3. /\ F \in Engine /\ F.pc = "execute" /\ F.step = saga.current /\ F.rolling = FALSE
          /\ engine' = [engine EXCEPT ![e] = F] /\ engine'[e] = F
      BY <1>0, <2>0, <2>4, <3>1, <3>2 DEF Fields, Resumed
    <3>4. StepInRange(e)'
      BY <1>1, <2>0, <2>1, <3>3 DEF StepInRange
    <3>5. EngineKnows(e)'
      BY <1>1, <2>0, <2>4, <3>3 DEF EngineKnows, Undoing, Terminal
    <3>6. EngineUncommitted(e)' /\ EngineUndone(e)' /\ EngineClean(e)'
      BY <3>3 DEF EngineUncommitted, EngineUndone, EngineClean, Undoing
    <3> QED BY <1>1, <1>2, <3>3, <3>4, <3>5, <3>6, QuietBy DEF EngineOK
  <2> QED BY <2>0, <2>3, <2>4
<1> QED BY <1>3, <1>4

(* What every later step of a call begins with.                            *)
LEMMA AtWork ==
    ASSUME SagaTypes, NEW e \in Engines, engine[e].pc \notin {"idle", "insert"}
    PROVE  /\ SagaTypeOK /\ StepInRange(e) /\ engine \in [Engines -> Engine] /\ engine[e] \in Engine
           /\ saga \in SagaRow /\ saga # NoRun
           /\ saga.current \in 0 .. N /\ saga.results \in Seq(Steps) /\ saga.status \in Status
<1>1. SagaTypeOK /\ StepInRange(e) /\ engine \in [Engines -> Engine]
  BY DEF SagaTypes, SagaTypeOK
<1>2. saga # NoRun /\ saga \in SagaRow
  BY <1>1 DEF StepInRange, SagaTypeOK
<1> QED BY <1>1, <1>2, Zenon DEF SagaRow

(* A step takes effect: its progress is not persisted yet.                 *)
LEMMA ExecuteOKStep ==
    ASSUME SagaTypes, NEW e \in Engines, ExecuteOK(e)
    PROVE  SagaTypes' /\ (SagaInv /\ ~Overlap => SagaInv')
<1>0. engine[e].pc = "execute" /\ engine[e].step < N
  BY DEF ExecuteOK, At
<1>1. /\ SagaTypeOK /\ StepInRange(e) /\ engine \in [Engines -> Engine] /\ engine[e] \in Engine
      /\ saga \in SagaRow /\ saga # NoRun
      /\ saga.current \in 0 .. N /\ saga.results \in Seq(Steps) /\ saga.status \in Status
  BY <1>0, AtWork
<1>2. engine[e].step \in Steps
  BY <1>0, <1>1, SagaConstants DEF StepInRange, Steps
<1>3. PICK i \in Steps : i = engine[e].step
  BY <1>2
<1>4. PICK F : F = [engine[e] EXCEPT !.pc = "load"]
  OBVIOUS
<1>5. /\ F \in Engine /\ F.pc = "load" /\ F.step = i /\ F.rolling = engine[e].rolling
      /\ engine' = [engine EXCEPT ![e] = F] /\ engine'[e] = F
  <2>1. Fields(F, "load", engine[e].step, engine[e].rolling, engine[e].results, engine[e].from,
               engine[e].done, engine[e].ok, engine[e].compFailed, engine[e].status, engine[e].current)
    BY <1>1, <1>4, Zenon DEF Fields, Engine, EnginePC
  <2> QED BY <1>1, <1>3, <1>4, <2>1 DEF Fields, ExecuteOK, Goto
<1>6. /\ UNCHANGED << saga, compRow, undone, persisted, sagaFaults >>
      /\ executed' = [executed EXCEPT ![i] = executed[i] + 1]
  BY <1>3 DEF ExecuteOK, NoFault
<1>7. executed \in [Steps -> Nat] /\ executed' \in [Steps -> Nat] /\ executed'[i] >= 1
      /\ \A s \in Steps : executed'[s] >= executed[s]
  BY <1>1, <1>6 DEF SagaTypeOK
<1>8. StepInRange(e)'
  BY <1>1, <1>5, <1>6 DEF StepInRange
<1>9. SagaTypes' /\ \A f \in Engines : f # e => engine'[f] = engine[f]
  <2>1. /\ saga' \in SagaRow \union {NoRun} /\ (saga # NoRun => saga' # NoRun)
        /\ compRow' \in [Steps -> {"none", "ok", "failed"}]
        /\ undone' \in [Steps -> Nat] /\ persisted' \subseteq Steps
        /\ sagaFaults' \in [crashes : Nat, db : Nat, step : Nat]
    BY <1>1, <1>6 DEF SagaTypeOK
  <2> QED BY <1>5, <1>7, <1>8, <2>1, TypesBy
<1>10. ASSUME SagaInv, ~Overlap PROVE SagaInv'
  <2>1. Solo /\ RowOK /\ EngineOK(e)
    BY <1>10 DEF SagaInv
  <2>2. \A f \in Engines : f # e => engine[f].pc = "idle"
    BY <1>0, <2>1, AloneAtWork
  <2>3. persisted \subseteq Steps
    BY <1>1 DEF SagaTypeOK
  <2>4. RowIsRecord'
    <3>1. \A s \in persisted : executed[s] >= 1
      BY <2>1 DEF RowOK, RowIsRecord
    <3>2. \A s \in persisted : executed'[s] >= 1
      BY <1>7, <2>3, <3>1
    <3> QED BY <1>6, <2>1, <3>2 DEF RowOK, RowIsRecord
  <2>5. SagaOutcome'
    <3>1. /\ saga' = saga /\ undone' = undone /\ persisted' = persisted /\ sagaFaults' = sagaFaults
          /\ \A s \in Steps : executed[s] >= 1 => executed'[s] >= 1
      BY <1>6, <1>7
    <3> QED BY <2>1, <3>1 DEF RowOK, SagaOutcome
  <2>6. RowOK'
    BY <1>6, <2>1, <2>4, <2>5
       DEF RowOK, RowUncommitted, Committed, RecordedUndone, RowClean, NothingUndone
  <2>7. EngineOK(e)'
    <3>1. EngineKnows(e)'
      BY <1>0, <1>3, <1>5, <1>6, <1>7, <2>1 DEF EngineOK, EngineKnows, Undoing
    <3>2. EngineUncommitted(e)'
      BY <1>0, <1>5, <1>6, <2>1 DEF EngineOK, EngineUncommitted, Undoing, Committed
    <3>3. EngineUndone(e)' /\ EngineClean(e)'
      BY <1>5 DEF EngineUndone, EngineClean, Undoing
    <3> QED BY <3>1, <3>2, <3>3 DEF EngineOK
  <2> QED BY <1>9, <1>10, <2>1, <2>2, <2>6, <2>7, InvBy
<1> QED BY <1>9, <1>10

(* A call is about to write its verdict.                                   *)
LEMMA FinishBy ==
    ASSUME SagaTypes, NEW e \in Engines, engine[e].pc \notin {"idle", "insert", "finish"},
           NEW F, Fields(F, "finish", engine[e].step, engine[e].rolling, engine[e].results,
                         engine[e].from, engine[e].done, engine[e].ok, engine[e].compFailed,
                         F.status, F.current),
           Goto(e, F), UNCHANGED << saga, compRow, executed, undone, persisted >>,
           sagaFaults' \in [crashes : Nat, db : Nat, step : Nat],
           sagaFaults'.db = 0 => sagaFaults.db = 0,
           SagaInv =>
               /\ F.current = saga.current /\ F.status \in Terminal
               /\ F.status = "completed" => saga.status = "running" /\ saga.current = N
               /\ sagaFaults'.db = 0 /\ F.status = "failed" => Committed \/ AllCompensated
    PROVE  SagaTypes' /\ (SagaInv /\ ~Overlap => SagaInv')
<1>1. /\ engine \in [Engines -> Engine] /\ saga # NoRun
  BY AtWork
<1>2. F \in Engine /\ F.pc = "finish" /\ engine' = [engine EXCEPT ![e] = F] /\ engine'[e] = F
  BY <1>1 DEF Fields, Goto
<1>3. StepInRange(e)'
  BY <1>1, <1>2 DEF StepInRange
<1>4. ASSUME SagaInv PROVE EngineOK(e)'
  <2>1. saga.status \notin Terminal
    BY <1>4 DEF SagaInv, EngineOK, EngineKnows
  <2>2. EngineKnows(e)'
    BY <1>1, <1>2, <1>4, <2>1 DEF EngineKnows, Undoing
  <2>3. EngineUncommitted(e)' /\ EngineUndone(e)'
    BY <1>2 DEF EngineUncommitted, EngineUndone, Undoing
  <2>4. EngineClean(e)'
    BY <1>2, <1>4 DEF EngineClean, Undoing, Committed, AllCompensated
  <2> QED BY <2>2, <2>3, <2>4 DEF EngineOK
<1> QED BY <1>2, <1>3, <1>4, QuietBy

(* A pivot below the failed step is a committed one.                       *)
LEMMA PivotCommits ==
    ASSUME SagaTypes, RowOK, saga # NoRun, NEW n, n = saga.current
    PROVE  HasPivot(n) <=> Committed
<1>1. saga.current \in 0 .. N
  BY RowTypes DEF SagaTypes, SagaTypeOK
<1>2. \A p \in Pivots : p \in 0 .. N - 1
  BY SagaConstants DEF Steps
<1>3. persisted = 0 .. saga.current - 1
  BY DEF RowOK, RowIsRecord
<1> QED BY <1>1, <1>2, <1>3, SagaConstants DEF HasPivot, Committed

(* A step fails: retried after a pivot, rolled back without one.           *)
LEMMA ExecuteFailsStep ==
    ASSUME SagaTypes, NEW e \in Engines, ExecuteFails(e)
    PROVE  SagaTypes' /\ (SagaInv /\ ~Overlap => SagaInv')
<1>0. engine[e].pc = "execute" /\ engine[e].step < N
  BY DEF ExecuteFails, At
<1>1. /\ SagaTypeOK /\ StepInRange(e) /\ engine \in [Engines -> Engine] /\ engine[e] \in Engine
      /\ saga \in SagaRow /\ saga # NoRun
      /\ saga.current \in 0 .. N /\ saga.results \in Seq(Steps) /\ saga.status \in Status
  BY <1>0, AtWork
<1>2. PICK E \in Engine : E = engine[e]
  BY <1>1
<1>3. E.step \in 0 .. N - 1 /\ E.step \in 0 .. N /\ E.step - 1 \in -1 .. N - 1
  BY <1>0, <1>1, <1>2, SagaConstants DEF StepInRange
<1>4. /\ sagaFaults' \in [crashes : Nat, db : Nat, step : Nat]
      /\ sagaFaults'.db = 0 => sagaFaults.db = 0
      /\ UNCHANGED << saga, compRow, executed, undone, persisted >>
      /\ Goto(e, AfterFailure(engine[e]))
  BY <1>1, FaultTypes DEF ExecuteFails, History
<1>5. CASE E.rolling = TRUE
  <2>1. PICK F : F = [E EXCEPT !.pc = "finish", !.status = "failed", !.current = E.step]
    OBVIOUS
  <2>2. Fields(F, "finish", E.step, E.rolling, E.results, E.from, E.done, E.ok, E.compFailed,
               "failed", E.step)
    BY <1>3, <2>1, Zenon DEF Fields, Engine, EnginePC, Status, Terminal
  <2>3. Goto(e, F) /\ F.status = "failed" /\ F.current = E.step
    BY <1>2, <1>4, <1>5, <2>1, <2>2 DEF AfterFailure, Fields
  <2>4. ASSUME SagaInv
        PROVE  /\ F.current = saga.current /\ F.status \in Terminal
               /\ F.status = "completed" => saga.status = "running" /\ saga.current = N
               /\ sagaFaults'.db = 0 /\ F.status = "failed" => Committed \/ AllCompensated
    BY <1>0, <1>2, <1>5, <2>3, <2>4 DEF SagaInv, EngineOK, EngineKnows, EngineUncommitted, Terminal
  <2> QED BY <1>0, <1>2, <1>4, <2>2, <2>3, <2>4, FinishBy
<1>6. CASE E.rolling = FALSE /\ HasPivot(E.step)
  <2>1. PICK F : F = [E EXCEPT !.rolling = TRUE]
    OBVIOUS
  <2>2. Fields(F, E.pc, E.step, TRUE, E.results, E.from, E.done, E.ok, E.compFailed,
               E.status, E.current)
    BY <1>3, <2>1, Zenon DEF Fields, Engine
  <2>3. /\ F \in Engine /\ F.pc = "execute" /\ F.step = E.step
        /\ engine' = [engine EXCEPT ![e] = F] /\ engine'[e] = F
    BY <1>0, <1>1, <1>2, <1>4, <1>6, <2>1, <2>2 DEF AfterFailure, Fields, Goto
  <2>4. StepInRange(e)'
    BY <1>1, <1>3, <1>4, <2>3 DEF StepInRange
  <2>5. ASSUME SagaInv PROVE EngineOK(e)'
    <3>1. EngineOK(e) /\ RowOK
      BY <2>5 DEF SagaInv
    <3>2. EngineKnows(e)'
      BY <1>0, <1>2, <1>4, <2>3, <3>1 DEF EngineOK, EngineKnows, Undoing
    <3>3. Committed'
      <4>1. E.step = saga.current
        BY <1>0, <1>2, <3>1 DEF EngineOK, EngineKnows
      <4>2. Committed
        BY <1>1, <1>6, <3>1, <4>1, PivotCommits
      <4> QED BY <1>4, <4>2 DEF Committed
    <3>4. EngineUncommitted(e)' /\ EngineUndone(e)' /\ EngineClean(e)'
      BY <2>3, <3>3 DEF EngineUncommitted, EngineUndone, EngineClean, Undoing
    <3> QED BY <3>2, <3>4 DEF EngineOK
  <2> QED BY <1>0, <1>4, <2>3, <2>4, <2>5, QuietBy
<1>7. CASE E.rolling = FALSE /\ ~HasPivot(E.step)
  <2>1. PICK F : F = [E EXCEPT !.pc = "rollback", !.from = E.step - 1]
    OBVIOUS
  <2>2. Fields(F, "rollback", E.step, E.rolling, E.results, E.step - 1, E.done, E.ok, E.compFailed,
               E.status, E.current)
    BY <1>3, <2>1, Zenon DEF Fields, Engine, EnginePC
  <2>3. /\ F \in Engine /\ F.pc = "rollback" /\ F.step = E.step /\ F.from = E.step - 1
        /\ engine' = [engine EXCEPT ![e] = F] /\ engine'[e] = F
    <3>1. AfterFailure(engine[e]) = F
      BY <1>2, <1>7, <2>1 DEF AfterFailure
    <3> QED BY <1>1, <1>4, <2>2, <3>1 DEF Fields, Goto
  <2>4. StepInRange(e)'
    BY <1>1, <1>3, <1>4, <2>3 DEF StepInRange
  <2>5. ASSUME SagaInv PROVE EngineOK(e)'
    <3>1. EngineOK(e) /\ RowOK
      BY <2>5 DEF SagaInv
    <3>2. EngineKnows(e)'
      BY <1>0, <1>2, <1>4, <2>3, <3>1 DEF EngineOK, EngineKnows, Undoing
    <3>3. ~Committed'
      <4>1. E.step = saga.current
        BY <1>0, <1>2, <3>1 DEF EngineOK, EngineKnows
      <4>2. ~Committed
        BY <1>1, <1>7, <3>1, <4>1, PivotCommits
      <4> QED BY <1>4, <4>2 DEF Committed
    <3>4. EngineUncommitted(e)' /\ EngineUndone(e)' /\ EngineClean(e)'
      BY <2>3, <3>3 DEF EngineUncommitted, EngineUndone, EngineClean, Undoing
    <3> QED BY <3>2, <3>4 DEF EngineOK
  <2> QED BY <1>0, <1>4, <2>3, <2>4, <2>5, QuietBy
<1> QED BY <1>5, <1>6, <1>7, EngineFields

(* The loop ends.                                                          *)
LEMMA AllExecutedStep ==
    ASSUME SagaTypes, NEW e \in Engines, AllExecuted(e)
    PROVE  SagaTypes' /\ (SagaInv /\ ~Overlap => SagaInv')
<1>0. engine[e].pc = "execute" /\ engine[e].step = N
  BY DEF AllExecuted, At
<1>1. SagaTypeOK /\ engine[e] \in Engine
  BY <1>0, AtWork
<1>2. PICK E \in Engine : E = engine[e]
  BY <1>1
<1>3. PICK F : F = [E EXCEPT !.pc = "finish", !.status = "completed", !.current = N]
  OBVIOUS
<1>4. Fields(F, "finish", E.step, E.rolling, E.results, E.from, E.done, E.ok, E.compFailed,
             "completed", N)
  <2>1. N \in 0 .. N
    BY SagaConstants
  <2> QED BY <1>3, <2>1, Zenon DEF Fields, Engine, EnginePC, Status, Terminal
<1>5. /\ sagaFaults' \in [crashes : Nat, db : Nat, step : Nat]
      /\ sagaFaults'.db = 0 => sagaFaults.db = 0
      /\ UNCHANGED << saga, compRow, executed, undone, persisted >>
      /\ Goto(e, F) /\ F.status = "completed" /\ F.current = N
  BY <1>1, <1>2, <1>3, <1>4, FaultTypes DEF AllExecuted, History, Fields
<1>6. ASSUME SagaInv
      PROVE  /\ F.current = saga.current /\ F.status \in Terminal
             /\ F.status = "completed" => saga.status = "running" /\ saga.current = N
             /\ sagaFaults'.db = 0 /\ F.status = "failed" => Committed \/ AllCompensated
  BY <1>0, <1>5, <1>6 DEF SagaInv, EngineOK, EngineKnows, Terminal
<1> QED BY <1>0, <1>2, <1>4, <1>5, <1>6, FinishBy

(* A statement of persistSagaProgress failed.                              *)
LEMMA NotPersistedStep ==
    ASSUME SagaTypes, NEW e \in Engines, engine[e].pc \in {"load", "write"}, DBError,
           Goto(e, NotPersisted(engine[e])),
           UNCHANGED << saga, compRow, executed, undone, persisted >>
    PROVE  SagaTypes' /\ (SagaInv /\ ~Overlap => SagaInv')
<1>1. SagaTypeOK /\ engine[e] \in Engine /\ StepInRange(e)
  BY AtWork
<1>2. PICK E \in Engine : E = engine[e]
  BY <1>1
<1>3. PICK F : F = [E EXCEPT !.pc = "finish", !.status = "failed", !.current = E.step]
  OBVIOUS
<1>4. Fields(F, "finish", E.step, E.rolling, E.results, E.from, E.done, E.ok, E.compFailed,
             "failed", E.step)
  <2>1. E.step \in 0 .. N
    BY <1>1, <1>2, SagaConstants DEF StepInRange, Steps
  <2> QED BY <1>3, <2>1, Zenon DEF Fields, Engine, EnginePC, Status, Terminal
<1>5. /\ sagaFaults' \in [crashes : Nat, db : Nat, step : Nat]
      /\ sagaFaults'.db # 0
      /\ Goto(e, F) /\ F.status = "failed" /\ F.current = E.step
  BY <1>1, <1>2, <1>3, <1>4, FaultTypes DEF NotPersisted, Fields
<1>6. ASSUME SagaInv
      PROVE  /\ F.current = saga.current /\ F.status \in Terminal
             /\ F.status = "completed" => saga.status = "running" /\ saga.current = N
             /\ sagaFaults'.db = 0 /\ F.status = "failed" => Committed \/ AllCompensated
  BY <1>2, <1>5, <1>6 DEF SagaInv, EngineOK, EngineKnows, Terminal
<1> QED BY <1>2, <1>4, <1>5, <1>6, FinishBy

(* persistSagaProgress reads the state document.                           *)
LEMMA PersistLoadStep ==
    ASSUME SagaTypes, NEW e \in Engines, PersistLoad(e)
    PROVE  SagaTypes' /\ (SagaInv /\ ~Overlap => SagaInv')
<1>0. engine[e].pc = "load" /\ UNCHANGED << saga, compRow, executed, undone, persisted >>
  BY DEF PersistLoad, At, History
<1>1. /\ SagaTypeOK /\ StepInRange(e) /\ engine \in [Engines -> Engine] /\ engine[e] \in Engine
      /\ saga \in SagaRow /\ saga # NoRun
      /\ saga.current \in 0 .. N /\ saga.results \in Seq(Steps) /\ saga.status \in Status
  BY <1>0, AtWork
<1>2. CASE /\ Goto(e, [engine[e] EXCEPT !.pc = "write", !.results = saga.results])
           /\ NoFault
  <2>1. PICK E \in Engine : E = engine[e]
    BY <1>1
  <2>2. PICK F : F = [E EXCEPT !.pc = "write", !.results = saga.results]
    OBVIOUS
  <2>3. Fields(F, "write", E.step, E.rolling, saga.results, E.from, E.done, E.ok, E.compFailed,
               E.status, E.current)
    BY <1>1, <2>2, Zenon DEF Fields, Engine, EnginePC
  <2>4. /\ F \in Engine /\ F.pc = "write" /\ F.step = E.step /\ F.results = saga.results
        /\ F.rolling = E.rolling
        /\ engine' = [engine EXCEPT ![e] = F] /\ engine'[e] = F
    BY <1>1, <1>2, <2>1, <2>2, <2>3 DEF Fields, Goto
  <2>5. StepInRange(e)'
    BY <1>0, <1>1, <2>1, <2>4 DEF StepInRange
  <2>6. ASSUME SagaInv PROVE EngineOK(e)'
    <3>1. EngineOK(e)
      BY <2>6 DEF SagaInv
    <3>2. EngineKnows(e)'
      BY <1>0, <2>1, <2>4, <3>1 DEF EngineOK, EngineKnows, Undoing
    <3>3. EngineUncommitted(e)'
      BY <1>0, <2>1, <2>4, <3>1 DEF EngineOK, EngineUncommitted, Undoing, Committed
    <3>4. EngineUndone(e)' /\ EngineClean(e)'
      BY <2>4 DEF EngineUndone, EngineClean, Undoing
    <3> QED BY <3>2, <3>3, <3>4 DEF EngineOK
  <2>7. /\ sagaFaults' \in [crashes : Nat, db : Nat, step : Nat]
        /\ sagaFaults'.db = 0 => sagaFaults.db = 0
    BY <1>1, <1>2, FaultTypes
  <2> QED BY <1>0, <2>4, <2>5, <2>6, <2>7, QuietBy
<1> QED BY <1>0, <1>2, NotPersistedStep DEF PersistLoad

(* persistSagaProgress writes it: the row gains a step.                    *)
LEMMA PersistWriteStep ==
    ASSUME SagaTypes, NEW e \in Engines, PersistWrite(e)
    PROVE  SagaTypes' /\ (SagaInv /\ ~Overlap => SagaInv')
<1>0. engine[e].pc = "write" /\ UNCHANGED << compRow, executed, undone >>
  BY DEF PersistWrite, At
<1>1. /\ SagaTypeOK /\ StepInRange(e) /\ engine \in [Engines -> Engine] /\ engine[e] \in Engine
      /\ saga \in SagaRow /\ saga # NoRun
      /\ saga.current \in 0 .. N /\ saga.results \in Seq(Steps) /\ saga.status \in Status
  BY <1>0, AtWork
<1>2. CASE /\ saga' = Progress(engine[e])
           /\ persisted' = persisted \union {engine[e].step}
           /\ Goto(e, [engine[e] EXCEPT !.pc = "execute", !.step = @ + 1])
           /\ NoFault
  <2>1. PICK E \in Engine : E = engine[e]
    BY <1>1
  <2>2. PICK F : F = [E EXCEPT !.pc = "execute", !.step = E.step + 1]
    OBVIOUS
  <2>3. E.step \in Steps /\ E.step + 1 \in 0 .. N /\ E.step + 1 \in -1 .. N /\ E.step \in 0 .. N - 1
    BY <1>0, <1>1, <2>1, SagaConstants DEF StepInRange, Steps
  <2>4. Fields(F, "execute", E.step + 1, E.rolling, E.results, E.from, E.done, E.ok, E.compFailed,
               E.status, E.current)
    BY <2>2, <2>3, Zenon DEF Fields, Engine, EnginePC
  <2>5. /\ F \in Engine /\ F.pc = "execute" /\ F.step = E.step + 1 /\ F.rolling = E.rolling
        /\ engine' = [engine EXCEPT ![e] = F] /\ engine'[e] = F
    BY <1>1, <1>2, <2>1, <2>2, <2>4 DEF Fields, Goto
  <2>6. E.results \in Seq(Steps)
    BY EngineFields
  <2>7. Append(E.results, E.step) \in Seq(Steps)
    BY <2>3, <2>6
  <2>8. /\ saga' \in SagaRow /\ saga' # NoRun
        /\ saga'.status = saga.status /\ saga'.current = E.step + 1
        /\ saga'.results = Append(E.results, E.step)
    <3>1. saga' = [saga EXCEPT !.current = E.step + 1, !.results = Append(E.results, E.step),
                               !.leased = TRUE]
      BY <1>2, <2>1 DEF Progress
    <3>2. /\ saga' \in SagaRow
          /\ saga'.status = saga.status /\ saga'.current = E.step + 1
          /\ saga'.results = Append(E.results, E.step)
      <4>1. PICK n \in 0 .. N : n = E.step + 1
        BY <2>3
      <4>2. PICK res \in Seq(Steps) : res = Append(E.results, E.step)
        BY <2>7
      <4>3. saga' = [saga EXCEPT !.current = n, !.results = res, !.leased = TRUE]
        BY <3>1, <4>1, <4>2
      <4>4. saga' \in SagaRow /\ saga'.status = saga.status /\ saga'.current = n /\ saga'.results = res
        BY <1>1, <4>3, Zenon DEF SagaRow
      <4> QED BY <4>1, <4>2, <4>4
    <3> QED BY <3>2, NoRunIsNone
  <2>9. /\ sagaFaults' = sagaFaults /\ persisted' = persisted \union {E.step}
        /\ UNCHANGED << compRow, executed, undone >>
    BY <1>0, <1>2, <2>1 DEF NoFault
  <2>10. StepInRange(e)'
    BY <2>3, <2>5, <2>8 DEF StepInRange
  <2>11. SagaTypes' /\ \A f \in Engines : f # e => engine'[f] = engine[f]
    <3>1. /\ saga' \in SagaRow \union {NoRun} /\ (saga # NoRun => saga' # NoRun)
          /\ compRow' \in [Steps -> {"none", "ok", "failed"}]
          /\ undone' \in [Steps -> Nat] /\ persisted' \subseteq Steps
          /\ executed' \in [Steps -> Nat]
          /\ sagaFaults' \in [crashes : Nat, db : Nat, step : Nat]
      BY <1>1, <2>3, <2>8, <2>9 DEF SagaTypeOK
    <3> QED BY <2>5, <2>10, <3>1, TypesBy
  <2>12. ASSUME SagaInv, ~Overlap PROVE SagaInv'
    <3>1. Solo /\ RowOK /\ EngineOK(e)
      BY <2>12 DEF SagaInv
    <3>2. \A f \in Engines : f # e => engine[f].pc = "idle"
      BY <1>0, <3>1, AloneAtWork
    <3>3. /\ E.step = saga.current /\ saga.status = "running" /\ E.results = saga.results
          /\ executed[E.step] >= 1
      BY <1>0, <2>1, <3>1 DEF EngineOK, EngineKnows
    <3>4. RowIsRecord'
      <4>1. /\ persisted = 0 .. saga.current - 1
            /\ Len(saga.results) = saga.current
            /\ \A j \in 1 .. saga.current : saga.results[j] = j - 1
            /\ \A s \in persisted : executed[s] >= 1
        BY <1>1, <3>1 DEF RowOK, RowIsRecord
      <4>2. persisted' = 0 .. saga'.current - 1
        BY <1>1, <2>3, <2>8, <2>9, <3>3, <4>1
      <4>3. Len(saga'.results) = saga'.current
        BY <1>1, <2>8, <3>3, <4>1
      <4>4. \A j \in 1 .. saga'.current : saga'.results[j] = j - 1
        <5> SUFFICES ASSUME NEW j \in 1 .. saga.current + 1
                     PROVE  Append(saga.results, saga.current)[j] = j - 1
          BY <2>8, <3>3
        <5>1. CASE j = saga.current + 1
          BY <1>1, <4>1, <5>1
        <5>2. CASE j \in 1 .. saga.current
          BY <1>1, <4>1, <5>2
        <5>3. j = saga.current + 1 \/ j \in 1 .. saga.current
          BY <1>1, SagaConstants
        <5> QED BY <5>1, <5>2, <5>3, Zenon
      <4>5. \A s \in persisted' : executed'[s] >= 1
        BY <2>9, <3>3, <4>1
      <4> QED BY <2>8, <4>2, <4>3, <4>4, <4>5 DEF RowIsRecord
    <3>5. saga'.status = "running"
      BY <2>8, <3>3
    <3>6. RowUncommitted' /\ RecordedUndone' /\ SagaOutcome'
      BY <2>9, <3>1, <3>5 DEF RowOK, RowUncommitted, RecordedUndone, SagaOutcome
    <3>7. RowClean'
      BY <1>1, <2>9, <3>1, <3>3 DEF RowOK, RowClean, NothingUndone
    <3>8. RowOK'
      BY <3>4, <3>6, <3>7 DEF RowOK
    <3>9. EngineKnows(e)'
      BY <2>5, <2>8, <3>5 DEF EngineKnows, Undoing, Terminal
    <3>10. EngineUncommitted(e)'
      BY <1>0, <2>1, <2>5, <2>9, <3>1 DEF EngineOK, EngineUncommitted, Undoing, Committed
    <3>11. EngineUndone(e)' /\ EngineClean(e)'
      BY <2>5 DEF EngineUndone, EngineClean, Undoing
    <3> QED BY <2>11, <2>12, <3>1, <3>2, <3>8, <3>9, <3>10, <3>11, InvBy DEF EngineOK
  <2> QED BY <2>11, <2>12
<1> QED BY <1>0, <1>2, NotPersistedStep DEF PersistWrite

(* The step of a call that changes the row and nothing but its status.     *)
LEMMA StatusBy ==
    ASSUME SagaTypes, NEW e \in Engines, engine[e].pc \notin {"idle", "insert"},
           NEW F \in Engine, engine' = [engine EXCEPT ![e] = F],
           NEW st \in Status, NEW n \in 0 .. N, saga' = Row(st, n), NoFault,
           UNCHANGED << compRow, executed, undone, persisted >>,
           F.pc \in {"idle", "compLoad"},
           SagaInv => /\ n = saga.current
                      /\ st = "compensating" => ~Committed
                      /\ sagaFaults.db = 0 /\ st = "running" => NothingUndone
                      /\ sagaFaults.db = 0 /\ st = "completed" =>
                            n = N /\ NothingUndone
                      /\ sagaFaults.db = 0 /\ st = "failed" => Committed \/ AllCompensated
                      /\ F.pc = "compLoad" => /\ st = "compensating" /\ F.from = n - 1
    PROVE  SagaTypes' /\ (SagaInv /\ ~Overlap => SagaInv')
<1>1. /\ SagaTypeOK /\ StepInRange(e) /\ engine \in [Engines -> Engine] /\ engine[e] \in Engine
      /\ saga \in SagaRow /\ saga # NoRun
      /\ saga.current \in 0 .. N /\ saga.results \in Seq(Steps) /\ saga.status \in Status
  BY AtWork
<1>2. saga' \in SagaRow /\ saga'.status = st /\ saga'.current = n /\ saga'.results = saga.results
  <2>1. saga' = [saga EXCEPT !.status = st, !.current = n]
    BY DEF Row
  <2> QED BY <1>1, <2>1, Zenon DEF SagaRow
<1>3. saga' # NoRun
  BY <1>2, NoRunIsNone
<1>4. engine'[e] = F
  BY <1>1
<1>5. StepInRange(e)'
  BY <1>3, <1>4 DEF StepInRange
<1>6. SagaTypes' /\ \A f \in Engines : f # e => engine'[f] = engine[f]
  <2>1. /\ saga' \in SagaRow \union {NoRun} /\ (saga # NoRun => saga' # NoRun)
        /\ compRow' \in [Steps -> {"none", "ok", "failed"}]
        /\ undone' \in [Steps -> Nat] /\ persisted' \subseteq Steps
        /\ executed' \in [Steps -> Nat]
        /\ sagaFaults' \in [crashes : Nat, db : Nat, step : Nat]
    BY <1>1, <1>2, <1>3 DEF SagaTypeOK, NoFault
  <2> QED BY <1>5, <2>1, TypesBy
<1>7. ASSUME SagaInv, ~Overlap PROVE SagaInv'
  <2>1. Solo /\ RowOK /\ EngineOK(e)
    BY <1>7 DEF SagaInv
  <2>2. \A f \in Engines : f # e => engine[f].pc = "idle"
    BY <2>1, AloneAtWork
  <2>3. /\ n = saga.current
        /\ st = "compensating" => ~Committed
        /\ sagaFaults.db = 0 /\ st = "running" => NothingUndone
        /\ sagaFaults.db = 0 /\ st = "completed" => n = N /\ NothingUndone
        /\ sagaFaults.db = 0 /\ st = "failed" => Committed \/ AllCompensated
        /\ F.pc = "compLoad" => /\ st = "compensating" /\ F.from = n - 1
    BY <1>7
  <2>4. RowIsRecord'
    BY <1>1, <1>2, <1>3, <2>1, <2>3 DEF RowOK, RowIsRecord
  <2>5. RowUncommitted' /\ RecordedUndone' /\ RowClean'
    BY <1>2, <1>3, <2>1, <2>3 DEF RowOK, RowUncommitted, RecordedUndone, RowClean, Committed, NothingUndone, NoFault
  <2>6. SagaOutcome'
    <3>1. ASSUME sagaFaults.db = 0, st = "completed"
          PROVE  \A s \in Steps : executed[s] >= 1 /\ undone[s] = 0
      <4>1. persisted = 0 .. N - 1 /\ \A s \in persisted : executed[s] >= 1
        BY <1>1, <2>1, <2>3, <3>1 DEF RowOK, RowIsRecord
      <4> QED BY <2>3, <3>1, <4>1 DEF NothingUndone, Steps
    <3>2. ASSUME sagaFaults.db = 0, st = "failed", persisted \intersect Pivots = {}
          PROVE  \A s \in persisted \intersect Compensable : undone[s] >= 1
      BY <2>3, <3>2 DEF Committed, AllCompensated
    <3> QED BY <1>2, <3>1, <3>2 DEF SagaOutcome, NoFault
  <2>7. RowOK'
    BY <2>4, <2>5, <2>6 DEF RowOK
  <2>8. EngineOK(e)'
    <3>1. CASE F.pc = "idle"
      BY <1>4, <3>1 DEF EngineOK, EngineKnows, EngineUncommitted, EngineUndone, EngineClean, Undoing
    <3>2. CASE F.pc = "compLoad"
      <4>1. EngineKnows(e)'
        BY <1>2, <1>3, <1>4, <2>3, <3>2 DEF EngineKnows, Undoing, Terminal
      <4>2. EngineUncommitted(e)'
        BY <1>4, <2>3, <3>2 DEF EngineUncommitted, Undoing, Committed
      <4>3. EngineUndone(e)' /\ EngineClean(e)'
        BY <1>2, <1>4, <2>3, <3>2 DEF EngineUndone, EngineClean, Undoing
      <4> QED BY <4>1, <4>2, <4>3 DEF EngineOK
    <3> QED BY <3>1, <3>2
  <2> QED BY <1>6, <1>7, <2>1, <2>2, <2>7, <2>8, InvBy
<1> QED BY <1>6, <1>7

(* The last updateSagaStatus: the verdict the call carries is true.        *)
LEMMA FinishStep ==
    ASSUME SagaTypes, NEW e \in Engines, Finish(e)
    PROVE  SagaTypes' /\ (SagaInv /\ ~Overlap => SagaInv')
<1>0. /\ engine[e].pc = "finish" /\ Goto(e, IdleEngine)
      /\ UNCHANGED << compRow, executed, undone, persisted >>
  BY DEF Finish, At, History
<1>1. SagaTypeOK /\ engine[e] \in Engine /\ saga # NoRun
  BY <1>0, AtWork
<1>2. CASE saga' = Row(engine[e].status, engine[e].current) /\ NoFault
  <2>1. PICK st \in Status : st = engine[e].status
    BY <1>1, EngineFields
  <2>2. PICK n \in 0 .. N : n = engine[e].current
    BY <1>1, EngineFields
  <2>3. /\ IdleEngine \in Engine /\ IdleEngine.pc = "idle" /\ engine' = [engine EXCEPT ![e] = IdleEngine]
        /\ saga' = Row(st, n)
    BY <1>0, <1>2, <2>1, <2>2, IdleFields DEF Fields, Goto
  <2>4. ASSUME SagaInv
        PROVE  /\ n = saga.current
               /\ st = "compensating" => ~Committed
               /\ sagaFaults.db = 0 /\ st = "running" => NothingUndone
               /\ sagaFaults.db = 0 /\ st = "completed" => n = N /\ NothingUndone
               /\ sagaFaults.db = 0 /\ st = "failed" => Committed \/ AllCompensated
    <3>1. EngineOK(e) /\ RowOK
      BY <2>4 DEF SagaInv
    <3>2. /\ n = saga.current /\ st \in Terminal
          /\ st = "completed" => saga.status = "running" /\ saga.current = N
      BY <1>0, <2>1, <2>2, <3>1 DEF EngineOK, EngineKnows
    <3>3. sagaFaults.db = 0 /\ st = "failed" => Committed \/ AllCompensated
      BY <1>0, <2>1, <3>1 DEF EngineOK, EngineClean
    <3>4. sagaFaults.db = 0 /\ st = "completed" => NothingUndone
      BY <3>1, <3>2 DEF RowOK, RowClean
    <3> QED BY <3>2, <3>3, <3>4 DEF Terminal
  <2> QED BY <1>0, <1>2, <2>3, <2>4, StatusBy
<1>3. CASE DBError /\ UNCHANGED saga
  <2>1. /\ sagaFaults' \in [crashes : Nat, db : Nat, step : Nat] /\ sagaFaults'.db # 0
    BY <1>1, <1>3, FaultTypes
  <2> QED BY <1>0, <1>3, <2>1, IdleBy
<1> QED BY <1>2, <1>3 DEF Finish

(* The update to compensating: no pivot is committed.                      *)
LEMMA RollbackStep ==
    ASSUME SagaTypes, NEW e \in Engines, Rollback(e)
    PROVE  SagaTypes' /\ (SagaInv /\ ~Overlap => SagaInv')
<1>0. /\ engine[e].pc = "rollback" /\ Goto(e, [engine[e] EXCEPT !.pc = "compLoad"])
      /\ UNCHANGED << compRow, executed, undone, persisted >>
  BY DEF Rollback, At, History
<1>1. /\ SagaTypeOK /\ StepInRange(e) /\ engine \in [Engines -> Engine] /\ engine[e] \in Engine
      /\ saga \in SagaRow /\ saga # NoRun
  BY <1>0, AtWork
<1>2. PICK E \in Engine : E = engine[e]
  BY <1>1
<1>3. PICK F : F = [E EXCEPT !.pc = "compLoad"]
  OBVIOUS
<1>4. Fields(F, "compLoad", E.step, E.rolling, E.results, E.from, E.done, E.ok, E.compFailed,
             E.status, E.current)
  BY <1>3, Zenon DEF Fields, Engine, EnginePC
<1>5. /\ F \in Engine /\ F.pc = "compLoad" /\ F.from = E.from
      /\ engine' = [engine EXCEPT ![e] = F] /\ engine'[e] = F
  BY <1>0, <1>1, <1>2, <1>3, <1>4 DEF Fields, Goto
<1>6. CASE saga' = Row("compensating", engine[e].step) /\ NoFault
  <2>1. PICK n \in 0 .. N : n = engine[e].step
    BY <1>0, <1>1 DEF StepInRange
  <2>2. "compensating" \in Status /\ saga' = Row("compensating", n)
    BY <1>6, <2>1 DEF Status
  <2>3. ASSUME SagaInv
        PROVE  n = saga.current /\ ~Committed /\ F.from = n - 1
    BY <1>0, <1>2, <1>5, <2>1, <2>3 DEF SagaInv, EngineOK, EngineKnows, EngineUncommitted
  <2> QED BY <1>0, <1>5, <1>6, <2>2, <2>3, StatusBy
<1>7. CASE DBError /\ UNCHANGED saga
  <2>1. /\ sagaFaults' \in [crashes : Nat, db : Nat, step : Nat] /\ sagaFaults'.db # 0
    BY <1>1, <1>7, FaultTypes
  <2>2. StepInRange(e)'
    BY <1>1, <1>5, <1>7 DEF StepInRange
  <2>3. ASSUME SagaInv PROVE EngineOK(e)'
    <3>1. EngineOK(e)
      BY <2>3 DEF SagaInv
    <3>2. EngineKnows(e)'
      BY <1>0, <1>2, <1>5, <1>7, <3>1 DEF EngineOK, EngineKnows, Undoing
    <3>3. EngineUncommitted(e)'
      BY <1>0, <1>5, <3>1 DEF EngineOK, EngineUncommitted, Undoing, Committed
    <3>4. EngineUndone(e)' /\ EngineClean(e)'
      BY <1>5, <2>1 DEF EngineUndone, EngineClean
    <3> QED BY <3>2, <3>3, <3>4 DEF EngineOK
  <2> QED BY <1>0, <1>5, <1>7, <2>1, <2>2, <2>3, QuietBy
<1> QED BY <1>6, <1>7 DEF Rollback

(* RunSaga inserts the row, or fails.                                      *)
LEMMA InsertStep ==
    ASSUME SagaTypes, NEW e \in Engines, Insert(e)
    PROVE  SagaTypes' /\ (SagaInv /\ ~Overlap => SagaInv')
<1>0. /\ engine[e].pc = "insert" /\ UNCHANGED << compRow, executed, undone, persisted >>
      /\ SagaTypeOK /\ engine \in [Engines -> Engine]
  BY DEF Insert, At, History, SagaTypes, SagaTypeOK
<1>1. CASE /\ Goto(e, IdleEngine) /\ UNCHANGED saga /\ (NoFault \/ DBError)
  <2>1. /\ sagaFaults' \in [crashes : Nat, db : Nat, step : Nat]
        /\ sagaFaults'.db = 0 => sagaFaults.db = 0
    BY <1>0, <1>1, FaultTypes
  <2> QED BY <1>0, <1>1, <2>1, IdleBy
<1>2. CASE /\ saga = NoRun
           /\ saga' = [status |-> "running", current |-> 0, results |-> << >>, leased |-> TRUE]
           /\ Goto(e, [IdleEngine EXCEPT !.pc = "execute"])
           /\ NoFault
  <2>1. PICK F : F = [IdleEngine EXCEPT !.pc = "execute"]
    OBVIOUS
  <2>2. /\ F \in Engine /\ F.pc = "execute" /\ F.step = 0 /\ F.rolling = FALSE
        /\ engine' = [engine EXCEPT ![e] = F] /\ engine'[e] = F
    <3>1. 0 \in 0 .. N /\ -1 \in -1 .. N - 1
      BY SagaConstants
    <3> QED BY <1>0, <1>2, <2>1, <3>1, StartFields DEF Fields, Goto
  <2>3. /\ saga' \in SagaRow /\ saga' # NoRun /\ saga'.status = "running" /\ saga'.current = 0
        /\ saga'.results = << >>
    BY <1>2, NewRow, NoRunIsNone
  <2>4. StepInRange(e)'
    BY <2>2, <2>3, SagaConstants DEF StepInRange
  <2>5. SagaTypes' /\ \A f \in Engines : f # e => engine'[f] = engine[f]
    <3>1. /\ saga' \in SagaRow \union {NoRun} /\ (saga # NoRun => saga' # NoRun)
          /\ compRow' \in [Steps -> {"none", "ok", "failed"}]
          /\ undone' \in [Steps -> Nat] /\ persisted' \subseteq Steps
          /\ executed' \in [Steps -> Nat]
          /\ sagaFaults' \in [crashes : Nat, db : Nat, step : Nat]
      BY <1>0, <1>2, <2>3 DEF SagaTypeOK, NoFault
    <3> QED BY <2>2, <2>4, <3>1, TypesBy
  <2>6. ASSUME SagaInv, ~Overlap PROVE SagaInv'
    <3>1. Solo /\ RowOK /\ EngineOK(e)
      BY <2>6 DEF SagaInv
    <3>2. \A f \in Engines : f # e => engine[f].pc = "idle"
      BY <1>0, <3>1, AloneAtWork
    <3>3. persisted = {}
      BY <1>2, <3>1 DEF RowOK, RowIsRecord
    <3>4. RowIsRecord'
      BY <1>0, <2>3, <3>3 DEF RowIsRecord
    <3>5. RowUncommitted' /\ RecordedUndone' /\ RowClean' /\ SagaOutcome'
      BY <1>0, <1>2, <2>3, <3>1 DEF RowOK, RowUncommitted, RecordedUndone, RowClean, NothingUndone, NoFault,
                               SagaOutcome
    <3>6. EngineKnows(e)'
      BY <2>2, <2>3 DEF EngineKnows, Undoing, Terminal
    <3>7. EngineUncommitted(e)' /\ EngineUndone(e)' /\ EngineClean(e)'
      BY <2>2 DEF EngineUncommitted, EngineUndone, EngineClean, Undoing
    <3> QED BY <2>5, <2>6, <3>1, <3>2, <3>4, <3>5, <3>6, <3>7, InvBy DEF RowOK, EngineOK
  <2> QED BY <2>5, <2>6
<1> QED BY <1>1, <1>2 DEF Insert

(* compensateSaga reads the results.                                       *)
LEMMA CompLoadStep ==
    ASSUME SagaTypes, NEW e \in Engines, CompLoad(e)
    PROVE  SagaTypes' /\ (SagaInv /\ ~Overlap => SagaInv')
<1>0. engine[e].pc = "compLoad" /\ UNCHANGED << saga, compRow, executed, undone, persisted >>
  BY DEF CompLoad, At, History
<1>1. /\ SagaTypeOK /\ StepInRange(e) /\ engine \in [Engines -> Engine] /\ engine[e] \in Engine
      /\ saga \in SagaRow /\ saga # NoRun
      /\ saga.current \in 0 .. N /\ saga.results \in Seq(Steps) /\ saga.status \in Status
  BY <1>0, AtWork
<1>2. PICK E \in Engine : E = engine[e]
  BY <1>1
<1>3. CASE Goto(e, [engine[e] EXCEPT !.pc = "compDone", !.results = saga.results]) /\ NoFault
  <2>1. PICK F : F = [E EXCEPT !.pc = "compDone", !.results = saga.results]
    OBVIOUS
  <2>2. Fields(F, "compDone", E.step, E.rolling, saga.results, E.from, E.done, E.ok, E.compFailed,
               E.status, E.current)
    BY <1>1, <2>1, Zenon DEF Fields, Engine, EnginePC
  <2>3. /\ F \in Engine /\ F.pc = "compDone" /\ F.from = E.from /\ F.results = saga.results
        /\ engine' = [engine EXCEPT ![e] = F] /\ engine'[e] = F
    BY <1>1, <1>2, <1>3, <2>1, <2>2 DEF Fields, Goto
  <2>4. StepInRange(e)'
    BY <1>0, <1>1, <2>3 DEF StepInRange
  <2>5. /\ sagaFaults' \in [crashes : Nat, db : Nat, step : Nat]
        /\ sagaFaults'.db = 0 => sagaFaults.db = 0
    BY <1>1, <1>3, FaultTypes
  <2>6. ASSUME SagaInv PROVE EngineOK(e)'
    <3>1. EngineOK(e)
      BY <2>6 DEF SagaInv
    <3>2. EngineKnows(e)'
      BY <1>0, <1>2, <2>3, <3>1 DEF EngineOK, EngineKnows, Undoing
    <3>3. EngineUncommitted(e)' /\ EngineUndone(e)'
      BY <1>0, <2>3, <3>1 DEF EngineOK, EngineUncommitted, EngineUndone, Undoing, Committed
    <3>4. EngineClean(e)'
      BY <1>0, <2>3, <2>5, <3>1 DEF EngineOK, EngineClean, Undoing
    <3> QED BY <3>2, <3>3, <3>4 DEF EngineOK
  <2> QED BY <1>0, <2>3, <2>4, <2>5, <2>6, QuietBy
<1>4. CASE DBError /\ Goto(e, [engine[e] EXCEPT !.pc = "finish", !.status = "compensation_failed",
                                                !.current = engine[e].from + 1])
  <2>0. E.from + 1 \in 0 .. N
    <3>1. E.from \in -1 .. N - 1
      BY EngineFields
    <3> QED BY <3>1, SagaConstants
  <2>1. PICK F : F = [E EXCEPT !.pc = "finish", !.status = "compensation_failed",
                               !.current = E.from + 1]
    OBVIOUS
  <2>2. Fields(F, "finish", E.step, E.rolling, E.results, E.from, E.done, E.ok, E.compFailed,
               "compensation_failed", E.from + 1)
    BY <2>0, <2>1, Zenon DEF Fields, Engine, EnginePC, Status, Terminal
  <2>3. Goto(e, F) /\ F.status = "compensation_failed" /\ F.current = E.from + 1
    BY <1>2, <1>4, <2>1, <2>2 DEF Fields
  <2>4. /\ sagaFaults' \in [crashes : Nat, db : Nat, step : Nat] /\ sagaFaults'.db # 0
    BY <1>1, <1>4, FaultTypes
  <2>5. ASSUME SagaInv PROVE F.current = saga.current /\ F.status \in Terminal
    <3>1. E.from = saga.current - 1
      BY <1>0, <1>2, <2>5 DEF SagaInv, EngineOK, EngineKnows, Undoing
    <3> QED BY <1>1, <2>3, <3>1 DEF Terminal
  <2> QED BY <1>0, <1>2, <2>2, <2>3, <2>4, <2>5, FinishBy
<1> QED BY <1>3, <1>4 DEF CompLoad

(* compensateSaga reads the compensations on record: they took effect.     *)
LEMMA CompDoneStep ==
    ASSUME SagaTypes, NEW e \in Engines, CompDone(e)
    PROVE  SagaTypes' /\ (SagaInv /\ ~Overlap => SagaInv')
<1>0. engine[e].pc = "compDone" /\ UNCHANGED << saga, compRow, executed, undone, persisted >>
  BY DEF CompDone, At, History
<1>1. /\ SagaTypeOK /\ StepInRange(e) /\ engine \in [Engines -> Engine] /\ engine[e] \in Engine
      /\ saga \in SagaRow /\ saga # NoRun
      /\ saga.current \in 0 .. N /\ saga.results \in Seq(Steps) /\ saga.status \in Status
  BY <1>0, AtWork
<1>2. PICK E \in Engine : E = engine[e]
  BY <1>1
<1>3. PICK d \in SUBSET Steps :
          /\ Goto(e, [E EXCEPT !.pc = "undo", !.step = E.from, !.done = d])
          /\ NoFault \/ DBError
          /\ d \subseteq Successful
  <2>1. Successful \in SUBSET Steps /\ {} \in SUBSET Steps
    BY DEF Successful
  <2> QED BY <1>2, <2>1, Zenon DEF CompDone
<1>4. PICK F : F = [E EXCEPT !.pc = "undo", !.step = E.from, !.done = d]
  OBVIOUS
<1>5. E.from \in -1 .. N - 1 /\ E.from \in -1 .. N
  <2>1. E.from \in -1 .. N - 1
    BY EngineFields
  <2> QED BY <2>1, SagaConstants
<1>6. Fields(F, "undo", E.from, E.rolling, E.results, E.from, d, E.ok, E.compFailed, E.status,
             E.current)
  BY <1>4, <1>5, Zenon DEF Fields, Engine, EnginePC
<1>7. /\ F \in Engine /\ F.pc = "undo" /\ F.from = E.from /\ F.step = E.from /\ F.done = d
      /\ F.results = E.results
      /\ engine' = [engine EXCEPT ![e] = F] /\ engine'[e] = F
  BY <1>1, <1>3, <1>4, <1>6 DEF Fields, Goto
<1>8. StepInRange(e)'
  BY <1>0, <1>1, <1>5, <1>7 DEF StepInRange
<1>9. /\ sagaFaults' \in [crashes : Nat, db : Nat, step : Nat]
      /\ sagaFaults'.db = 0 => sagaFaults.db = 0
  BY <1>1, <1>3, FaultTypes
<1>10. ASSUME SagaInv PROVE EngineOK(e)'
  <2>1. EngineOK(e) /\ RowOK
    BY <1>10 DEF SagaInv
  <2>2. EngineKnows(e)'
    BY <1>0, <1>2, <1>5, <1>7, <2>1 DEF EngineOK, EngineKnows, Undoing
  <2>3. EngineUncommitted(e)'
    BY <1>0, <1>7, <2>1 DEF EngineOK, EngineUncommitted, Undoing, Committed
  <2>4. EngineUndone(e)'
    <3>1. \A s \in d : undone[s] >= 1
      BY <1>3, <2>1 DEF Successful, RowOK, RecordedUndone
    <3> QED BY <1>0, <1>7, <3>1 DEF EngineUndone
  <2>5. EngineClean(e)'
    <3>1. persisted = 0 .. saga.current - 1 /\ E.from = saga.current - 1
      BY <1>0, <1>1, <1>2, <2>1 DEF RowOK, RowIsRecord, EngineOK, EngineKnows, Undoing
    <3>2. \A k \in persisted : ~(k > E.from)
      BY <1>1, <3>1
    <3>3. UndoneAbove(engine[e].step, engine[e].compFailed)'
      BY <1>0, <1>7, <3>2 DEF UndoneAbove
    <3> QED BY <1>0, <1>7, <1>9, <2>1, <3>3 DEF EngineOK, EngineClean, Undoing
  <2> QED BY <2>2, <2>3, <2>4, <2>5 DEF EngineOK
<1> QED BY <1>0, <1>7, <1>8, <1>9, <1>10, QuietBy

(* A step with nothing to compensate, or already compensated.              *)
LEMMA SkipStep ==
    ASSUME SagaTypes, NEW e \in Engines, Skip(e)
    PROVE  SagaTypes' /\ (SagaInv /\ ~Overlap => SagaInv')
<1>0. /\ engine[e].pc = "undo" /\ UNCHANGED << saga, compRow, executed, undone, persisted >>
      /\ NoFault /\ engine[e].step >= 0
  BY DEF Skip, At, History
<1>1. /\ SagaTypeOK /\ StepInRange(e) /\ engine \in [Engines -> Engine] /\ engine[e] \in Engine
      /\ saga \in SagaRow /\ saga # NoRun
      /\ saga.current \in 0 .. N /\ saga.results \in Seq(Steps) /\ saga.status \in Status
  BY <1>0, AtWork
<1>2. PICK E \in Engine : E = engine[e]
  BY <1>1
<1>3. E.step \in 0 .. N - 1 /\ E.step - 1 \in -1 .. N /\ E.step - 1 \in -1 .. N - 1
  BY <1>0, <1>1, <1>2, SagaConstants DEF StepInRange
<1>4. PICK F : F = [E EXCEPT !.step = E.step - 1]
  OBVIOUS
<1>5. Fields(F, E.pc, E.step - 1, E.rolling, E.results, E.from, E.done, E.ok, E.compFailed,
             E.status, E.current)
  BY <1>3, <1>4, Zenon DEF Fields, Engine, EnginePC
<1>6. /\ F \in Engine /\ F.pc = "undo" /\ F.from = E.from /\ F.step = E.step - 1 /\ F.done = E.done
      /\ F.results = E.results /\ F.compFailed = E.compFailed
      /\ engine' = [engine EXCEPT ![e] = F] /\ engine'[e] = F
  <2>1. engine' = [engine EXCEPT ![e] = F]
    BY <1>2, <1>4 DEF Skip, Goto
  <2> QED BY <1>0, <1>1, <1>2, <1>5, <2>1 DEF Fields
<1>7. StepInRange(e)'
  BY <1>0, <1>1, <1>3, <1>6 DEF StepInRange
<1>8. /\ sagaFaults' \in [crashes : Nat, db : Nat, step : Nat]
      /\ sagaFaults'.db = 0 => sagaFaults.db = 0
  BY <1>0, <1>1, FaultTypes
<1>9. ASSUME SagaInv PROVE EngineOK(e)'
  <2>1. EngineOK(e) /\ RowOK
    BY <1>9 DEF SagaInv
  <2>2. EngineKnows(e)'
    <3>1. E.from = saga.current - 1 /\ E.step <= E.from
      BY <1>0, <1>2, <2>1 DEF EngineOK, EngineKnows, Undoing
    <3>2. E.step - 1 <= E.from
      BY <1>1, <1>3, <3>1
    <3> QED BY <1>0, <1>2, <1>6, <2>1, <3>1, <3>2 DEF EngineOK, EngineKnows, Undoing
  <2>3. EngineUncommitted(e)'
    BY <1>0, <1>6, <2>1 DEF EngineOK, EngineUncommitted, Undoing, Committed
  <2>4. EngineUndone(e)'
    BY <1>0, <1>2, <1>6, <2>1 DEF EngineOK, EngineUndone
  <2>5. EngineClean(e)'
    <3>0. ASSUME sagaFaults'.db = 0 PROVE UndoneAbove(E.step, E.compFailed)
      BY <1>0, <1>2, <1>8, <2>1, <3>0 DEF EngineOK, EngineClean
    <3>1. E.step \in Compensable => undone[E.step] >= 1
      BY <1>2, <1>0, <2>1 DEF Skip, Skipped, EngineOK, EngineUndone
    <3>2. ASSUME sagaFaults'.db = 0 PROVE UndoneAbove(E.step - 1, E.compFailed)
      <4>1. \A k \in persisted : k > E.step - 1 => k > E.step \/ k = E.step
        BY <1>1, <1>3, SagaConstants DEF SagaTypeOK, Steps
      <4> QED BY <3>0, <3>1, <3>2, <4>1 DEF UndoneAbove
    <3>3. sagaFaults'.db = 0 => UndoneAbove(engine[e].step, engine[e].compFailed)'
      BY <1>0, <1>6, <3>2 DEF UndoneAbove
    <3> QED BY <1>0, <1>6, <1>8, <2>1, <3>3 DEF EngineOK, EngineClean, Undoing
  <2> QED BY <2>2, <2>3, <2>4, <2>5 DEF EngineOK
<1> QED BY <1>0, <1>6, <1>7, <1>8, <1>9, QuietBy

(* A compensation fails for good.                                          *)
LEMMA UndoFailsStep ==
    ASSUME SagaTypes, NEW e \in Engines, UndoFails(e)
    PROVE  SagaTypes' /\ (SagaInv /\ ~Overlap => SagaInv')
<1>0. /\ engine[e].pc = "undo" /\ UNCHANGED << saga, compRow, executed, undone, persisted >>
      /\ StepError /\ engine[e].step >= 0
  BY DEF UndoFails, At, History
<1>1. /\ SagaTypeOK /\ StepInRange(e) /\ engine \in [Engines -> Engine] /\ engine[e] \in Engine
      /\ saga \in SagaRow /\ saga # NoRun
      /\ saga.current \in 0 .. N /\ saga.results \in Seq(Steps) /\ saga.status \in Status
  BY <1>0, AtWork
<1>2. PICK E \in Engine : E = engine[e]
  BY <1>1
<1>3. E.step \in Steps
  BY <1>0, <1>1, <1>2, SagaConstants DEF StepInRange, Steps
<1>4. PICK F : F = [E EXCEPT !.pc = "record", !.ok = FALSE, !.compFailed = TRUE]
  OBVIOUS
<1>5. Fields(F, "record", E.step, E.rolling, E.results, E.from, E.done, FALSE, TRUE,
             E.status, E.current)
  BY <1>4, Zenon DEF Fields, Engine, EnginePC
<1>6. /\ F \in Engine /\ F.pc = "record" /\ F.from = E.from /\ F.step = E.step /\ F.done = E.done
      /\ F.results = E.results /\ F.compFailed = TRUE /\ F.ok = FALSE
      /\ engine' = [engine EXCEPT ![e] = F] /\ engine'[e] = F
  BY <1>1, <1>2, <1>4, <1>5 DEF Fields, UndoFails, Goto
<1>7. StepInRange(e)'
  BY <1>0, <1>1, <1>3, <1>6 DEF StepInRange
<1>8. /\ sagaFaults' \in [crashes : Nat, db : Nat, step : Nat]
      /\ sagaFaults'.db = 0 => sagaFaults.db = 0
  BY <1>0, <1>1, FaultTypes
<1>9. ASSUME SagaInv PROVE EngineOK(e)'
  <2>1. EngineOK(e) /\ RowOK
    BY <1>9 DEF SagaInv
  <2>2. EngineKnows(e)'
    BY <1>0, <1>2, <1>6, <2>1 DEF EngineOK, EngineKnows, Undoing
  <2>3. EngineUncommitted(e)'
    BY <1>0, <1>6, <2>1 DEF EngineOK, EngineUncommitted, Undoing, Committed
  <2>4. EngineUndone(e)'
    BY <1>0, <1>2, <1>6, <2>1 DEF EngineOK, EngineUndone
  <2>5. EngineClean(e)'
    BY <1>0, <1>2, <1>6, <1>8, <2>1 DEF EngineOK, EngineClean, Undoing, UndoneAbove
  <2> QED BY <2>2, <2>3, <2>4, <2>5 DEF EngineOK
<1> QED BY <1>0, <1>6, <1>7, <1>8, <1>9, QuietBy

(* The rollback is over: failed only if nothing is left to compensate.     *)
LEMMA AllUndoneStep ==
    ASSUME SagaTypes, NEW e \in Engines, AllUndone(e)
    PROVE  SagaTypes' /\ (SagaInv /\ ~Overlap => SagaInv')
<1>0. /\ engine[e].pc = "undo" /\ UNCHANGED << saga, compRow, executed, undone, persisted >>
      /\ NoFault /\ engine[e].step < 0
  BY DEF AllUndone, At, History
<1>1. /\ SagaTypeOK /\ StepInRange(e) /\ engine \in [Engines -> Engine] /\ engine[e] \in Engine
      /\ saga \in SagaRow /\ saga # NoRun
      /\ saga.current \in 0 .. N /\ saga.results \in Seq(Steps) /\ saga.status \in Status
  BY <1>0, AtWork
<1>2. PICK E \in Engine : E = engine[e]
  BY <1>1
<1>3. E.step = -1
  BY <1>0, <1>1, <1>2, SagaConstants DEF StepInRange
<1>4. E.from + 1 \in 0 .. N
  <2>1. E.from \in -1 .. N - 1
    BY EngineFields
  <2> QED BY <2>1, SagaConstants
<1>5. PICK st \in Status : /\ st = (IF E.compFailed THEN "compensation_failed" ELSE "failed")
                           /\ st \in {"compensation_failed", "failed"}
                           /\ st = "failed" => E.compFailed = FALSE
  <2>1. E.compFailed \in BOOLEAN
    BY EngineFields
  <2> QED BY <2>1 DEF Status, Terminal
<1>6. PICK F : F = [E EXCEPT !.pc = "finish", !.current = E.from + 1, !.status = st]
  OBVIOUS
<1>7. Fields(F, "finish", E.step, E.rolling, E.results, E.from, E.done, E.ok, E.compFailed,
             st, E.from + 1)
  BY <1>4, <1>6, Zenon DEF Fields, Engine, EnginePC
<1>8. Goto(e, F) /\ F.status = st /\ F.current = E.from + 1
  BY <1>2, <1>5, <1>6, <1>7 DEF AllUndone, Fields
<1>9. /\ sagaFaults' \in [crashes : Nat, db : Nat, step : Nat]
      /\ sagaFaults'.db = 0 => sagaFaults.db = 0
  BY <1>0, <1>1, FaultTypes
<1>10. ASSUME SagaInv
       PROVE  /\ F.current = saga.current /\ F.status \in Terminal /\ F.status # "completed"
              /\ sagaFaults'.db = 0 /\ F.status = "failed" => Committed \/ AllCompensated
  <2>1. EngineOK(e)
    BY <1>10 DEF SagaInv
  <2>2. E.from = saga.current - 1
    BY <1>0, <1>2, <2>1 DEF EngineOK, EngineKnows, Undoing
  <2>3. ASSUME sagaFaults'.db = 0, st = "failed" PROVE AllCompensated
    <3>1. UndoneAbove(-1, FALSE)
      BY <1>0, <1>2, <1>3, <1>5, <1>9, <2>1, <2>3 DEF EngineOK, EngineClean
    <3>2. \A k \in persisted : k > -1
      BY <1>1 DEF SagaTypeOK, Steps
    <3> QED BY <3>1, <3>2 DEF UndoneAbove, AllCompensated
  <2> QED BY <1>1, <1>5, <1>8, <2>2, <2>3 DEF Terminal
<1> QED BY <1>0, <1>2, <1>7, <1>8, <1>9, <1>10, FinishBy

(* A compensation takes effect.                                            *)
LEMMA UndoOKStep ==
    ASSUME SagaTypes, NEW e \in Engines, UndoOK(e)
    PROVE  SagaTypes' /\ (SagaInv /\ ~Overlap => SagaInv')
<1>0. engine[e].pc = "undo" /\ engine[e].step >= 0
  BY DEF UndoOK, At
<1>1. /\ SagaTypeOK /\ StepInRange(e) /\ engine \in [Engines -> Engine] /\ engine[e] \in Engine
      /\ saga \in SagaRow /\ saga # NoRun
      /\ saga.current \in 0 .. N /\ saga.results \in Seq(Steps) /\ saga.status \in Status
  BY <1>0, AtWork
<1>2. PICK E \in Engine : E = engine[e]
  BY <1>1
<1>3. PICK j \in Steps : j = E.step
  BY <1>0, <1>1, <1>2, SagaConstants DEF StepInRange, Steps
<1>4. PICK F : F = [E EXCEPT !.pc = "record", !.ok = TRUE]
  OBVIOUS
<1>5. Fields(F, "record", E.step, E.rolling, E.results, E.from, E.done, TRUE, E.compFailed,
             E.status, E.current)
  BY <1>4, Zenon DEF Fields, Engine, EnginePC
<1>6. /\ F \in Engine /\ F.pc = "record" /\ F.from = E.from /\ F.step = E.step /\ F.done = E.done
      /\ F.results = E.results /\ F.compFailed = E.compFailed /\ F.ok = TRUE
      /\ engine' = [engine EXCEPT ![e] = F] /\ engine'[e] = F
  BY <1>1, <1>2, <1>4, <1>5 DEF Fields, UndoOK, Goto
<1>7. /\ UNCHANGED << saga, compRow, executed, persisted, sagaFaults >>
      /\ undone' = [undone EXCEPT ![j] = undone[j] + 1]
  BY <1>2, <1>3 DEF UndoOK, NoFault
<1>8. undone \in [Steps -> Nat] /\ undone' \in [Steps -> Nat] /\ undone'[j] >= 1
      /\ \A s \in Steps : undone'[s] >= undone[s]
  BY <1>1, <1>7 DEF SagaTypeOK
<1>9. StepInRange(e)'
  BY <1>1, <1>3, <1>6, <1>7 DEF StepInRange
<1>10. SagaTypes' /\ \A f \in Engines : f # e => engine'[f] = engine[f]
  <2>1. /\ saga' \in SagaRow \union {NoRun} /\ (saga # NoRun => saga' # NoRun)
        /\ compRow' \in [Steps -> {"none", "ok", "failed"}]
        /\ executed' \in [Steps -> Nat] /\ persisted' \subseteq Steps
        /\ sagaFaults' \in [crashes : Nat, db : Nat, step : Nat]
    BY <1>1, <1>7 DEF SagaTypeOK
  <2> QED BY <1>6, <1>8, <1>9, <2>1, TypesBy
<1>11. ASSUME SagaInv, ~Overlap PROVE SagaInv'
  <2>1. Solo /\ RowOK /\ EngineOK(e)
    BY <1>11 DEF SagaInv
  <2>2. \A f \in Engines : f # e => engine[f].pc = "idle"
    BY <1>0, <2>1, AloneAtWork
  <2>3. persisted \subseteq Steps /\ \A s \in Steps : undone[s] >= 1 => undone'[s] >= 1
    BY <1>1, <1>8 DEF SagaTypeOK
  <2>4. saga.status \notin Terminal
    BY <1>0, <2>1 DEF EngineOK, EngineKnows
  <2>5. RowIsRecord' /\ RowUncommitted' /\ RecordedUndone'
    BY <1>7, <2>1, <2>3 DEF RowOK, RowIsRecord, RowUncommitted, RecordedUndone, Committed
  <2>6. RowClean'
    BY <1>0, <1>1, <1>7, <2>1 DEF RowClean, EngineOK, EngineClean, Undoing
  <2>7. SagaOutcome'
    BY <1>7, <2>4 DEF SagaOutcome, Terminal
  <2>8. EngineKnows(e)'
    BY <1>0, <1>2, <1>6, <1>7, <2>1 DEF EngineOK, EngineKnows, Undoing
  <2>9. EngineUncommitted(e)'
    BY <1>0, <1>6, <1>7, <2>1 DEF EngineOK, EngineUncommitted, Undoing, Committed
  <2>10. EngineUndone(e)'
    <3>1. E.done \subseteq Steps
      BY EngineFields
    <3>2. \A s \in E.done : undone'[s] >= 1
      BY <1>0, <1>2, <2>1, <2>3, <3>1 DEF EngineOK, EngineUndone
    <3> QED BY <1>3, <1>6, <1>8, <3>2 DEF EngineUndone
  <2>11. EngineClean(e)'
    <3>1. ASSUME sagaFaults'.db = 0 PROVE UndoneAbove(E.step, E.compFailed)'
      <4>1. UndoneAbove(E.step, E.compFailed)
        BY <1>0, <1>2, <1>7, <2>1, <3>1 DEF EngineOK, EngineClean
      <4> QED BY <1>7, <2>3, <4>1 DEF UndoneAbove
    <3>2. sagaFaults'.db = 0 => UndoneAbove(engine[e].step, engine[e].compFailed)'
      BY <1>6, <3>1 DEF UndoneAbove
    <3> QED BY <1>0, <1>6, <1>7, <2>1, <3>2 DEF EngineOK, EngineClean, Undoing
  <2>12. RowOK' /\ EngineOK(e)'
    BY <2>5, <2>6, <2>7, <2>8, <2>9, <2>10, <2>11 DEF RowOK, EngineOK
  <2> QED BY <1>10, <1>11, <2>1, <2>2, <2>12, InvBy
<1> QED BY <1>10, <1>11

(* recordCompensation: what the row says of a step is true.                *)
LEMMA RecordStep ==
    ASSUME SagaTypes, NEW e \in Engines, Record(e)
    PROVE  SagaTypes' /\ (SagaInv /\ ~Overlap => SagaInv')
<1>0. engine[e].pc = "record" /\ UNCHANGED << saga, executed, undone, persisted >>
  BY DEF Record, At
<1>1. /\ SagaTypeOK /\ StepInRange(e) /\ engine \in [Engines -> Engine] /\ engine[e] \in Engine
      /\ saga \in SagaRow /\ saga # NoRun
      /\ saga.current \in 0 .. N /\ saga.results \in Seq(Steps) /\ saga.status \in Status
  BY <1>0, AtWork
<1>2. PICK E \in Engine : E = engine[e]
  BY <1>1
<1>3. PICK j \in Steps : j = E.step
  BY <1>0, <1>1, <1>2 DEF StepInRange
<1>4. E.step \in 0 .. N - 1 /\ E.step - 1 \in -1 .. N /\ E.step - 1 \in -1 .. N - 1
  BY <1>3, SagaConstants DEF Steps
<1>5. PICK F : F = [E EXCEPT !.pc = "undo", !.step = E.step - 1]
  OBVIOUS
<1>6. Fields(F, "undo", E.step - 1, E.rolling, E.results, E.from, E.done, E.ok, E.compFailed,
             E.status, E.current)
  BY <1>4, <1>5, Zenon DEF Fields, Engine, EnginePC
<1>7. /\ F \in Engine /\ F.pc = "undo" /\ F.from = E.from /\ F.step = E.step - 1 /\ F.done = E.done
      /\ F.results = E.results /\ F.compFailed = E.compFailed
      /\ engine' = [engine EXCEPT ![e] = F] /\ engine'[e] = F
  <2>1. engine' = [engine EXCEPT ![e] = F]
    BY <1>2, <1>5 DEF Record, Goto
  <2> QED BY <1>1, <1>6, <2>1 DEF Fields
<1>8. PICK outcome \in {"ok", "failed"} :
          /\ outcome = "ok" <=> E.ok = TRUE
          /\ \/ compRow' = Recorded(j, outcome) /\ NoFault
             \/ DBError /\ UNCHANGED compRow
  <2>1. E.ok \in BOOLEAN
    BY EngineFields
  <2>2. CASE E.ok = TRUE
    BY <1>2, <1>3, <2>2 DEF Record
  <2>3. CASE E.ok = FALSE
    BY <1>2, <1>3, <2>3 DEF Record
  <2> QED BY <2>1, <2>2, <2>3
<1>9. /\ sagaFaults' \in [crashes : Nat, db : Nat, step : Nat]
      /\ sagaFaults'.db = 0 => sagaFaults.db = 0 /\ compRow' = Recorded(j, outcome)
  BY <1>1, <1>8, FaultTypes
<1>10. /\ compRow \in [Steps -> {"none", "ok", "failed"}]
       /\ compRow' \in [Steps -> {"none", "ok", "failed"}]
       /\ \A s \in Steps : s # j => compRow'[s] = compRow[s]
       /\ compRow'[j] = "ok" => compRow[j] = "ok" \/ E.ok = TRUE
       /\ sagaFaults'.db = 0 /\ outcome = "failed" => compRow[j] = "ok" \/ compRow'[j] = "failed"
       /\ \A s \in Steps : compRow[s] = "failed" => compRow'[s] = "failed"
  BY <1>1, <1>8, <1>9 DEF SagaTypeOK, Recorded
<1>11. StepInRange(e)'
  BY <1>0, <1>1, <1>4, <1>7 DEF StepInRange
<1>12. SagaTypes' /\ \A f \in Engines : f # e => engine'[f] = engine[f]
  <2>1. /\ saga' \in SagaRow \union {NoRun} /\ (saga # NoRun => saga' # NoRun)
        /\ executed' \in [Steps -> Nat] /\ undone' \in [Steps -> Nat] /\ persisted' \subseteq Steps
    BY <1>0, <1>1 DEF SagaTypeOK
  <2> QED BY <1>7, <1>9, <1>10, <1>11, <2>1, TypesBy
<1>13. ASSUME SagaInv, ~Overlap PROVE SagaInv'
  <2>1. Solo /\ RowOK /\ EngineOK(e)
    BY <1>13 DEF SagaInv
  <2>2. \A f \in Engines : f # e => engine[f].pc = "idle"
    BY <1>0, <2>1, AloneAtWork
  <2>3. E.ok = TRUE => undone[j] >= 1
    BY <1>0, <1>2, <1>3, <2>1 DEF EngineOK, EngineUndone
  <2>4. RecordedUndone'
    BY <1>0, <1>10, <2>1, <2>3 DEF RowOK, RecordedUndone
  <2>5. RowIsRecord' /\ RowUncommitted' /\ RowClean' /\ SagaOutcome'
    BY <1>0, <1>9, <2>1 DEF RowOK, RowIsRecord, RowUncommitted, Committed, RowClean, NothingUndone,
                            SagaOutcome
  <2>6. EngineKnows(e)'
    <3>1. E.from = saga.current - 1 /\ E.step <= E.from
      BY <1>0, <1>2, <2>1 DEF EngineOK, EngineKnows, Undoing
    <3>2. E.step - 1 <= E.from
      BY <1>1, <1>4, <3>1
    <3> QED BY <1>0, <1>2, <1>7, <2>1, <3>1, <3>2 DEF EngineOK, EngineKnows, Undoing
  <2>7. EngineUncommitted(e)'
    BY <1>0, <1>7, <2>1 DEF EngineOK, EngineUncommitted, Undoing, Committed
  <2>8. EngineUndone(e)'
    BY <1>0, <1>2, <1>7, <2>1 DEF EngineOK, EngineUndone
  <2>9. EngineClean(e)'
    <3>1. ASSUME sagaFaults'.db = 0
          PROVE  UndoneAbove(E.step, E.compFailed) /\ (E.ok = TRUE \/ E.compFailed = TRUE)
      BY <1>0, <1>2, <1>9, <2>1, <3>1 DEF EngineOK, EngineClean
    <3>2. ASSUME sagaFaults'.db = 0
          PROVE  /\ undone[j] >= 1 \/ compRow'[j] = "failed"
                 /\ undone[j] >= 1 \/ E.compFailed = TRUE
      <4>1. compRow[j] = "ok" => undone[j] >= 1
        BY <2>1 DEF RowOK, RecordedUndone
      <4> QED BY <1>8, <1>10, <2>3, <3>1, <3>2, <4>1
    <3>3. ASSUME sagaFaults'.db = 0, NEW k \in persisted, k \in Compensable, k > E.step - 1
          PROVE  /\ undone[k] >= 1 \/ compRow'[k] = "failed"
                 /\ undone[k] >= 1 \/ E.compFailed = TRUE
      <4>1. k \in Steps
        BY <1>1 DEF SagaTypeOK
      <4>2. k > E.step \/ k = E.step
        BY <1>4, <3>3, <4>1, SagaConstants DEF Steps
      <4> QED BY <1>3, <1>10, <3>1, <3>2, <3>3, <4>1, <4>2 DEF UndoneAbove
    <3>4. sagaFaults'.db = 0 => UndoneAbove(engine[e].step, engine[e].compFailed)'
      BY <1>0, <1>7, <3>3 DEF UndoneAbove
    <3> QED BY <1>0, <1>7, <1>9, <2>1, <3>4 DEF EngineOK, EngineClean, Undoing
  <2>10. RowOK' /\ EngineOK(e)'
    BY <2>4, <2>5, <2>6, <2>7, <2>8, <2>9 DEF RowOK, EngineOK
  <2> QED BY <1>12, <1>13, <2>1, <2>2, <2>10, InvBy
<1> QED BY <1>12, <1>13

(* The lease runs out: nothing but the flag changes.                       *)
LEMMA LeaseStep ==
    ASSUME SagaTypes, LeaseRunsOut
    PROVE  SagaTypes' /\ (SagaInv => SagaInv')
<1>1. saga # NoRun /\ saga \in SagaRow
  BY DEF LeaseRunsOut, SagaTypes, SagaTypeOK
<1>2. /\ saga' \in SagaRow /\ saga' # NoRun /\ saga'.status = saga.status
      /\ saga'.current = saga.current /\ saga'.results = saga.results
  BY <1>1, LeaseFields, NoRunIsNone DEF LeaseRunsOut
<1>3. UNCHANGED << compRow, engine, executed, undone, persisted, sagaFaults >>
  BY DEF LeaseRunsOut, History
<1>4. SagaTypes'
  <2>1. SagaTypeOK'
    BY <1>2, <1>3 DEF SagaTypes, SagaTypeOK
  <2>2. ASSUME NEW e \in Engines PROVE StepInRange(e)'
    BY <1>2, <1>3 DEF SagaTypes, StepInRange
  <2> QED BY <2>1, <2>2 DEF SagaTypes
<1>5. ASSUME SagaInv PROVE SagaInv'
  <2>1. RowOK'
    BY <1>1, <1>2, <1>3, <1>5 DEF SagaInv, RowOK, RowIsRecord, RowUncommitted, Committed,
          RecordedUndone, RowClean, NothingUndone, SagaOutcome
  <2>2. ASSUME NEW e \in Engines PROVE EngineOK(e)'
    <3>1. EngineOK(e)
      BY <1>5 DEF SagaInv
    <3>2. EngineKnows(e)'
      BY <1>1, <1>2, <1>3, <3>1 DEF EngineOK, EngineKnows
    <3>3. EngineUncommitted(e)' /\ EngineUndone(e)'
      BY <1>3, <3>1 DEF EngineOK, EngineUncommitted, EngineUndone, Committed
    <3>4. EngineClean(e)'
      BY <1>2, <1>3, <3>1 DEF EngineOK, EngineClean, UndoneAbove, Committed, AllCompensated
    <3> QED BY <3>2, <3>3, <3>4 DEF EngineOK
  <2>3. Solo'
    BY <1>3, <1>5 DEF SagaInv, Solo
  <2> QED BY <1>4, <2>1, <2>2, <2>3 DEF SagaInv
<1> QED BY <1>4, <1>5

(* A step of somebody else.                                                *)
LEMMA StutterKeepsSaga ==
    ASSUME SagaTypes, UNCHANGED sagaVars
    PROVE  SagaTypes' /\ (SagaInv => SagaInv')
<1>1. SagaTypes'
  BY DEF sagaVars, SagaTypes, SagaTypeOK, StepInRange
<1>2. ASSUME SagaInv PROVE SagaInv'
  <2>1. RowOK' /\ Solo'
    BY <1>2 DEF SagaInv, sagaVars, Solo, RowOK, RowIsRecord, RowUncommitted, Committed,
          RecordedUndone, RowClean, NothingUndone, SagaOutcome
  <2>2. ASSUME NEW e \in Engines PROVE EngineOK(e)'
    BY <1>2 DEF SagaInv, sagaVars, EngineOK, EngineKnows, EngineUncommitted, EngineUndone,
          EngineClean, UndoneAbove, Committed, AllCompensated
  <2> QED BY <1>1, <2>1, <2>2 DEF SagaInv
<1> QED BY <1>1, <1>2

(* Every step keeps the types, and the invariant where calls do not overlap. *)
LEMMA SagaStep ==
    ASSUME SagaTypes, [SagaNext]_sagaVars
    PROVE  SagaTypes' /\ (SagaInv /\ ~Overlap => SagaInv')
<1> DEFINE Goal == SagaTypes' /\ (SagaInv /\ ~Overlap => SagaInv')
<1>1. ASSUME NEW e \in Engines, RunNew(e) \/ RunExisting(e) \/ Recover(e) PROVE Goal
  BY <1>1, StartStep
<1>2. ASSUME NEW e \in Engines, EngineDies(e) PROVE Goal
  BY <1>2, DieStep
<1>3. ASSUME NEW e \in Engines, SagaWork(e) PROVE Goal
  <2> USE <1>3
  <2>1. CASE Insert(e) BY <2>1, InsertStep
  <2>2. CASE ExecuteOK(e) BY <2>2, ExecuteOKStep
  <2>3. CASE ExecuteFails(e) BY <2>3, ExecuteFailsStep
  <2>4. CASE AllExecuted(e) BY <2>4, AllExecutedStep
  <2>5. CASE PersistLoad(e) BY <2>5, PersistLoadStep
  <2>6. CASE PersistWrite(e) BY <2>6, PersistWriteStep
  <2>7. CASE Rollback(e) BY <2>7, RollbackStep
  <2>8. CASE CompLoad(e) BY <2>8, CompLoadStep
  <2>9. CASE CompDone(e) BY <2>9, CompDoneStep
  <2>10. CASE Skip(e) BY <2>10, SkipStep
  <2>11. CASE UndoOK(e) BY <2>11, UndoOKStep
  <2>12. CASE UndoFails(e) BY <2>12, UndoFailsStep
  <2>13. CASE Record(e) BY <2>13, RecordStep
  <2>14. CASE AllUndone(e) BY <2>14, AllUndoneStep
  <2>15. CASE Finish(e) BY <2>15, FinishStep
  <2> QED BY <1>3, <2>1, <2>2, <2>3, <2>4, <2>5, <2>6, <2>7, <2>8, <2>9, <2>10, <2>11, <2>12, <2>13,
             <2>14, <2>15 DEF SagaWork
<1>4. ASSUME LeaseRunsOut PROVE Goal
  BY <1>4, LeaseStep
<1>5. ASSUME UNCHANGED sagaVars PROVE Goal
  BY <1>5, StutterKeepsSaga
<1> QED BY <1>1, <1>2, <1>3, <1>4, <1>5 DEF SagaNext

(* The one step that executes.                                              *)
LEMMA OnlyExecuteExecutes ==
    ASSUME [SagaNext]_sagaVars, executed' # executed
    PROVE  \E e \in Engines : ExecuteOK(e)
BY DEF SagaNext, SagaWork, sagaVars, History, RunNew, RunExisting, Recover, Insert, ExecuteFails,
       AllExecuted, PersistLoad, PersistWrite, Rollback, CompLoad, CompDone, Skip, UndoOK, UndoFails,
       Record, AllUndone, Finish, EngineDies, LeaseRunsOut

(* The one step that compensates.                                          *)
LEMMA OnlyUndoUndoes ==
    ASSUME [SagaNext]_sagaVars, undone' # undone
    PROVE  \E e \in Engines : UndoOK(e)
BY DEF SagaNext, SagaWork, sagaVars, History, RunNew, RunExisting, Recover, Insert, ExecuteFails,
       AllExecuted, PersistLoad, PersistWrite, Rollback, CompLoad, CompDone, Skip, ExecuteOK,
       UndoFails, Record, AllUndone, Finish, EngineDies, LeaseRunsOut

(* The step a call executes is not persisted.                              *)
LEMMA NoSecondExecution ==
    ASSUME SagaInv, [SagaNext]_sagaVars
    PROVE  \A s \in persisted : executed'[s] = executed[s]
<1>1. CASE executed' # executed
  <2>1. PICK e \in Engines : ExecuteOK(e)
    BY <1>1, OnlyExecuteExecutes
  <2>2. engine[e].pc = "execute" /\ EngineOK(e) /\ RowOK /\ SagaTypes
    BY <2>1 DEF ExecuteOK, At, SagaInv
  <2>3. saga # NoRun /\ saga.current \in 0 .. N
    BY <2>2, AtWork
  <2>4. engine[e].step = saga.current /\ persisted = 0 .. saga.current - 1
    BY <2>2, <2>3 DEF EngineOK, EngineKnows, RowOK, RowIsRecord
  <2>5. engine[e].step \notin persisted
    BY <2>3, <2>4
  <2>6. executed' = [executed EXCEPT ![engine[e].step] = executed[engine[e].step] + 1]
    BY <2>1 DEF ExecuteOK
  <2>7. persisted \subseteq Steps /\ executed \in [Steps -> Nat]
    BY <2>2 DEF SagaTypes, SagaTypeOK
  <2> QED BY <2>5, <2>6, <2>7
<1> QED BY <1>1

(* A call compensates from the last persisted step down, without a pivot.  *)
LEMMA UndoneInOrder ==
    ASSUME SagaInv, [SagaNext]_sagaVars, NEW s \in Steps, undone'[s] # undone[s]
    PROVE  /\ persisted \intersect Pivots = {}
           /\ sagaFaults.db = 0 =>
                \A k \in persisted \intersect Compensable :
                    k > s => undone[k] >= 1 \/ compRow[k] = "failed"
<1>1. PICK e \in Engines : UndoOK(e)
  BY OnlyUndoUndoes
<1>2. engine[e].pc = "undo" /\ EngineOK(e)
  BY <1>1 DEF UndoOK, At, SagaInv
<1>3. s = engine[e].step
  <2>1. undone \in [Steps -> Nat]
    BY DEF SagaInv, SagaTypes, SagaTypeOK
  <2>2. undone' = [undone EXCEPT ![engine[e].step] = undone[engine[e].step] + 1]
    BY <1>1 DEF UndoOK
  <2> QED BY <2>1, <2>2
<1>4. ~Committed
  BY <1>2 DEF EngineOK, EngineUncommitted, Undoing
<1>5. sagaFaults.db = 0 => UndoneAbove(s, engine[e].compFailed)
  BY <1>2, <1>3 DEF EngineOK, EngineClean
<1> QED BY <1>4, <1>5 DEF Committed, UndoneAbove

(* The results a call holds are the row's, one for each step below it.     *)
LEMMA CompensatesOwnResult == SagaInv => OwnResult
<1> SUFFICES ASSUME SagaInv, NEW e \in Engines, engine[e].pc = "undo", engine[e].step >= 0
             PROVE  /\ engine[e].step < Len(engine[e].results)
                    /\ engine[e].results[engine[e].step + 1] = engine[e].step
  BY DEF OwnResult, At
<1>1. SagaTypes /\ EngineOK(e) /\ RowOK
  BY DEF SagaInv
<1>2. saga # NoRun /\ saga.current \in 0 .. N /\ StepInRange(e)
  BY <1>1, AtWork
<1>3. /\ engine[e].results = saga.results /\ engine[e].from = saga.current - 1
      /\ engine[e].step <= engine[e].from /\ engine[e].step \in -1 .. N - 1
  BY <1>1, <1>2 DEF EngineOK, EngineKnows, Undoing, StepInRange
<1>4. engine[e].step + 1 \in 1 .. saga.current
  BY <1>2, <1>3, SagaConstants
<1>5. /\ Len(saga.results) = saga.current
      /\ \A j \in 1 .. saga.current : saga.results[j] = j - 1
  BY <1>1, <1>2 DEF RowOK, RowIsRecord
<1>6. saga.results[engine[e].step + 1] = engine[e].step
  BY <1>3, <1>4, <1>5
<1> QED BY <1>2, <1>3, <1>4, <1>5, <1>6

(* The row, the compensation records and every call stay in their types,   *)
(* however many calls of RunSaga and RecoverStuckSagas overlap.            *)
THEOREM SagaTypeCorrect == SagaSpec => []SagaTypeOK
<1>1. SagaInit => SagaTypes
  BY SagaInvInit DEF SagaInv
<1>2. SagaTypes /\ [SagaNext]_sagaVars => SagaTypes'
  BY SagaStep
<1>3. SagaTypes => SagaTypeOK
  BY DEF SagaTypes
<1> QED BY <1>1, <1>2, <1>3, PTL DEF SagaSpec

(* The invariant, where one call at a time works on a run.                 *)
LEMMA SagaInvariant ==
    ASSUME ~Overlap
    PROVE  SagaSpec => []SagaInv
<1>1. SagaInit => SagaInv
  BY SagaInvInit
<1>2. SagaInv /\ [SagaNext]_sagaVars => SagaInv'
  <2>1. SagaInv => SagaTypes
    BY DEF SagaInv
  <2> QED BY <2>1, SagaStep
<1> QED BY <1>1, <1>2, PTL DEF SagaSpec

(* The verdict of a saga is true of the outside world (runSaga and the     *)
(* terminal updateSagaStatus calls).                                       *)
THEOREM VerdictIsTrue ==
    ASSUME ~Overlap
    PROVE  SagaSpec => []SagaOutcome
<1>1. SagaInv => SagaOutcome
  BY DEF SagaInv, RowOK
<1>2. SagaSpec => []SagaInv
  BY SagaInvariant
<1> QED BY <1>1, <1>2, PTL

(* A compensation gets the result of its own step, whichever calls         *)
(* wrote the state document (persistSagaProgress, compensateSaga).         *)
THEOREM CompensationGetsItsResult ==
    ASSUME ~Overlap
    PROVE  SagaSpec => []OwnResult
<1>1. SagaSpec => []SagaInv
  BY SagaInvariant
<1> QED BY <1>1, CompensatesOwnResult, PTL

(* A step whose progress was written is never executed again, whoever      *)
(* died and whichever statement failed (runSaga starts at current_step).   *)
THEOREM PersistedStepsStayExecuted ==
    ASSUME ~Overlap
    PROVE  SagaSpec => NeverReexecuted
<1>1. SagaInv /\ [SagaNext]_sagaVars => [\A s \in persisted : executed'[s] = executed[s]]_sagaVars
  BY NoSecondExecution
<1>2. SagaSpec => []SagaInv
  BY SagaInvariant
<1> QED BY <1>1, <1>2, PTL DEF SagaSpec, NeverReexecuted

(* Rollback runs backwards and never past a committed pivot, through any   *)
(* crash and recovery (compensateSaga).                                    *)
THEOREM RollbackInReverse ==
    ASSUME ~Overlap
    PROVE  SagaSpec => ReverseOrder
<1>1. SagaInv /\ [SagaNext]_sagaVars =>
        [\A s \in Steps : undone'[s] # undone[s] =>
          /\ persisted \intersect Pivots = {}
          /\ sagaFaults.db = 0 =>
                \A k \in persisted \intersect Compensable :
                    k > s => undone[k] >= 1 \/ compRow[k] = "failed"]_sagaVars
  BY UndoneInOrder
<1>2. SagaSpec => []SagaInv
  BY SagaInvariant
<1> QED BY <1>1, <1>2, PTL DEF SagaSpec, ReverseOrder

-----------------------------------------------------------------------------
(* The leased scheduler.  What a claim writes and what the tick remembers  *)
(* of its clock add up to LeaseTTL for as long as the tick lives, so its   *)
(* lease has time left whenever another replica looks, however old the     *)
(* clock is that replica goes by.                                          *)

(* Only a scheduler that was started has ticks.                            *)
TicksOfStarted ==
    \A r \in Replicas, s \in Slots :
        replica[r].pc \in {"down", "adopt", "idle"} => TickAt(r, s, "none")

(* A tick is over before FireTimeout.                                      *)
TicksInTime == \A r \in Replicas, s \in Slots : tick[r][s].age < FireTimeout

(* Serials are given out once: a tick never knows one that is to come.     *)
SerialsGiven ==
    /\ \A s \in Slots : slot[s] # NoSlot => slot[s].serial <= scheduled
    /\ \A r \in Replicas, s \in Slots : tick[r][s].serial <= scheduled

(* From its claim to its dispatch a tick has its row's lease, and the time *)
(* that is left on it is what the tick has not used up.                    *)
LeaseOfTick ==
    FireTimeout <= LeaseTTL =>
        \A r \in Replicas, s \in Slots :
            (TickAt(r, s, "dispatch") /\ slot[s] # NoSlot
                /\ slot[s].serial = tick[r][s].serial) =>
                    /\ slot[s].owner = r
                    /\ slot[s].left + tick[r][s].age = LeaseTTL

SchedInv == SchedTypeOK /\ TicksOfStarted /\ TicksInTime /\ SerialsGiven /\ LeaseOfTick

(* No rows, no replicas, no ticks.                                         *)
LEMMA SchedInvInit == SchedInit => SchedInv
<1> SUFFICES ASSUME SchedInit PROVE SchedInv
  OBVIOUS
<1>1. Down \in Replica
  BY SchedulerConstants DEF Down, Replica, Slots
<1>2. NoTick \in TickState /\ NoTick.age < FireTimeout /\ NoTick.serial = 0 /\ NoTick.pc = "none"
  BY SchedulerConstants DEF NoTick, TickState
<1>3. SchedTypeOK
  BY <1>1, <1>2 DEF SchedInit, SchedTypeOK
<1> QED
  BY <1>2, <1>3
     DEF SchedInit, SchedInv, TicksOfStarted, TicksInTime, SerialsGiven, LeaseOfTick, TickAt

(* What a claim writes into a row.                                         *)
LEMMA ClaimedRow ==
    ASSUME NEW was \in SlotRow, NEW r \in Replicas, NEW age \in 0 .. FireTimeout,
           NEW new, new = [was EXCEPT !.owner = r, !.left = LeaseTTL - age]
    PROVE  /\ new \in SlotRow /\ new # NoSlot
           /\ new.owner = r /\ new.left = LeaseTTL - age /\ new.serial = was.serial
<1>1. LeaseTTL - age \in -FireTimeout .. LeaseTTL
  BY SchedulerConstants
<1>2. new \in SlotRow
  BY <1>1, Zenon DEF SlotRow
<1> QED BY <1>2, NoSlotIsNone DEF SlotRow

(* What time does to a row.                                                *)
LEMMA LoweredRow ==
    ASSUME NEW was \in SlotRow
    PROVE  /\ Lower(was) \in SlotRow /\ Lower(was) # NoSlot
           /\ Lower(was).owner = was.owner /\ Lower(was).serial = was.serial
           /\ was.left > 0 => Lower(was).left = was.left - 1
<1>0. was # NoSlot /\ was.left \in -FireTimeout .. LeaseTTL
  BY NoSlotIsNone DEF SlotRow
<1>1. CASE was.left = -FireTimeout
  BY <1>0, <1>1, SchedulerConstants DEF Lower
<1>2. CASE was.left # -FireTimeout
  <2>1. was.left - 1 \in -FireTimeout .. LeaseTTL
    BY <1>0, <1>2, SchedulerConstants
  <2>2. Lower(was) = [was EXCEPT !.left = was.left - 1]
    BY <1>0, <1>2 DEF Lower
  <2>3. Lower(was) \in SlotRow
    BY <2>1, <2>2, Zenon DEF SlotRow
  <2> QED BY <2>2, <2>3, NoSlotIsNone DEF SlotRow
<1> QED BY <1>1, <1>2

(* What time does to a tick.                                               *)
LEMMA OlderTick ==
    ASSUME NEW t \in TickState, t.age < FireTimeout
    PROVE  /\ Older(t) \in TickState /\ Older(t).age < FireTimeout
           /\ Older(t) = NoTick \/ (/\ Older(t).pc = t.pc /\ Older(t).serial = t.serial
                                    /\ Older(t).age = t.age + 1)
<1>1. NoTick \in TickState /\ NoTick.age < FireTimeout
  BY SchedulerConstants DEF NoTick, TickState
<1>2. CASE t.pc = "none" \/ Late(t)
  BY <1>1, <1>2 DEF Older
<1>3. CASE ~(t.pc = "none" \/ Late(t))
  BY <1>3, SchedulerConstants DEF Older, Late, TickState
<1> QED BY <1>2, <1>3

(* One tick of the table of ticks changes.                                 *)
LEMMA TickTypes ==
    ASSUME NEW t \in [Replicas -> [Slots -> TickState]], NEW r \in Replicas, NEW s \in Slots,
           NEW new \in TickState
    PROVE  /\ [t EXCEPT ![r][s] = new] \in [Replicas -> [Slots -> TickState]]
           /\ \A o \in Replicas, p \in Slots :
                 [t EXCEPT ![r][s] = new][o][p] = IF o = r /\ p = s THEN new ELSE t[o][p]
OBVIOUS

(* What replicas remember keeps its type.                                  *)
LEMMA ReplicaFields ==
    /\ Down \in Replica
    /\ \A d \in Replica :
          /\ d.todo \in SUBSET Slots /\ d.entries \in SUBSET Slots
          /\ d.age \in 0 .. FireTimeout
          /\ d.age + 1 < FireTimeout => [d EXCEPT !.age = d.age + 1] \in Replica
<1>1. 0 \in 0 .. FireTimeout /\ 0 \in 0 .. MaxSlot /\ {} \in SUBSET Slots
  BY SchedulerConstants
<1>2. \A n \in 0 .. FireTimeout : n + 1 < FireTimeout => n + 1 \in 0 .. FireTimeout
  BY SchedulerConstants
<1> QED
  BY <1>1, <1>2, Zenon DEF Replica, Down

(* What a replica is set to has its type.                                  *)
LEMMA ReplicaRecords ==
    ASSUME NEW d \in Replica, NEW E \in SUBSET Slots, NEW T \in SUBSET Slots, NEW s \in Slots
    PROVE  /\ [d EXCEPT !.todo = T, !.entries = E] \in Replica
           /\ [d EXCEPT !.todo = T] \in Replica
           /\ [d EXCEPT !.entries = E] \in Replica
           /\ [d EXCEPT !.next = s, !.entries = E] \in Replica
<1>1. s \in 0 .. MaxSlot
  BY SchedulerConstants DEF Slots
<1> QED
  BY <1>1, Zenon DEF Replica

(* Every step keeps the types.                                             *)
LEMMA SchedTypeStep == SchedTypeOK /\ TicksInTime /\ [SchedNext]_schedVars => SchedTypeOK'
<1> SUFFICES ASSUME SchedTypeOK, TicksInTime, [SchedNext]_schedVars PROVE SchedTypeOK'
  OBVIOUS
<1> USE DEF SchedTypeOK
<1>a. /\ 0 \in 0 .. FireTimeout /\ NoTick \in TickState
      /\ [NoTick EXCEPT !.pc = "claim"] \in TickState
  BY SchedulerConstants DEF NoTick, TickState
<1>b. TickFault \/ NoTickFault => schedFaults' \in [deaths : Nat, faults : Nat]
  BY DEF TickFault, NoTickFault
<1>1. ASSUME NEW r \in Replicas, Open(r) PROVE SchedTypeOK'
  <2>1. [Down EXCEPT !.pc = "adopt", !.todo = {s \in Slots : Adoptable(r, s)}] \in Replica
    <3> DEFINE T == {s \in Slots : Adoptable(r, s)}
    <3>1. T \in SUBSET Slots /\ 0 \in 0 .. FireTimeout /\ 0 \in 0 .. MaxSlot /\ {} \in SUBSET Slots
      BY SchedulerConstants
    <3> HIDE DEF T
    <3>2. [Down EXCEPT !.pc = "adopt", !.todo = T] \in Replica
      BY <3>1, Zenon DEF Replica, Down
    <3> QED BY <3>2 DEF T
  <2> QED BY <1>1, <2>1 DEF Open
<1>2. ASSUME NEW r \in Replicas, NEW s \in Slots, AdoptRow(r, s) PROVE SchedTypeOK'
  <2>1. replica[r] \in Replica
    OBVIOUS
  <2>2. replica[r].todo \in SUBSET Slots /\ replica[r].entries \in SUBSET Slots
        /\ replica[r].age \in 0 .. FireTimeout
    BY <2>1, ReplicaFields
  <2>3. /\ [replica[r] EXCEPT !.todo = replica[r].todo \ {s},
                              !.entries = replica[r].entries \union {s}] \in Replica
        /\ [replica[r] EXCEPT !.todo = replica[r].todo \ {s}] \in Replica
    BY <2>1, <2>2, ReplicaRecords
  <2>4. replica' \in [Replicas -> Replica]
    BY <1>2, <2>3 DEF AdoptRow
  <2>5. slot' \in [Slots -> SlotRow \union {NoSlot}]
    <3>1. CASE Claimable(r, s, replica[r].age)
      <4>1. slot[s] \in SlotRow
        BY <3>1 DEF Claimable
      <4>2. [slot[s] EXCEPT !.owner = r, !.left = LeaseTTL - replica[r].age] \in SlotRow
        BY <2>2, <4>1, ClaimedRow
      <4> QED BY <1>2, <3>1, <4>2 DEF AdoptRow, Claimed
    <3>2. CASE ~Claimable(r, s, replica[r].age)
      BY <1>2, <3>2 DEF AdoptRow
    <3> QED BY <3>1, <3>2
  <2> QED BY <1>2, <2>4, <2>5 DEF AdoptRow
<1>3. ASSUME NEW r \in Replicas, Adopted(r) PROVE SchedTypeOK'
  <2>1. [replica[r] EXCEPT !.pc = "idle", !.age = 0] \in Replica
    BY <1>a, Zenon DEF Replica
  <2> QED BY <1>3, <2>1 DEF Adopted
<1>4. ASSUME NEW r \in Replicas, Die(r) PROVE SchedTypeOK'
  <2>1. replica' \in [Replicas -> Replica]
    BY <1>4, ReplicaFields DEF Die
  <2>2. slot' \in [Slots -> SlotRow \union {NoSlot}]
    <3>1. \A was \in SlotRow : [was EXCEPT !.owner = Gone] \in SlotRow
      BY Zenon DEF SlotRow
    <3> QED BY <1>4, <3>1 DEF Die
  <2>3. tick' \in [Replicas -> [Slots -> TickState]]
    BY <1>4, <1>a DEF Die
  <2>4. schedFaults' \in [deaths : Nat, faults : Nat]
    BY <1>4 DEF Die
  <2> QED BY <1>4, <2>1, <2>2, <2>3, <2>4 DEF Die
<1>5. ASSUME NEW r \in Replicas, Schedule(r) PROVE SchedTypeOK'
  <2>1. PICK s \in Slots :
           /\ slot' = [slot EXCEPT ![s] =
                          [owner |-> r, left |-> LeaseTTL, serial |-> scheduled + 1]]
           /\ replica' = [replica EXCEPT ![r].next = s, ![r].entries = @ \union {s}]
    BY <1>5 DEF Schedule
  <2>2. [owner |-> r, left |-> LeaseTTL, serial |-> scheduled + 1] \in SlotRow
    BY SchedulerConstants DEF SlotRow
  <2>3. replica[r].entries \union {s} \in SUBSET Slots
    BY ReplicaFields
  <2>4. [replica[r] EXCEPT !.next = s, !.entries = replica[r].entries \union {s}] \in Replica
    BY <2>3, ReplicaRecords
  <2>5. slot' \in [Slots -> SlotRow \union {NoSlot}]
    BY <2>1, <2>2
  <2>6. replica' \in [Replicas -> Replica]
    BY <2>1, <2>4
  <2>7. scheduled' \in Nat /\ UNCHANGED << dismissed, tick, schedFaults >>
    BY <1>5 DEF Schedule
  <2> QED BY <2>5, <2>6, <2>7
<1>6. ASSUME NEW r \in Replicas, NEW s \in Slots, RemoveEntry(r, s) PROVE SchedTypeOK'
  <2>1. replica[r].entries \ {s} \in SUBSET Slots
    BY ReplicaFields
  <2>2. [replica[r] EXCEPT !.entries = replica[r].entries \ {s}] \in Replica
    BY <2>1, ReplicaRecords
  <2>3. dismissed' \subseteq Nat
    BY <1>6 DEF RemoveEntry, SlotRow
  <2>4. slot' \in [Slots -> SlotRow \union {NoSlot}]
    BY <1>6 DEF RemoveEntry
  <2> QED BY <1>6, <1>b, <2>2, <2>3, <2>4 DEF RemoveEntry
<1>7. ASSUME NEW r \in Replicas, Start(r) \/ Stop(r) \/ Stopped(r) PROVE SchedTypeOK'
  <2>1. /\ [replica[r] EXCEPT !.pc = "running"] \in Replica
        /\ [replica[r] EXCEPT !.pc = "stopping", !.canceled = TRUE] \in Replica
        /\ [replica[r] EXCEPT !.pc = "idle"] \in Replica
    BY Zenon DEF Replica
  <2> QED BY <1>7, <2>1 DEF Start, Stop, Stopped
<1>8. ASSUME NEW r \in Replicas, NEW s \in Slots, TickLoad(r, s) PROVE SchedTypeOK'
  BY <1>8, <1>a DEF TickLoad, TickGoto
<1>9. ASSUME NEW r \in Replicas, NEW s \in Slots, TickClaim(r, s) PROVE SchedTypeOK'
  <2>1. tick[r][s] \in TickState /\ tick[r][s].age \in 0 .. FireTimeout
    BY DEF TickState
  <2>2. CASE Claimable(r, s, tick[r][s].age)
    <3>1. slot[s] \in SlotRow
      BY <2>2 DEF Claimable
    <3>2. slot' \in [Slots -> SlotRow \union {NoSlot}]
      <4>1. [slot[s] EXCEPT !.owner = r, !.left = LeaseTTL - tick[r][s].age] \in SlotRow
        BY <2>1, <3>1, ClaimedRow
      <4> QED BY <1>9, <2>2, <4>1 DEF TickClaim, Claimed
    <3>3. [pc |-> "dispatch", age |-> tick[r][s].age, serial |-> slot[s].serial] \in TickState
      BY <2>1, <3>1 DEF TickState, SlotRow
    <3>4. tick' \in [Replicas -> [Slots -> TickState]]
      <4>1. TickGoto(r, s, [pc |-> "dispatch", age |-> tick[r][s].age,
                            serial |-> slot[s].serial])
        BY <1>9, <2>2 DEF TickClaim
      <4> QED BY <3>3, <4>1, TickTypes DEF TickGoto
    <3> QED BY <1>9, <1>b, <3>2, <3>4 DEF TickClaim
  <2>3. CASE ~Claimable(r, s, tick[r][s].age)
    <3>1. TickGoto(r, s, NoTick) /\ NoTickFault /\ UNCHANGED slot
      BY <1>9, <2>3 DEF TickClaim
    <3>2. tick' \in [Replicas -> [Slots -> TickState]]
      BY <1>a, <3>1, TickTypes DEF TickGoto
    <3> QED BY <1>9, <1>b, <3>1, <3>2 DEF TickClaim
  <2> QED BY <2>2, <2>3
<1>10. ASSUME NEW r \in Replicas, NEW s \in Slots, Dispatch(r, s) \/ TickEnds(r, s)
       PROVE  SchedTypeOK'
  <2>1. schedFaults' \in [deaths : Nat, faults : Nat]
    BY <1>10, <1>b DEF Dispatch, TickEnds
  <2>2. tick' \in [Replicas -> [Slots -> TickState]]
    <3>1. TickGoto(r, s, NoTick)
      BY <1>10 DEF Dispatch, TickEnds
    <3> QED BY <1>a, <3>1, TickTypes DEF TickGoto
  <2> QED BY <1>10, <2>1, <2>2 DEF Dispatch, TickEnds
<1>11. CASE TimePasses
  <2>1. slot' \in [Slots -> SlotRow \union {NoSlot}]
    <3>1. Lower(NoSlot) = NoSlot
      BY DEF Lower
    <3> QED BY <1>11, <3>1, LoweredRow DEF TimePasses
  <2>2. tick' \in [Replicas -> [Slots -> TickState]]
    BY <1>11, OlderTick DEF TimePasses, TicksInTime
  <2>3. replica' \in [Replicas -> Replica]
    <3>1. ASSUME NEW r \in Replicas, ReplicaAt(r, "adopt")
          PROVE  [replica[r] EXCEPT !.age = replica[r].age + 1] \in Replica
      <4>1. replica[r] \in Replica /\ replica[r].age + 1 < FireTimeout
        BY <1>11, <3>1 DEF TimePasses
      <4> QED BY <4>1, ReplicaFields
    <3> QED BY <1>11, <3>1 DEF TimePasses
  <2> QED BY <1>11, <1>b, <2>1, <2>2, <2>3 DEF TimePasses
<1>12. CASE UNCHANGED schedVars
  BY <1>12 DEF schedVars
<1> QED
  BY <1>1, <1>2, <1>3, <1>4, <1>5, <1>6, <1>7, <1>8, <1>9, <1>10, <1>11, <1>12
     DEF SchedNext, OpenStep, TickStep

(* Nobody but the replica itself can claim a row between the claim and the *)
(* dispatch of a tick that is under way.                                   *)
LEMMA ClaimIsSafe ==
    ASSUME SchedInv, FireTimeout <= LeaseTTL, NEW r \in Replicas, NEW s \in Slots,
           NEW age \in 0 .. FireTimeout, Claimable(r, s, age),
           NEW o \in Replicas, o # r
    PROVE  ~(TickAt(o, s, "dispatch") /\ tick[o][s].serial = slot[s].serial)
<1> SUFFICES ASSUME TickAt(o, s, "dispatch"), tick[o][s].serial = slot[s].serial
             PROVE  FALSE
  OBVIOUS
<1>1. slot[s] # NoSlot /\ slot[s] \in SlotRow /\ slot[s].left \in Int
  BY DEF Claimable, SchedInv, SchedTypeOK, SlotRow
<1>2. slot[s].owner = o /\ slot[s].left + tick[o][s].age = LeaseTTL
  BY <1>1 DEF SchedInv, LeaseOfTick
<1>3. tick[o][s].age \in 0 .. FireTimeout /\ tick[o][s].age < FireTimeout
  BY DEF SchedInv, SchedTypeOK, TickState, TicksInTime
<1> QED BY <1>1, <1>2, <1>3, SchedulerConstants DEF Claimable

(* Ticks that go on as they are or get to another point than dispatch, and *)
(* rows that stay, go, are inserted with a new serial or change for no     *)
(* tick's dispatch.                                                        *)
LEMMA SchedQuietStep ==
    ASSUME SchedInv, SchedTypeOK', TicksOfStarted', scheduled' >= scheduled,
           \A o \in Replicas, p \in Slots :
              \/ tick'[o][p] = tick[o][p]
              \/ /\ tick'[o][p].pc # "dispatch" /\ tick'[o][p].age < FireTimeout
                 /\ tick'[o][p].serial <= scheduled,
           \A p \in Slots :
              \/ slot'[p] = slot[p]
              \/ slot'[p] = NoSlot
              \/ slot'[p].serial = scheduled + 1 /\ scheduled' = scheduled + 1
              \/ /\ slot[p] # NoSlot /\ slot'[p].serial = slot[p].serial
                 /\ FireTimeout <= LeaseTTL =>
                       \A o \in Replicas :
                           ~(tick'[o][p].pc = "dispatch" /\ tick'[o][p].serial = slot[p].serial)
    PROVE  SchedInv'
<1>0. /\ SchedTypeOK /\ scheduled \in Nat /\ scheduled' \in Nat
      /\ \A o \in Replicas, p \in Slots : tick[o][p].serial \in Nat /\ tick'[o][p].serial \in Nat
      /\ \A p \in Slots : slot[p] # NoSlot => slot[p].serial \in Nat
      /\ \A p \in Slots : slot'[p] # NoSlot => slot'[p].serial \in Nat
  BY DEF SchedInv, SchedTypeOK, TickState, SlotRow
<1>1. TicksInTime'
  BY DEF SchedInv, TicksInTime
<1>2. \A o \in Replicas, p \in Slots : tick'[o][p].serial <= scheduled
  BY DEF SchedInv, SerialsGiven
<1>3. SerialsGiven'
  BY <1>0, <1>2 DEF SchedInv, SerialsGiven
<1>4. LeaseOfTick'
  <2> SUFFICES ASSUME FireTimeout <= LeaseTTL, NEW o \in Replicas, NEW p \in Slots,
                      tick'[o][p].pc = "dispatch", slot'[p] # NoSlot,
                      slot'[p].serial = tick'[o][p].serial
               PROVE  /\ slot'[p].owner = o
                      /\ slot'[p].left + tick'[o][p].age = LeaseTTL
    BY DEF LeaseOfTick, TickAt
  <2>1. tick'[o][p] = tick[o][p]
    OBVIOUS
  <2>2. slot'[p] = slot[p]
    BY <1>0, <1>2, <2>1
  <2> QED BY <2>1, <2>2 DEF SchedInv, LeaseOfTick, TickAt
<1> QED BY <1>1, <1>3, <1>4 DEF SchedInv

(* Every step keeps the invariant.                                         *)
LEMMA SchedInvStep == SchedInv /\ [SchedNext]_schedVars => SchedInv'
<1> SUFFICES ASSUME SchedInv, [SchedNext]_schedVars PROVE SchedInv'
  OBVIOUS
<1>0. SchedTypeOK /\ SchedTypeOK' /\ TicksOfStarted /\ scheduled \in Nat /\ scheduled >= scheduled
  BY SchedTypeStep DEF SchedInv, SchedTypeOK
<1>a. /\ NoTick.pc = "none" /\ NoTick.age < FireTimeout /\ NoTick.serial <= scheduled
      /\ [NoTick EXCEPT !.pc = "claim"].pc = "claim"
      /\ [NoTick EXCEPT !.pc = "claim"].age < FireTimeout
      /\ [NoTick EXCEPT !.pc = "claim"].serial <= scheduled
      /\ NoTick \in TickState /\ [NoTick EXCEPT !.pc = "claim"] \in TickState
  BY <1>0, SchedulerConstants DEF NoTick, TickState
<1>b. ASSUME NEW r \in Replicas, NEW s \in Slots, TickGoto(r, s, NoTick),
             UNCHANGED << slot, replica, scheduled >>
      PROVE  SchedInv'
  <2>1. \A o \in Replicas, p \in Slots : tick'[o][p] = tick[o][p] \/ tick'[o][p] = NoTick
    BY <1>0, <1>a, <1>b, TickTypes DEF TickGoto, SchedTypeOK
  <2>2. TicksOfStarted'
    BY <1>0, <1>a, <1>b, <2>1 DEF TicksOfStarted, TickAt
  <2> QED BY <1>0, <1>a, <1>b, <2>1, <2>2, SchedQuietStep
<1>1. ASSUME NEW r \in Replicas, Open(r) \/ Adopted(r) \/ Start(r) \/ Stop(r) \/ Stopped(r)
      PROVE  SchedInv'
  <2>1. UNCHANGED << slot, tick, scheduled >>
    BY <1>1 DEF Open, Adopted, Start, Stop, Stopped
  <2>2. /\ \A o \in Replicas : o # r => replica'[o] = replica[o]
        /\ \/ replica[r].pc \in {"down", "adopt", "idle"}
           \/ replica'[r].pc = "stopping"
           \/ \A s \in Slots : TickAt(r, s, "none")
    <3>1. [replica[r] EXCEPT !.pc = "stopping", !.canceled = TRUE].pc = "stopping"
      BY <1>0, Zenon DEF SchedTypeOK, Replica
    <3> QED BY <1>0, <1>1, <3>1 DEF Open, Adopted, Start, Stop, Stopped, ReplicaAt, SchedTypeOK
  <2>3. TicksOfStarted'
    BY <1>0, <2>1, <2>2 DEF TicksOfStarted, TickAt
  <2> QED BY <1>0, <2>1, <2>3, SchedQuietStep
<1>2. ASSUME NEW r \in Replicas, NEW s \in Slots, AdoptRow(r, s) PROVE SchedInv'
  <2>1. replica[r] \in Replica /\ replica[r].pc = "adopt" /\ UNCHANGED << tick, scheduled >>
    BY <1>0, <1>2 DEF AdoptRow, ReplicaAt, SchedTypeOK
  <2>2. /\ \A o \in Replicas : o # r => replica'[o] = replica[o]
        /\ \A p \in Slots : TickAt(r, p, "none")
    BY <1>0, <1>2, <2>1 DEF AdoptRow, SchedTypeOK, TicksOfStarted
  <2>3. TicksOfStarted'
    BY <1>0, <2>1, <2>2 DEF TicksOfStarted, TickAt
  <2>4. CASE ~Claimable(r, s, replica[r].age)
    <3>1. UNCHANGED slot
      BY <1>2, <2>4 DEF AdoptRow
    <3> QED BY <1>0, <2>1, <2>3, <3>1, SchedQuietStep
  <2>5. CASE Claimable(r, s, replica[r].age)
    <3>1. slot[s] # NoSlot /\ slot[s] \in SlotRow /\ replica[r].age \in 0 .. FireTimeout
      BY <1>0, <2>1, <2>5, ReplicaFields DEF Claimable, SchedTypeOK
    <3>2. Claimed(r, s, replica[r].age)
      BY <1>2, <2>5 DEF AdoptRow
    <3>3. /\ \A p \in Slots : p # s => slot'[p] = slot[p]
          /\ slot'[s].serial = slot[s].serial
      <4>1. slot'[s] = [slot[s] EXCEPT !.owner = r, !.left = LeaseTTL - replica[r].age]
        BY <1>0, <3>2 DEF Claimed, SchedTypeOK
      <4>2. slot'[s].serial = slot[s].serial
        BY <3>1, <4>1 DEF SlotRow
      <4> QED BY <1>0, <3>2, <4>2 DEF Claimed, SchedTypeOK
    <3>4. FireTimeout <= LeaseTTL =>
             \A o \in Replicas :
                 ~(tick'[o][s].pc = "dispatch" /\ tick'[o][s].serial = slot[s].serial)
      BY <2>1, <2>2, <2>5, <3>1, ClaimIsSafe DEF TickAt
    <3> QED BY <1>0, <2>1, <2>3, <3>1, <3>3, <3>4, SchedQuietStep
  <2> QED BY <2>4, <2>5
<1>3. ASSUME NEW r \in Replicas, Die(r) PROVE SchedInv'
  <2>1. /\ \A o \in Replicas, p \in Slots :
              tick'[o][p] = IF o = r THEN NoTick ELSE tick[o][p]
        /\ \A o \in Replicas : o # r => replica'[o] = replica[o]
        /\ scheduled' = scheduled
    BY <1>0, <1>3 DEF Die, SchedTypeOK
  <2>2. TicksOfStarted'
    BY <1>0, <1>a, <2>1 DEF TicksOfStarted, TickAt
  <2>3. ASSUME NEW p \in Slots
        PROVE  \/ slot'[p] = slot[p]
               \/ /\ slot[p] # NoSlot /\ slot'[p].serial = slot[p].serial
                  /\ slot[p].owner = r
    BY <1>0, <1>3 DEF Die, SchedTypeOK, SlotRow
  <2>4. ASSUME FireTimeout <= LeaseTTL, NEW p \in Slots, slot[p] # NoSlot, slot[p].owner = r,
               NEW o \in Replicas,
               tick'[o][p].pc = "dispatch", tick'[o][p].serial = slot[p].serial
        PROVE  FALSE
    BY <1>a, <2>1, <2>4 DEF SchedInv, LeaseOfTick, TickAt
  <2> QED BY <1>0, <1>a, <2>1, <2>2, <2>3, <2>4, SchedQuietStep
<1>4. ASSUME NEW r \in Replicas, Schedule(r) PROVE SchedInv'
  <2>1. /\ UNCHANGED tick /\ scheduled' = scheduled + 1
        /\ \A p \in Slots : slot'[p] = slot[p] \/ slot'[p].serial = scheduled + 1
        /\ replica[r].pc \notin {"down", "adopt"}
    BY <1>0, <1>4 DEF Schedule, SchedTypeOK
  <2>2. \A o \in Replicas : replica'[o].pc = replica[o].pc
    <3>1. PICK s \in Slots :
             replica' = [replica EXCEPT ![r].next = s, ![r].entries = @ \union {s}]
      BY <1>4 DEF Schedule
    <3> QED BY <1>0, <3>1 DEF SchedTypeOK, Replica
  <2>3. TicksOfStarted'
    BY <1>0, <2>1, <2>2 DEF TicksOfStarted, TickAt
  <2> QED BY <1>0, <2>1, <2>3, SchedQuietStep
<1>5. ASSUME NEW r \in Replicas, NEW s \in Slots, RemoveEntry(r, s) PROVE SchedInv'
  <2>1. /\ UNCHANGED << tick, scheduled >>
        /\ \A p \in Slots : slot'[p] = slot[p] \/ slot'[p] = NoSlot
    BY <1>0, <1>5 DEF RemoveEntry, SchedTypeOK
  <2>2. \A o \in Replicas : replica'[o].pc = replica[o].pc
    <3>1. replica' = [replica EXCEPT ![r].entries = @ \ {s}]
      BY <1>5 DEF RemoveEntry
    <3> QED BY <1>0, <3>1 DEF SchedTypeOK, Replica
  <2>3. TicksOfStarted'
    BY <1>0, <2>1, <2>2 DEF TicksOfStarted, TickAt
  <2> QED BY <1>0, <2>1, <2>3, SchedQuietStep
<1>6. ASSUME NEW r \in Replicas, NEW s \in Slots, TickLoad(r, s) PROVE SchedInv'
  <2>1. /\ \A o \in Replicas, p \in Slots :
              \/ tick'[o][p] = tick[o][p]
              \/ o = r /\ tick'[o][p] = [NoTick EXCEPT !.pc = "claim"]
        /\ UNCHANGED << slot, replica, scheduled >> /\ replica[r].pc = "running"
    BY <1>0, <1>6, <1>a, TickTypes DEF TickLoad, TickGoto, ReplicaAt, SchedTypeOK
  <2>2. TicksOfStarted'
    BY <1>0, <2>1 DEF TicksOfStarted, TickAt
  <2> QED BY <1>0, <1>a, <2>1, <2>2, SchedQuietStep
<1>7. ASSUME NEW r \in Replicas, NEW s \in Slots, TickClaim(r, s) PROVE SchedInv'
  <2> DEFINE age == tick[r][s].age
             new == [pc |-> "dispatch", age |-> age, serial |-> slot[s].serial]
  <2>1. CASE ~Claimable(r, s, age)
    <3>1. TickGoto(r, s, NoTick) /\ UNCHANGED << slot, replica, scheduled >>
      BY <1>7, <2>1 DEF TickClaim
    <3> QED BY <1>b, <3>1
  <2>2. CASE Claimable(r, s, age)
    <3>1. /\ Claimed(r, s, age) /\ TickGoto(r, s, new) /\ TickAt(r, s, "claim")
          /\ UNCHANGED << replica, scheduled >>
      BY <1>7, <2>2 DEF TickClaim
    <3>2. /\ slot[s] # NoSlot /\ slot[s] \in SlotRow /\ slot[s].serial \in Nat
          /\ age \in 0 .. FireTimeout /\ age < FireTimeout /\ slot[s].serial <= scheduled
      BY <1>0, <2>2 DEF Claimable, SchedTypeOK, SchedInv, TicksInTime, TickState, SlotRow,
                        SerialsGiven
    <3>3. /\ \A p \in Slots : p # s => slot'[p] = slot[p]
          /\ slot'[s].serial = slot[s].serial /\ slot'[s].owner = r
          /\ slot'[s].left = LeaseTTL - age
      <4>1. slot'[s] = [slot[s] EXCEPT !.owner = r, !.left = LeaseTTL - age]
        BY <1>0, <3>1 DEF Claimed, SchedTypeOK
      <4>2. /\ slot'[s].serial = slot[s].serial /\ slot'[s].owner = r
            /\ slot'[s].left = LeaseTTL - age
        BY <3>2, <4>1 DEF SlotRow
      <4> QED BY <1>0, <3>1, <4>2 DEF Claimed, SchedTypeOK
    <3>4. new \in TickState
      BY <3>2 DEF TickState
    <3>5. \A o \in Replicas, p \in Slots :
             tick'[o][p] = IF o = r /\ p = s THEN new ELSE tick[o][p]
      BY <1>0, <3>1, <3>4, TickTypes DEF TickGoto, SchedTypeOK
    <3>6. TicksOfStarted'
      BY <1>0, <3>1, <3>5 DEF TicksOfStarted, TickAt
    <3>7. TicksInTime' /\ SerialsGiven'
      BY <1>0, <3>1, <3>2, <3>3, <3>5 DEF SchedInv, TicksInTime, SerialsGiven
    <3>8. LeaseOfTick'
      <4> SUFFICES ASSUME FireTimeout <= LeaseTTL, NEW o \in Replicas, NEW p \in Slots,
                          tick'[o][p].pc = "dispatch", slot'[p] # NoSlot,
                          slot'[p].serial = tick'[o][p].serial
                   PROVE  /\ slot'[p].owner = o
                          /\ slot'[p].left + tick'[o][p].age = LeaseTTL
        BY DEF LeaseOfTick, TickAt
      <4>1. CASE p # s
        BY <3>3, <3>5, <4>1 DEF SchedInv, LeaseOfTick, TickAt
      <4>2. CASE p = s /\ o # r
        BY <2>2, <3>2, <3>3, <3>5, <4>2, ClaimIsSafe DEF TickAt
      <4>3. CASE p = s /\ o = r
        BY <3>2, <3>3, <3>5, <4>3, SchedulerConstants
      <4> QED BY <4>1, <4>2, <4>3
    <3> QED BY <1>0, <3>6, <3>7, <3>8 DEF SchedInv
  <2> QED BY <2>1, <2>2
<1>8. ASSUME NEW r \in Replicas, NEW s \in Slots, Dispatch(r, s) \/ TickEnds(r, s)
      PROVE  SchedInv'
  BY <1>8, <1>b DEF Dispatch, TickEnds
<1>9. CASE TimePasses
  <2>1. /\ \A o \in Replicas, p \in Slots :
              tick'[o][p] = Older(tick[o][p]) /\ tick[o][p] \in TickState
        /\ \A p \in Slots : slot'[p] = Lower(slot[p])
        /\ scheduled' = scheduled
    BY <1>0, <1>9 DEF TimePasses, SchedTypeOK
  <2>2. \A o \in Replicas, p \in Slots :
           /\ tick'[o][p].age < FireTimeout
           /\ \/ tick'[o][p] = NoTick
              \/ /\ tick'[o][p].pc = tick[o][p].pc /\ tick'[o][p].serial = tick[o][p].serial
                 /\ tick'[o][p].age = tick[o][p].age + 1
    BY <2>1, OlderTick DEF SchedInv, TicksInTime
  <2>3. TicksInTime'
    BY <2>2 DEF TicksInTime
  <2>4. \A o \in Replicas : replica'[o].pc = replica[o].pc
    BY <1>0, <1>9 DEF TimePasses, SchedTypeOK, Replica
  <2>5. TicksOfStarted'
    BY <1>0, <1>a, <2>2, <2>4 DEF TicksOfStarted, TickAt
  <2>6. \A p \in Slots :
           /\ slot'[p] # NoSlot => slot[p] # NoSlot /\ slot[p] \in SlotRow
           /\ slot[p] # NoSlot =>
                 /\ slot'[p].serial = slot[p].serial /\ slot'[p].owner = slot[p].owner
                 /\ slot[p].left > 0 => slot'[p].left = slot[p].left - 1
    BY <1>0, <2>1, LoweredRow DEF SchedTypeOK, Lower
  <2>7. SerialsGiven'
    BY <1>a, <2>1, <2>2, <2>6 DEF SchedInv, SerialsGiven
  <2>8. LeaseOfTick'
    <3> SUFFICES ASSUME FireTimeout <= LeaseTTL, NEW o \in Replicas, NEW p \in Slots,
                        tick'[o][p].pc = "dispatch", slot'[p] # NoSlot,
                        slot'[p].serial = tick'[o][p].serial
                 PROVE  /\ slot'[p].owner = o
                        /\ slot'[p].left + tick'[o][p].age = LeaseTTL
      BY DEF LeaseOfTick, TickAt
    <3>1. /\ tick[o][p].pc = "dispatch" /\ slot[p] # NoSlot
          /\ slot[p].serial = tick[o][p].serial /\ slot[p] \in SlotRow
          /\ tick'[o][p].age = tick[o][p].age + 1
      BY <1>a, <2>2, <2>6
    <3>2. slot[p].owner = o /\ slot[p].left + tick[o][p].age = LeaseTTL
      BY <3>1 DEF SchedInv, LeaseOfTick, TickAt
    <3>3. tick[o][p].age \in Nat /\ tick[o][p].age < FireTimeout /\ slot[p].left \in Int
      BY <2>1, <3>1 DEF SchedInv, TicksInTime, TickState, SlotRow
    <3>4. slot[p].left > 0
      BY <3>2, <3>3, SchedulerConstants
    <3> QED BY <2>6, <3>1, <3>2, <3>3, <3>4, SchedulerConstants
  <2> QED BY <1>0, <2>3, <2>5, <2>7, <2>8 DEF SchedInv
<1>10. CASE UNCHANGED schedVars
  BY <1>0, <1>10, SchedQuietStep DEF schedVars, TicksOfStarted, TickAt
<1> QED
  BY <1>1, <1>2, <1>3, <1>4, <1>5, <1>6, <1>7, <1>8, <1>9, <1>10
     DEF SchedNext, OpenStep, TickStep

(* Rows, replicas and ticks keep their types: no lease lasts longer than   *)
(* LeaseTTL, no tick and no adoption longer than FireTimeout.              *)
THEOREM SchedulerTypeCorrect == SchedSpec => []SchedTypeOK
<1>1. SchedInv => SchedTypeOK
  BY DEF SchedInv
<1> QED
  BY SchedInvInit, SchedInvStep, <1>1, PTL DEF SchedSpec

(* "at most one live owner fires a slot", for any number of replicas and   *)
(* slots, whichever of them die, reopen, remove or reuse a slot, as long   *)
(* as FireTimeout is not longer than LeaseTTL.                             *)
THEOREM OwnerFires == SchedSpec => []FiresUnderLease
<1>1. SchedInv => FiresUnderLease
  BY DEF SchedInv, LeaseOfTick, FiresUnderLease
<1> QED
  BY SchedInvInit, SchedInvStep, <1>1, PTL DEF SchedSpec

-----------------------------------------------------------------------------
(* The behaviours of MCBackground.                                         *)

(* A step of the run is a step of one component, and stutters the others.  *)
LEMMA SubjectsTakeTurns ==
    [MCNext]_mcVars =>
        /\ [SagaNext]_sagaVars
        /\ [DbNext]_dbVars
        /\ [BatchNext]_allVars
        /\ [SchedNext]_schedVars
BY DEF MCNext, SagaSteps, DbSteps, BatchSteps, SchedSteps, mcVars

(* What the run explores side by side are sagas, the database queue, job   *)
(* batches and the leased scheduler as their own modules specify them.     *)
THEOREM BackgroundImplements == MCSpec => SagaSpec /\ DbSpec /\ BatchSpec /\ SchedSpec
<1>1. MCInit => SagaInit /\ DbInit /\ BatchInit /\ SchedInit
  BY DEF MCInit
<1> QED BY <1>1, SubjectsTakeTurns, PTL DEF MCSpec, SagaSpec, DbSpec, BatchSpec, SchedSpec

(* The state of each of the four keeps its type, with any number of calls, *)
(* poppers, handlers, sweepers and replicas.                               *)
THEOREM BackgroundTypeCorrect == MCSpec => []BackgroundTypeOK
<1>1. SagaTypeOK /\ DbTypeOK /\ BatchTypeOK /\ SchedTypeOK => BackgroundTypeOK
  BY DEF BackgroundTypeOK
<1> QED BY <1>1, BackgroundImplements, SagaTypeCorrect, DbTypeCorrect, BatchTypeCorrect,
           SchedulerTypeCorrect, PTL

=============================================================================
