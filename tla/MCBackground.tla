---------------------------- MODULE MCBackground ----------------------------
(***************************************************************************)
(* Sagas, the database queue, job batches and the leased scheduler share no *)
(* state, so one run explores them side by side: subject says which of them *)
(* this behaviour is about, and the others stay in their initial states.    *)
(***************************************************************************)
EXTENDS Saga, DbQueue, JobBatch, SlotScheduler

VARIABLE subject

mcVars == << subject, sagaVars, dbVars, allVars, schedVars >>

MCInit ==
    /\ subject \in {"saga", "dbqueue", "batch", "scheduler"}
    /\ SagaInit
    /\ DbInit
    /\ BatchInit
    /\ SchedInit

SagaSteps == subject = "saga" /\ SagaNext /\ UNCHANGED << subject, dbVars, allVars, schedVars >>
DbSteps == subject = "dbqueue" /\ DbNext /\ UNCHANGED << subject, sagaVars, allVars, schedVars >>
BatchSteps == subject = "batch" /\ BatchNext /\ UNCHANGED << subject, sagaVars, dbVars, schedVars >>
SchedSteps == subject = "scheduler" /\ SchedNext /\ UNCHANGED << subject, sagaVars, dbVars, allVars >>

MCNext == SagaSteps \/ DbSteps \/ BatchSteps \/ SchedSteps

(* The fairness of the four modules, for the subject.                      *)
MCFairness ==
    /\ \A e \in Engines :
          /\ WF_sagaVars(subject = "saga" /\ SagaWork(e))
          /\ WF_sagaVars(subject = "saga" /\ Recover(e))
    /\ WF_sagaVars(subject = "saga" /\ LeaseRunsOut)
    /\ \A p \in Poppers :
          /\ WF_dbVars(subject = "dbqueue" /\ PopStart(p))
          /\ WF_dbVars(subject = "dbqueue" /\ PopStep(p))
          /\ WF_dbVars(subject = "dbqueue" /\ SettleMsg(p))
    /\ WF_allVars(subject = "batch" /\ DispatchStep)
    /\ WF_allVars(subject = "batch" /\ DeadlinePasses)
    /\ \A h \in Handlers :
          /\ WF_allVars(subject = "batch" /\ Pop(h) /\ UNCHANGED batchVars)
          /\ WF_allVars(subject = "batch" /\ WorkerStep(h))
          /\ WF_allVars(subject = "batch" /\ Report(h))
    /\ \A c \in Copies : WF_allVars(subject = "batch" /\ LapseJob(c) /\ UNCHANGED batchVars)
    /\ \A s \in Sweepers :
          /\ WF_allVars(subject = "batch" /\ SweepDue(s))
          /\ WF_allVars(subject = "batch" /\ SweepStep(s))
    /\ \A r \in Replicas :
          /\ WF_schedVars(subject = "scheduler" /\ OpenStep(r))
          /\ WF_schedVars(subject = "scheduler" /\ Start(r))
          /\ \A s \in Slots : WF_schedVars(subject = "scheduler" /\ TickStep(r, s))
    /\ WF_schedVars(subject = "scheduler" /\ TimePasses)

MCSpec == MCInit /\ [][MCNext]_mcVars /\ MCFairness

(* The state of each of the four keeps its type.                            *)
BackgroundTypeOK == SagaTypeOK /\ DbTypeOK /\ BatchTypeOK /\ SchedTypeOK
=============================================================================
