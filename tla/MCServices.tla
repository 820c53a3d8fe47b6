----------------------------- MODULE MCServices -----------------------------
(***************************************************************************)
(* Webhook deduplication, the in-process lock, workflow runs, job batches  *)
(* and the Redis queue share no state, so one run explores them side by    *)
(* side: service says which of them this behaviour is about, and the       *)
(* others stay as they began.                                              *)
(***************************************************************************)
EXTENDS WebhookOnce, MemoryLock, MCWorkflowRun, JobBatch, RedisQueue

VARIABLE service

(* The configuration gives deliveries and handles the same names, and      *)
(* keys, fingerprints and locks too; a permutation renames them together.  *)
ServicesSymmetry ==
    Permutations(Deliveries) \union Permutations(Keys) \union Permutations(Jobs)
        \union Permutations(RMessages)

(* What a delivery carries matters to webhooks only, the lock a handle is  *)
(* for to locks only.                                                      *)
MCInit ==
    /\ service \in {"webhook", "lock", "workflow", "batch", "redis"}
    /\ Init
    /\ service # "webhook" => print = key
    /\ service \notin {"webhook", "lock"} => \A d, e \in Deliveries : key[d] = key[e]
    /\ LockInit
    /\ target = key
    /\ WfInit
    /\ BatchInit
    /\ RedisInit

MCNext ==
    \/ /\ service = "webhook" /\ Next
       /\ UNCHANGED << service, lockVars, wfVars, allVars, rVars >>
    \/ /\ service = "lock" /\ LockNext
       /\ UNCHANGED << service, vars, wfVars, allVars, rVars >>
    \/ /\ service = "workflow" /\ WfNext
       /\ UNCHANGED << service, vars, lockVars, allVars, rVars >>
    \/ /\ service = "batch" /\ BatchNext
       /\ UNCHANGED << service, vars, lockVars, wfVars, rVars >>
    \/ /\ service = "redis" /\ RedisNext
       /\ UNCHANGED << service, vars, lockVars, wfVars, allVars >>

MCSpec == MCInit /\ [][MCNext]_<< service, vars, lockVars, wfVars, allVars, rVars >>

(* The state of each of the five keeps its type.                           *)
ServicesTypeOK == TypeOK /\ LockTypeOK /\ WfTypeOK /\ BatchTypeOK /\ RedisTypeOK
=============================================================================
