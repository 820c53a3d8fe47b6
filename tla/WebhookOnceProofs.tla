------------------------- MODULE WebhookOnceProofs --------------------------
(***************************************************************************)
(* What ProcessWebhookOnce guarantees over the in-process store, for any   *)
(* number of keys, payloads and deliveries, any lease times and any size   *)
(* of the table.                                                           *)
(*                                                                         *)
(* ExecutionBudget is not inductive: a key without a record can be         *)
(* reserved at once, and a failed delivery that has not released yet will  *)
(* free the key when it does.  Account counts both: every execution, every *)
(* release still owed and the missing record weigh one, and each loss pays *)
(* for one.  DuplicateWasHandled rests on DoneWasHandled, which says the   *)
(* same of the record a duplicate is told from.                            *)
(***************************************************************************)
EXTENDS WebhookOnce, FiniteSetTheorems, TLAPS

(* Deliveries that run, have run successfully or have a release to make.   *)
Spent(k) == {d \in Deliveries : key[d] = k /\ (InFlight(d) \/ handled[d])}

(* A key that has no record can be reserved.                               *)
Gap(k) == IF entries[k] = None THEN 1 ELSE 0

Account == \A k \in Keys : Cardinality(Spent(k)) + Gap(k) <= 1 + losses[k]

(* A handler's success is recorded from its return on, and not before.     *)
HandledLater ==
    \A d \in Deliveries :
        /\ pc[d] \in {"arrived", "running"} => ~handled[d]
        /\ pc[d] = "committing" => handled[d]

(* A done record was left by a delivery that was handled.                  *)
DoneWasHandled ==
    \A k \in Keys : entries[k] # None /\ entries[k].done =>
        \E e \in Deliveries :
            key[e] = k /\ print[e] = entries[k].fp /\ handled[e]

Inv ==
    /\ TypeOK
    /\ HandledLater
    /\ Account
    /\ NoOrphan
    /\ DoneWasHandled
    /\ DuplicateWasHandled

-----------------------------------------------------------------------------
(* The sets that are counted are finite.                                   *)
LEMMA Finite ==
    /\ IsFiniteSet(Present)
    /\ Cardinality(Present) \in Nat
    /\ \A k : IsFiniteSet(Spent(k)) /\ Cardinality(Spent(k)) \in Nat
    /\ \A k : IsFiniteSet(Executions(k)) /\ Cardinality(Executions(k)) \in Nat
<1>1. Present \in SUBSET Keys
  BY DEF Present
<1>2. \A k : Spent(k) \in SUBSET Deliveries /\ Executions(k) \in SUBSET Deliveries
  BY DEF Spent, Executions
<1> QED
  BY <1>1, <1>2, StoreAssumption, WebhookAssumption, FS_Subset,
     FS_CardinalityType

(* What an eviction takes: nothing, or one record of another key.          *)
LEMMA VictimIsPresent ==
    ASSUME NEW victim \in Victims
    PROVE  (victim = {} /\ ~Full) \/ \E j \in Present : victim = {j}
<1>1. Lapsed \subseteq Present
  BY DEF Lapsed, Present, Expired
<1>2. Soonest \subseteq Present
  BY DEF Soonest
<1> QED
  BY <1>1, <1>2 DEF Victims

(* Insert puts the record in; every record it removes is counted as lost.  *)
LEMMA InsertEffect ==
    ASSUME TypeOK, NEW k \in Keys, NEW record \in Records, Insert(k, record)
    PROVE  /\ entries' \in [Keys -> Records \union {None}]
           /\ losses' \in [Keys -> Nat]
           /\ entries'[k] = record
           /\ losses'[k] + Gap(k) = losses[k] + 1
           /\ \A j \in Keys \ {k} :
                 \/ entries'[j] = entries[j] /\ losses'[j] = losses[j]
                 \/ entries[j] # None /\ entries'[j] = None
                       /\ losses'[j] = losses[j] + 1
<1>1. PICK victim \in (IF entries[k] # None THEN {{k}} ELSE Victims) :
         /\ entries' = [[j \in Keys |-> IF j \in victim THEN None
                                                    ELSE entries[j]]
                           EXCEPT ![k] = record]
         /\ Lose(victim)
  BY DEF Insert
<1>2. /\ victim \subseteq Present
      /\ k \in victim <=> entries[k] # None
  <2>1. CASE entries[k] # None
    BY <2>1, <1>1 DEF Present
  <2>2. CASE entries[k] = None
    <3>1. victim \in Victims
      BY <1>1, <2>2
    <3> QED
      BY <3>1, <2>2, VictimIsPresent DEF Present
  <2> QED
    BY <2>1, <2>2
<1>3. losses' = [j \in Keys |-> IF j \in victim THEN losses[j] + 1 ELSE losses[j]]
  BY <1>1 DEF Lose
<1>4. losses \in [Keys -> Nat] /\ entries \in [Keys -> Records \union {None}]
  BY DEF TypeOK
<1>5. losses' \in [Keys -> Nat]
  BY <1>3, <1>4
<1>6. entries' \in [Keys -> Records \union {None}] /\ entries'[k] = record
  BY <1>1, <1>4
<1>7. losses'[k] + Gap(k) = losses[k] + 1
  BY <1>2, <1>3, <1>4 DEF Gap
<1>8. ASSUME NEW j \in Keys \ {k}
      PROVE  \/ entries'[j] = entries[j] /\ losses'[j] = losses[j]
             \/ entries[j] # None /\ entries'[j] = None
                   /\ losses'[j] = losses[j] + 1
  BY <1>1, <1>2, <1>3 DEF Present
<1> QED
  BY <1>5, <1>6, <1>7, <1>8

(* Insert leaves the table within its bound.                               *)
LEMMA InsertFits ==
    ASSUME TypeOK, NEW k \in Keys, NEW record \in Records, Insert(k, record)
    PROVE  Cardinality(Present') <= MaxEntries
<1>1. PICK victim \in (IF entries[k] # None THEN {{k}} ELSE Victims) :
         entries' = [[j \in Keys |-> IF j \in victim THEN None
                                                 ELSE entries[j]]
                        EXCEPT ![k] = record]
  BY DEF Insert
<1>2. Present' = (Present \ victim) \union {k}
  BY <1>1, StoreAssumption DEF Present
<1>3. Cardinality(Present) <= MaxEntries /\ MaxEntries \in Nat \ {0}
  BY StoreAssumption DEF TypeOK
<1>4. CASE entries[k] # None
  <2>1. Present' = Present
    BY <1>1, <1>2, <1>4 DEF Present
  <2> QED
    BY <2>1, <1>3
<1>5. CASE entries[k] = None
  <2>1. k \notin Present
    BY <1>5 DEF Present
  <2>2. victim \in Victims
    BY <1>1, <1>5
  <2>3. CASE victim = {} /\ ~Full
    <3>1. Present' = Present \union {k}
      BY <1>2, <2>3
    <3>2. Cardinality(Present') = Cardinality(Present) + 1
      BY <3>1, <2>1, Finite, FS_AddElement
    <3> QED
      BY <3>2, <2>3, <1>3, Finite DEF Full
  <2>4. ASSUME NEW j \in Present, victim = {j}
        PROVE  Cardinality(Present') <= MaxEntries
    <3>1. /\ IsFiniteSet(Present \ {j})
          /\ Cardinality(Present \ {j}) = Cardinality(Present) - 1
      BY Finite, FS_RemoveElement
    <3>2. Present' = (Present \ {j}) \union {k} /\ k \notin Present \ {j}
      BY <1>2, <2>1, <2>4
    <3>3. Cardinality(Present') = Cardinality(Present) - 1 + 1
      BY <3>1, <3>2, FS_AddElement
    <3> QED
      BY <3>3, <1>3, Finite
  <2> QED
    BY <2>2, <2>3, <2>4, VictimIsPresent
<1> QED
  BY <1>4, <1>5

(* A table that only loses records stays within its bound.                 *)
LEMMA ShrinkFits ==
    ASSUME TypeOK, Present' \subseteq Present
    PROVE  Cardinality(Present') <= MaxEntries
<1>1. Cardinality(Present') <= Cardinality(Present) /\ Cardinality(Present') \in Nat
  BY Finite, FS_Subset, FS_CardinalityType
<1> QED
  BY <1>1, Finite, StoreAssumption DEF TypeOK

-----------------------------------------------------------------------------
(* What the janitor, Close and the clock do to the table: every record     *)
(* that goes is counted as lost.                                           *)
LEMMA EnvironmentEffect ==
    ASSUME TypeOK, StoreNext
    PROVE  /\ now' \in 0..MaxTime
           /\ entries' \in [Keys -> Records \union {None}]
           /\ state' \in {"open", "closing", "closed"}
           /\ losses' \in [Keys -> Nat]
           /\ Present' \subseteq Present
           /\ state' = "open" => state = "open"
           /\ \A j \in Keys :
                 \/ entries'[j] = entries[j] /\ losses'[j] = losses[j]
                 \/ entries'[j] = None /\ losses'[j] + Gap(j) >= losses[j] + 1
<1> USE StoreAssumption DEF TypeOK, Present, Lose, Gap
<1>1. CASE Sweep
  BY <1>1 DEF Sweep, Lapsed, Expired
<1>2. CASE CloseStarts
  BY <1>2 DEF CloseStarts
<1>3. CASE CloseEnds
  BY <1>3 DEF CloseEnds
<1>4. CASE Tick
  BY <1>4 DEF Tick
<1> QED
  BY <1>1, <1>2, <1>3, <1>4 DEF StoreNext

(* Forget, by a delivery that was handled (late) or was not.               *)
LEMMA ForgetEffect ==
    ASSUME TypeOK, NEW k \in Keys, NEW late \in BOOLEAN, ForgetKey(k, late)
    PROVE  /\ entries' \in [Keys -> Records \union {None}]
           /\ losses' \in [Keys -> Nat]
           /\ Present' \subseteq Present
           /\ entries'[k] = IF state = "open" THEN None ELSE entries[k]
           /\ late => losses'[k] + Gap(k) >= losses[k] + Gap(k)'
           /\ ~late => losses'[k] = losses[k]
           /\ \A j \in Keys \ {k} :
                 entries'[j] = entries[j] /\ losses'[j] = losses[j]
BY DEF ForgetKey, TypeOK, Present, Lose, Gap

(* Complete leaves a done record with the caller's fingerprint.            *)
LEMMA CompleteEffect ==
    ASSUME TypeOK, NEW k \in Keys, NEW fp \in Prints, CompleteStores(k, fp)
    PROVE  /\ entries' \in [Keys -> Records \union {None}]
           /\ losses' \in [Keys -> Nat]
           /\ Cardinality(Present') <= MaxEntries
           /\ entries'[k] # None /\ entries'[k].done /\ entries'[k].fp = fp
           /\ losses'[k] + Gap(k) >= losses[k]
           /\ \A j \in Keys \ {k} :
                 \/ entries'[j] = entries[j] /\ losses'[j] = losses[j]
                 \/ entries[j] # None /\ entries'[j] = None
                       /\ losses'[j] = losses[j] + 1
<1>1. CASE Live(k) /\ entries[k].fp = fp
           /\ entries' = [entries EXCEPT ![k] = Record(fp, TRUE, entries[k].expires)]
           /\ UNCHANGED losses
  <2>1. entries[k] \in Records
    BY <1>1 DEF TypeOK, Live
  <2>2. entries'[k] = Record(fp, TRUE, entries[k].expires)
    BY <1>1 DEF TypeOK
  <2>3. entries'[k] \in Records /\ entries'[k].done /\ entries'[k].fp = fp
    BY <2>1, <2>2 DEF Records, Record
  <2>4. entries' \in [Keys -> Records \union {None}]
           /\ \A j \in Keys \ {k} : entries'[j] = entries[j]
    BY <2>3, <1>1 DEF TypeOK
  <2>5. Present' = Present
    BY <2>3, <2>4, <1>1, StoreAssumption DEF Present, Live
  <2>6. losses \in [Keys -> Nat] /\ Gap(k) \in Nat
    BY DEF TypeOK, Gap
  <2>7. Cardinality(Present') <= MaxEntries
    BY <2>5 DEF TypeOK
  <2>8. entries'[k] # None
    BY <2>3, StoreAssumption
  <2>9. losses' = losses /\ losses'[k] + Gap(k) >= losses[k]
    BY <2>6, <1>1
  <2> QED
    BY <2>3, <2>4, <2>6, <2>7, <2>8, <2>9
<1>2. CASE ~Live(k) /\ Insert(k, Record(fp, TRUE, now + StoreTTL))
  <2> DEFINE record == Record(fp, TRUE, now + StoreTTL)
  <2>1. record \in Records /\ record.done /\ record.fp = fp
    BY StoreAssumption DEF Record, Records, TypeOK
  <2>2. losses \in [Keys -> Nat] /\ Gap(k) \in 0..1
    BY DEF TypeOK, Gap
  <2> HIDE DEF record
  <2>3. Insert(k, record)
    BY <1>2 DEF record
  <2> QED
    BY <2>1, <2>2, <2>3, InsertEffect, InsertFits, StoreAssumption
<1> QED
  BY <1>1, <1>2 DEF CompleteStores

-----------------------------------------------------------------------------
(* Every step keeps the types and the bound of the table.                  *)
LEMMA TypeStep == TypeOK /\ [Next]_vars => TypeOK'
<1> SUFFICES ASSUME TypeOK, [Next]_vars PROVE TypeOK'
  OBVIOUS
<1>1. ASSUME NEW d \in Deliveries, Reserve(d) PROVE TypeOK'
  <2>1. Record(print[d], FALSE, now + WebhookTTL) \in Records
    BY WebhookAssumption, StoreAssumption DEF TypeOK, Record, Records
  <2>2. key[d] \in Keys /\ Insert(key[d], Record(print[d], FALSE, now + WebhookTTL))
    BY <1>1 DEF Reserve, BeginReserves, TypeOK
  <2>3. /\ entries' \in [Keys -> Records \union {None}]
        /\ losses' \in [Keys -> Nat]
        /\ Cardinality(Present') <= MaxEntries
    BY <2>1, <2>2, InsertEffect, InsertFits
  <2> QED
    BY <1>1, <2>3 DEF Reserve, Goto, TypeOK, Stages
<1>2. ASSUME NEW d \in Deliveries, Commit(d) PROVE TypeOK'
  <2>1. key[d] \in Keys /\ print[d] \in Prints /\ CompleteStores(key[d], print[d])
    BY <1>2 DEF Commit, TypeOK
  <2>2. /\ entries' \in [Keys -> Records \union {None}]
        /\ losses' \in [Keys -> Nat]
        /\ Cardinality(Present') <= MaxEntries
    BY <2>1, CompleteEffect
  <2> QED
    BY <1>2, <2>2 DEF Commit, Goto, TypeOK, Stages
<1>3. ASSUME NEW d \in Deliveries, Release(d) PROVE TypeOK'
  <2>1. key[d] \in Keys /\ handled[d] \in BOOLEAN /\ ForgetKey(key[d], handled[d])
    BY <1>3 DEF Release, TypeOK
  <2>2. /\ entries' \in [Keys -> Records \union {None}]
        /\ losses' \in [Keys -> Nat]
        /\ Present' \subseteq Present
    BY <2>1, ForgetEffect
  <2>3. Cardinality(Present') <= MaxEntries
    BY <2>2, ShrinkFits
  <2> QED
    BY <1>3, <2>2, <2>3 DEF Release, Goto, TypeOK, Stages
<1>4. ASSUME NEW d \in Deliveries,
             \/ Duplicate(d) \/ Refused(d) \/ HandlerSucceeds(d)
             \/ HandlerFails(d) \/ CommitFails(d)
      PROVE  TypeOK'
  <2>1. Present' = Present
    BY <1>4 DEF Duplicate, Refused, HandlerSucceeds, HandlerFails,
                CommitFails, Present
  <2> QED
    BY <1>4, <2>1 DEF Duplicate, Refused, HandlerSucceeds, HandlerFails,
                      CommitFails, Goto, TypeOK, Stages
<1>5. CASE Environment
  <2>1. StoreNext
    BY <1>5 DEF Environment
  <2>2. Cardinality(Present') <= MaxEntries
    BY <2>1, EnvironmentEffect, ShrinkFits
  <2> QED
    BY <1>5, <2>1, <2>2, EnvironmentEffect DEF Environment, TypeOK
<1>6. CASE UNCHANGED vars
  <2>1. Present' = Present
    BY <1>6 DEF vars, storeVars, Present
  <2> QED
    BY <1>6, <2>1 DEF vars, storeVars, TypeOK
<1> QED
  BY <1>1, <1>2, <1>3, <1>4, <1>5, <1>6 DEF Next

(* Every step keeps the record of which handlers have succeeded.           *)
LEMMA HandledStep == TypeOK /\ HandledLater /\ [Next]_vars => HandledLater'
BY DEF TypeOK, HandledLater, Next, vars, storeVars, Reserve, Duplicate,
       Refused, HandlerSucceeds, HandlerFails, Commit, CommitFails, Release,
       Environment, Goto

(* Every step keeps the account of each key balanced.                      *)
LEMMA AccountStep ==
    TypeOK /\ HandledLater /\ Account /\ [Next]_vars => Account'
<1> SUFFICES ASSUME TypeOK, HandledLater, Account, [Next]_vars, NEW k \in Keys
             PROVE  (Cardinality(Spent(k)) + Gap(k) <= 1 + losses[k])'
  BY DEF Account
<1>0. /\ Cardinality(Spent(k)) + Gap(k) <= 1 + losses[k]
      /\ losses[k] \in Nat /\ losses'[k] \in Nat
      /\ Gap(k) \in 0..1 /\ Gap(k)' \in 0..1
      /\ IsFiniteSet(Spent(k)) /\ Cardinality(Spent(k)) \in Nat
  BY TypeStep, Finite DEF Account, TypeOK, Gap
<1>1. ASSUME NEW d \in Deliveries, Reserve(d)
      PROVE  (Cardinality(Spent(k)) + Gap(k) <= 1 + losses[k])'
  <2>1. Record(print[d], FALSE, now + WebhookTTL) \in Records
    BY WebhookAssumption, StoreAssumption DEF TypeOK, Record, Records
  <2>2. key[d] \in Keys /\ Insert(key[d], Record(print[d], FALSE, now + WebhookTTL))
    BY <1>1 DEF Reserve, BeginReserves, TypeOK
  <2>3. CASE k = key[d]
    <3>1. Spent(k)' = Spent(k) \union {d} /\ d \notin Spent(k)
      BY <1>1, <2>3 DEF Reserve, Goto, Spent, InFlight, HandledLater, TypeOK
    <3>2. Cardinality(Spent(k)') = Cardinality(Spent(k)) + 1
      BY <3>1, <1>0, FS_AddElement
    <3>3. losses'[k] + Gap(k) = losses[k] + 1 /\ entries'[k] # None
      BY <2>1, <2>2, <2>3, InsertEffect, StoreAssumption
    <3>4. Gap(k)' = 0
      BY <3>3 DEF Gap
    <3> QED
      BY <3>2, <3>3, <3>4, <1>0
  <2>4. CASE k # key[d]
    <3>1. Spent(k)' = Spent(k)
      BY <1>1, <2>4 DEF Reserve, Goto, Spent, InFlight, TypeOK
    <3>2. \/ entries'[k] = entries[k] /\ losses'[k] = losses[k]
          \/ entries[k] # None /\ entries'[k] = None
                /\ losses'[k] = losses[k] + 1
      BY <2>1, <2>2, <2>4, InsertEffect
    <3> QED
      BY <3>1, <3>2, <1>0 DEF Gap
  <2> QED
    BY <2>3, <2>4
<1>2. ASSUME NEW d \in Deliveries, Commit(d)
      PROVE  (Cardinality(Spent(k)) + Gap(k) <= 1 + losses[k])'
  <2>1. key[d] \in Keys /\ print[d] \in Prints /\ CompleteStores(key[d], print[d])
    BY <1>2 DEF Commit, TypeOK
  <2>2. Spent(k)' = Spent(k)
    BY <1>2 DEF Commit, Goto, Spent, InFlight, HandledLater, TypeOK
  <2>3. CASE k = key[d]
    <3>1. entries'[k] # None /\ losses'[k] + Gap(k) >= losses[k]
      BY <2>1, <2>3, CompleteEffect
    <3>2. Gap(k)' = 0
      BY <3>1 DEF Gap
    <3> QED
      BY <3>1, <3>2, <2>2, <1>0
  <2>4. CASE k # key[d]
    <3>1. \/ entries'[k] = entries[k] /\ losses'[k] = losses[k]
          \/ entries[k] # None /\ entries'[k] = None
                /\ losses'[k] = losses[k] + 1
      BY <2>1, <2>4, CompleteEffect
    <3> QED
      BY <3>1, <2>2, <1>0 DEF Gap
  <2> QED
    BY <2>3, <2>4
<1>3. ASSUME NEW d \in Deliveries, Release(d)
      PROVE  (Cardinality(Spent(k)) + Gap(k) <= 1 + losses[k])'
  <2>1. key[d] \in Keys /\ handled[d] \in BOOLEAN /\ ForgetKey(key[d], handled[d])
    BY <1>3 DEF Release, TypeOK
  <2>2. CASE k = key[d] /\ handled[d]
    <3>1. Spent(k)' = Spent(k)
      BY <1>3, <2>2 DEF Release, Goto, Spent, InFlight, TypeOK
    <3>2. losses'[k] + Gap(k) >= losses[k] + Gap(k)'
      BY <2>1, <2>2, ForgetEffect
    <3> QED
      BY <3>1, <3>2, <1>0
  <2>3. CASE k = key[d] /\ ~handled[d]
    <3>1. Spent(k)' = Spent(k) \ {d} /\ d \in Spent(k)
      BY <1>3, <2>3 DEF Release, Goto, Spent, InFlight, TypeOK
    <3>2. Cardinality(Spent(k)') = Cardinality(Spent(k)) - 1
      BY <3>1, <1>0, FS_RemoveElement
    <3>3. losses'[k] = losses[k]
      BY <2>1, <2>3, ForgetEffect
    <3> QED
      BY <3>2, <3>3, <1>0
  <2>4. CASE k # key[d]
    <3>1. Spent(k)' = Spent(k)
      BY <1>3, <2>4 DEF Release, Goto, Spent, InFlight, TypeOK
    <3>2. entries'[k] = entries[k] /\ losses'[k] = losses[k]
      BY <2>1, <2>4, ForgetEffect
    <3> QED
      BY <3>1, <3>2, <1>0 DEF Gap
  <2> QED
    BY <2>1, <2>2, <2>3, <2>4
<1>4. ASSUME NEW d \in Deliveries,
             \/ Duplicate(d) \/ Refused(d) \/ HandlerSucceeds(d)
             \/ HandlerFails(d) \/ CommitFails(d)
      PROVE  (Cardinality(Spent(k)) + Gap(k) <= 1 + losses[k])'
  <2>1. UNCHANGED <<entries, losses>>
    BY <1>4 DEF Duplicate, Refused, HandlerSucceeds, HandlerFails, CommitFails
  <2>2. Spent(k)' = Spent(k)
    BY <1>4 DEF Duplicate, Refused, HandlerSucceeds, HandlerFails,
                CommitFails, Goto, Spent, InFlight, HandledLater, TypeOK
  <2> QED
    BY <2>1, <2>2, <1>0 DEF Gap
<1>5. CASE Environment
  <2>1. StoreNext
    BY <1>5 DEF Environment
  <2>2. Spent(k)' = Spent(k)
    BY <1>5 DEF Environment, Spent, InFlight
  <2>3. \/ entries'[k] = entries[k] /\ losses'[k] = losses[k]
        \/ entries'[k] = None /\ losses'[k] + Gap(k) >= losses[k] + 1
    BY <2>1, EnvironmentEffect
  <2> QED
    BY <2>2, <2>3, <1>0 DEF Gap
<1>6. CASE UNCHANGED vars
  <2>1. Spent(k)' = Spent(k) /\ Gap(k)' = Gap(k) /\ losses'[k] = losses[k]
    BY <1>6 DEF vars, storeVars, Spent, InFlight, Gap
  <2> QED
    BY <2>1, <1>0
<1> QED
  BY <1>1, <1>2, <1>3, <1>4, <1>5, <1>6 DEF Next

-----------------------------------------------------------------------------
(* What any step does to the record of one key: it stays, goes, is         *)
(* reserved by a delivery that now runs, or is stored by a delivery that   *)
(* was handled.                                                            *)
LEMMA RecordStep ==
    ASSUME TypeOK, HandledLater, [Next]_vars, NEW k \in Keys
    PROVE  \/ entries'[k] = entries[k]
           \/ entries'[k] = None
           \/ /\ entries'[k].done = FALSE
              /\ \E d \in Deliveries : key[d] = k /\ pc'[d] = "running"
           \/ /\ entries'[k].done
              /\ \E d \in Deliveries :
                    key[d] = k /\ print[d] = entries'[k].fp /\ handled[d]
<1>1. ASSUME NEW d \in Deliveries, Reserve(d)
      PROVE  \/ entries'[k] = entries[k]
             \/ entries'[k] = None
             \/ key[d] = k /\ entries'[k].done = FALSE /\ pc'[d] = "running"
  <2> DEFINE record == Record(print[d], FALSE, now + WebhookTTL)
  <2>1. record \in Records /\ record.done = FALSE
    BY WebhookAssumption, StoreAssumption DEF TypeOK, Record, Records
  <2>2. key[d] \in Keys /\ Insert(key[d], record) /\ pc'[d] = "running"
    BY <1>1 DEF Reserve, BeginReserves, TypeOK, Goto
  <2> HIDE DEF record
  <2> QED
    BY <2>1, <2>2, InsertEffect
<1>2. ASSUME NEW d \in Deliveries, Commit(d)
      PROVE  \/ entries'[k] = entries[k]
             \/ entries'[k] = None
             \/ /\ key[d] = k /\ entries'[k].done
                /\ print[d] = entries'[k].fp /\ handled[d]
  <2>1. /\ key[d] \in Keys /\ print[d] \in Prints
        /\ CompleteStores(key[d], print[d]) /\ handled[d]
    BY <1>2 DEF Commit, TypeOK, HandledLater
  <2> QED
    BY <2>1, CompleteEffect
<1>3. ASSUME NEW d \in Deliveries, Release(d)
      PROVE  entries'[k] = entries[k] \/ entries'[k] = None
  <2>1. key[d] \in Keys /\ handled[d] \in BOOLEAN /\ ForgetKey(key[d], handled[d])
    BY <1>3 DEF Release, TypeOK
  <2> QED
    BY <2>1, ForgetEffect
<1>4. ASSUME NEW d \in Deliveries,
             \/ Duplicate(d) \/ Refused(d) \/ HandlerSucceeds(d)
             \/ HandlerFails(d) \/ CommitFails(d)
      PROVE  entries'[k] = entries[k]
  BY <1>4 DEF Duplicate, Refused, HandlerSucceeds, HandlerFails, CommitFails
<1>5. CASE Environment
  BY <1>5, EnvironmentEffect DEF Environment
<1>6. CASE UNCHANGED vars
  BY <1>6 DEF vars, storeVars
<1> QED
  BY <1>1, <1>2, <1>3, <1>4, <1>5, <1>6 DEF Next

(* The event and the payload of a delivery are fixed, and a handler that   *)
(* succeeded has succeeded for good.                                       *)
LEMMA HandledForGood ==
    TypeOK /\ [Next]_vars =>
        /\ key' = key /\ print' = print
        /\ \A d \in Deliveries : handled[d] => handled'[d]
BY DEF TypeOK, Next, vars, storeVars, Reserve, Duplicate, Refused,
       HandlerSucceeds, HandlerFails, Commit, CommitFails, Release,
       Environment, Goto

(* Every step keeps what a done record says.                               *)
LEMMA DoneStep ==
    TypeOK /\ HandledLater /\ DoneWasHandled /\ [Next]_vars => DoneWasHandled'
<1> SUFFICES ASSUME TypeOK, HandledLater, DoneWasHandled, [Next]_vars,
                    NEW k \in Keys, entries'[k] # None, entries'[k].done
             PROVE  \E e \in Deliveries :
                        key'[e] = k /\ print'[e] = entries'[k].fp /\ handled'[e]
  BY DEF DoneWasHandled
<1>1. \E e \in Deliveries :
         key[e] = k /\ print[e] = entries'[k].fp /\ handled[e]
  BY RecordStep DEF DoneWasHandled
<1> QED
  BY <1>1, HandledForGood

(* Every step keeps what a duplicate was told.                             *)
LEMMA DuplicateStep ==
    TypeOK /\ DoneWasHandled /\ DuplicateWasHandled /\ [Next]_vars
        => DuplicateWasHandled'
<1> SUFFICES ASSUME TypeOK, DoneWasHandled, DuplicateWasHandled, [Next]_vars,
                    NEW d \in Deliveries, pc'[d] = "duplicate"
             PROVE  \E e \in Deliveries :
                        key'[e] = key'[d] /\ print'[e] = print'[d] /\ handled'[e]
  BY DEF DuplicateWasHandled
<1>1. pc[d] = "duplicate" \/ Duplicate(d)
  BY DEF TypeOK, Next, vars, storeVars, Reserve, Duplicate, Refused,
         HandlerSucceeds, HandlerFails, Commit, CommitFails, Release,
         Environment, Goto
<1>2. \E e \in Deliveries :
         key[e] = key[d] /\ print[e] = print[d] /\ handled[e]
  <2>1. CASE pc[d] = "duplicate"
    BY <2>1 DEF DuplicateWasHandled
  <2>2. CASE Duplicate(d)
    <3>1. key[d] \in Keys /\ entries[key[d]] # None /\ entries[key[d]].done
             /\ entries[key[d]].fp = print[d]
      BY <2>2 DEF Duplicate, BeginReplays, Live, TypeOK
    <3> QED
      BY <3>1 DEF DoneWasHandled
  <2> QED
    BY <1>1, <2>1, <2>2
<1> QED
  BY <1>2, HandledForGood

(* Every step keeps reservations attended: the delivery that leaves the    *)
(* flight takes the reservation with it or turns it into a done record.    *)
LEMMA OrphanStep ==
    TypeOK /\ HandledLater /\ NoOrphan /\ [Next]_vars => NoOrphan'
<1> SUFFICES ASSUME TypeOK, HandledLater, NoOrphan, [Next]_vars,
                    state' = "open", NEW k \in Keys,
                    entries'[k] # None, ~entries'[k].done
             PROVE  \E d \in Deliveries : key'[d] = k /\ InFlight(d)'
  BY DEF NoOrphan
<1>1. state = "open"
  BY DEF TypeOK, Next, vars, storeVars, Reserve, Duplicate, Refused,
         HandlerSucceeds, HandlerFails, Commit, CommitFails, Release,
         Environment, Goto, StoreNext, Sweep, CloseStarts, CloseEnds, Tick
<1>2. CASE \E d \in Deliveries : key[d] = k /\ pc'[d] = "running"
  BY <1>2, HandledForGood DEF InFlight
<1>3. CASE entries'[k] = entries[k]
  <2>1. PICK d \in Deliveries : key[d] = k /\ InFlight(d)
    BY <1>1, <1>3 DEF NoOrphan
  <2>2. CASE Commit(d)
    <3>1. key[d] \in Keys /\ print[d] \in Prints /\ CompleteStores(key[d], print[d])
      BY <2>2 DEF Commit, TypeOK
    <3>2. entries'[k].done
      BY <3>1, <2>1, CompleteEffect
    <3> QED
      BY <3>2
  <2>3. CASE Release(d)
    <3>1. key[d] \in Keys /\ handled[d] \in BOOLEAN
             /\ ForgetKey(key[d], handled[d])
      BY <2>3 DEF Release, TypeOK
    <3>2. entries'[k] = None
      BY <3>1, <2>1, <1>1, ForgetEffect
    <3> QED
      BY <3>2
  <2>4. CASE ~Commit(d) /\ ~Release(d)
    <3>1. InFlight(d)'
      BY <2>1, <2>4 DEF InFlight, TypeOK, Next, vars, storeVars, Reserve,
         Duplicate, Refused, HandlerSucceeds, HandlerFails, Commit,
         CommitFails, Release, Environment, Goto
    <3> QED
      BY <3>1, <2>1, HandledForGood
  <2> QED
    BY <2>2, <2>3, <2>4
<1> QED
  BY <1>2, <1>3, RecordStep

-----------------------------------------------------------------------------
(* The store starts empty and no delivery has begun.                       *)
LEMMA InvInit == Init => Inv
<1> SUFFICES ASSUME Init PROVE Inv
  OBVIOUS
<1>1. Present = {} /\ \A k \in Keys : Spent(k) = {}
  BY DEF Init, StoreInit, Present, Spent, InFlight
<1>2. TypeOK
  BY <1>1, FS_EmptySet, StoreAssumption DEF Init, StoreInit, TypeOK, Stages
<1>3. Account
  BY <1>1, FS_EmptySet DEF Account, Init, StoreInit, Gap
<1>4. HandledLater /\ NoOrphan /\ DoneWasHandled /\ DuplicateWasHandled
  BY DEF Init, StoreInit, HandledLater, NoOrphan, DoneWasHandled,
         DuplicateWasHandled
<1> QED
  BY <1>2, <1>3, <1>4 DEF Inv

(* Every step keeps the inductive invariant.                               *)
LEMMA InvStep == Inv /\ [Next]_vars => Inv'
BY TypeStep, HandledStep, AccountStep, OrphanStep, DoneStep, DuplicateStep
   DEF Inv

(* The inductive invariant holds throughout.                               *)
LEMMA InvHolds == Spec => []Inv
BY InvInit, InvStep, PTL DEF Spec

(* The store's table stays within MaxEntries and every variable keeps its  *)
(* type, whatever Begin, Complete, Forget, the janitor and Close do.       *)
THEOREM TypeCorrect == Spec => []TypeOK
<1>1. Inv => TypeOK
  BY DEF Inv
<1> QED
  BY <1>1, InvHolds, PTL

(* ProcessWebhookOnce runs the handler of an event once, plus once for     *)
(* each time the store lost the record of its key.                         *)
THEOREM ExecutionsAreBudgeted == Spec => []ExecutionBudget
<1>1. ASSUME Inv, NEW k \in Keys
      PROVE  Cardinality(Executions(k)) <= 1 + losses[k]
  <2>1. Executions(k) \in SUBSET Spent(k)
    BY DEF Executions, Spent, InFlight
  <2>2. Cardinality(Executions(k)) <= Cardinality(Spent(k))
    BY <2>1, Finite, FS_Subset
  <2>3. Cardinality(Spent(k)) + Gap(k) <= 1 + losses[k] /\ Gap(k) \in 0..1
           /\ losses[k] \in Nat
    BY <1>1 DEF Inv, Account, Gap, TypeOK
  <2> QED
    BY <2>2, <2>3, Finite
<1>2. Inv => ExecutionBudget
  BY <1>1 DEF ExecutionBudget
<1> QED
  BY <1>2, InvHolds, PTL

(* The deferred Forget leaves no reservation behind that nobody works      *)
(* under, so a provider's retry of a failed event is accepted.             *)
THEOREM NoReservationIsOrphaned == Spec => []NoOrphan
<1>1. Inv => NoOrphan
  BY DEF Inv
<1> QED
  BY <1>1, InvHolds, PTL

(* A delivery answered with DuplicateEventError repeats one that was       *)
(* handled, even after lapses and evictions.                               *)
THEOREM DuplicatesWereHandled == Spec => []DuplicateWasHandled
<1>1. Inv => DuplicateWasHandled
  BY DEF Inv
<1> QED
  BY <1>1, InvHolds, PTL

=============================================================================
