--------------------------- MODULE DbQueueProofs ---------------------------
(***************************************************************************)
(* The database queue keeps the queue contract and never has two holders   *)
(* of one delivery, for any number of messages, drivers and attempts, any  *)
(* buffer and any batch.  The inductive invariant relates what goroutines  *)
(* remember to the table: a message that passed the buffer check has no    *)
(* row yet, a message that was read has one, and whoever holds the current *)
(* attempt of a row is its claimant.                                       *)
(***************************************************************************)
EXTENDS DbQueue, TLAPS

(* Two pushers never carry the same message, and its row is still missing. *)
CarriedIsNew ==
    \A p \in Pushers :
        pusher[p].msg # NoMsg =>
            /\ row[pusher[p].msg].state = "absent"
            /\ \A o \in Pushers : pusher[o].msg = pusher[p].msg => o = p

(* What a popper read is not newer than the row.                           *)
ReadIsPast ==
    \A p \in Poppers :
        popper[p].pc \in {"claim", "hold"} =>
            /\ popper[p].msg \in DbMessages
            /\ row[popper[p].msg].state # "absent"
            /\ Stored(popper[p].msg) => popper[p].attempt <= row[popper[p].msg].attempt

(* Whoever holds the current attempt of a row holds its claim.             *)
HolderHasClaim ==
    \A p \in Poppers :
        (Holds(p) /\ Stored(popper[p].msg)
            /\ popper[p].attempt = row[popper[p].msg].attempt) =>
                row[popper[p].msg].claimed

DbInv == DbTypeOK /\ CarriedIsNew /\ ReadIsPast /\ HolderHasClaim /\ OneHolder

(* The empty table, with nobody at work.                                   *)
LEMMA DbInvInit == DbInit => DbInv
BY DbQueueConstants
   DEF DbInit, DbInv, DbTypeOK, CarriedIsNew, ReadIsPast, HolderHasClaim, OneHolder,
       DbRow, NoRowYet, Popper, IdlePusher, IdlePopper, Holds, PopperAt, Stored

(* A released row keeps its type and its state; its attempt goes up.       *)
LEMMA ReleasedRow ==
    ASSUME NEW r \in DbRow
    PROVE  /\ Released(r) \in DbRow
           /\ Released(r).state = r.state
           /\ Released(r).attempt = r.attempt + 1
           /\ Released(r).claimed = FALSE
<1>1. r.attempt \in Nat /\ r.attempt + 1 \in Nat
  BY DEF DbRow
<1>2. Released(r).state = r.state /\ Released(r).attempt = r.attempt + 1
  BY DEF Released, DbRow
<1>3. Released(r).claimed = FALSE
  BY Zenon DEF Released, DbRow
<1>4. Released(r) \in DbRow
  BY <1>1, Zenon DEF Released, DbRow
<1> QED BY <1>2, <1>3, <1>4

(* What a sweep does to every row: nothing, or a release of a claim.       *)
LEMMA ReclaimedRows ==
    ASSUME DbTypeOK
    PROVE  \A m \in DbMessages :
              \/ Reclaimed[m] = row[m]
              \/ /\ Reclaimed[m] = Released(row[m])
                 /\ Stored(m) /\ row[m].claimed
BY DEF Reclaimed, Batch, Stale

(* A sweep keeps the invariant, whoever makes it: a popper may at the same *)
(* time go from idle to its first SELECT.                                  *)
LEMMA SweepKeeps ==
    ASSUME DbInv, row' = Reclaimed, UNCHANGED << pusher, pushed, dbClosed >>,
           \/ UNCHANGED popper
           \/ \E p \in Poppers : PopperGoto(p, [IdlePopper EXCEPT !.pc = "select"])
    PROVE  DbInv'
<1>0. DbTypeOK
  BY DEF DbInv
<1>1. \A m \in DbMessages :
         /\ row'[m] \in DbRow /\ row'[m].state = row[m].state
         /\ \/ row'[m] = row[m]
            \/ row'[m].attempt = row[m].attempt + 1
         /\ row[m].attempt \in Nat
  <2> SUFFICES ASSUME NEW m \in DbMessages
               PROVE /\ row'[m] \in DbRow /\ row'[m].state = row[m].state
                     /\ \/ row'[m] = row[m]
                        \/ row'[m].attempt = row[m].attempt + 1
                     /\ row[m].attempt \in Nat
    OBVIOUS
  <2>1. row[m] \in DbRow
    BY <1>0 DEF DbTypeOK
  <2>2. row[m].attempt \in Nat
    BY <2>1 DEF DbRow
  <2> QED
    BY <1>0, <2>1, <2>2, ReclaimedRows, ReleasedRow
<1>2. row' \in [DbMessages -> DbRow]
  BY <1>1 DEF Reclaimed
<1>3. popper' \in [Poppers -> Popper]
  BY <1>0 DEF DbTypeOK, PopperGoto, IdlePopper, Popper
<1>4. DbTypeOK'
  BY <1>0, <1>2, <1>3 DEF DbTypeOK
<1>5. \A q \in Poppers :
         popper'[q].pc \in {"claim", "hold"} => popper'[q] = popper[q]
  BY <1>0 DEF DbTypeOK, PopperGoto, IdlePopper, Popper
<1>6. CarriedIsNew'
  BY <1>0, <1>1 DEF DbInv, DbTypeOK, CarriedIsNew
<1>7. ReadIsPast'
  <2> SUFFICES ASSUME NEW q \in Poppers, popper'[q].pc \in {"claim", "hold"}
               PROVE /\ popper'[q].msg \in DbMessages
                     /\ row'[popper'[q].msg].state # "absent"
                     /\ Stored(popper[q].msg)' => popper'[q].attempt <= row'[popper'[q].msg].attempt
    BY DEF ReadIsPast, Stored
  <2>1. popper'[q] = popper[q] /\ popper[q].pc \in {"claim", "hold"}
    BY <1>5
  <2>2. popper[q].attempt \in Nat
    BY <1>0 DEF DbTypeOK, Popper
  <2> QED
    BY <1>1, <2>1, <2>2 DEF DbInv, ReadIsPast, Stored
<1>8. HolderHasClaim'
  <2> SUFFICES ASSUME NEW q \in Poppers, Holds(q)', Stored(popper[q].msg)',
                      popper'[q].attempt = row'[popper'[q].msg].attempt
               PROVE row'[popper'[q].msg].claimed
    BY DEF HolderHasClaim
  <2>1. popper'[q] = popper[q] /\ popper[q].pc = "hold"
    BY <1>5 DEF Holds, PopperAt
  <2>2. /\ popper[q].msg \in DbMessages /\ Stored(popper[q].msg)
        /\ popper[q].attempt <= row[popper[q].msg].attempt
    BY <1>1, <2>1 DEF DbInv, ReadIsPast, Stored
  <2>3. row'[popper[q].msg] = row[popper[q].msg]
    <3>1. popper[q].attempt \in Nat
      BY <1>0 DEF DbTypeOK, Popper
    <3> QED BY <1>1, <2>1, <2>2, <3>1
  <2> QED
    BY <2>1, <2>2, <2>3 DEF DbInv, HolderHasClaim, Holds, PopperAt
<1>9. OneHolder'
  BY <1>5 DEF DbInv, OneHolder, Holds, PopperAt
<1> QED
  BY <1>4, <1>6, <1>7, <1>8, <1>9 DEF DbInv

(* Every step keeps the inductive invariant.                               *)
LEMMA DbInvStep == DbInv /\ [DbNext]_dbVars => DbInv'
<1> SUFFICES ASSUME DbInv, [DbNext]_dbVars PROVE DbInv'
  OBVIOUS
<1>0. /\ DbTypeOK /\ CarriedIsNew /\ ReadIsPast /\ HolderHasClaim /\ OneHolder
      /\ NoMsg \notin DbMessages
  BY DbQueueConstants DEF DbInv
<1>1. ASSUME NEW p \in Pushers, PushCheck(p) PROVE DbInv'
  <2>1. PICK m \in DbMessages, delayed \in BOOLEAN :
           /\ row[m].state = "absent"
           /\ \A o \in Pushers : pusher[o].msg # m
           /\ pusher' = [pusher EXCEPT ![p] = [msg |-> m, delayed |-> delayed]]
    BY <1>1 DEF PushCheck
  <2>2. UNCHANGED << row, popper, pushed, dbClosed >>
    BY <1>1 DEF PushCheck
  <2>3. DbTypeOK'
    BY <1>0, <2>1, <2>2 DEF DbTypeOK
  <2>4. CarriedIsNew'
    BY <1>0, <2>1, <2>2 DEF CarriedIsNew, DbTypeOK
  <2> QED
    BY <1>0, <2>2, <2>3, <2>4
       DEF DbInv, ReadIsPast, HolderHasClaim, OneHolder, Holds, PopperAt, Stored
<1>2. ASSUME NEW p \in Pushers, PushInsert(p) PROVE DbInv'
  <2> DEFINE m == pusher[p].msg
             new == [state |-> "stored", seq |-> pushed, attempt |-> 1,
                     ready |-> ~pusher[p].delayed, claimed |-> FALSE, stale |-> FALSE]
  <2>1. /\ m \in DbMessages /\ row[m].state = "absent"
        /\ pusher' = [pusher EXCEPT ![p] = IdlePusher]
        /\ UNCHANGED << popper, dbClosed >>
        /\ \A o \in Pushers : pusher[o].msg = m => o = p
    BY <1>0, <1>2 DEF PushInsert, CarriedIsNew, DbTypeOK
  <2>2. \/ row' = [row EXCEPT ![m] = new] /\ pushed' = pushed + 1
        \/ UNCHANGED << row, pushed >>
    BY <1>2 DEF PushInsert
  <2>3. new \in DbRow
    BY <1>0 DEF DbTypeOK, DbRow
  <2>4. DbTypeOK'
    BY <1>0, <2>1, <2>2, <2>3 DEF DbTypeOK, IdlePusher
  <2>5. CarriedIsNew'
    BY <1>0, <2>1, <2>2 DEF CarriedIsNew, DbTypeOK, IdlePusher
  <2>6. \A q \in Poppers :
           popper[q].pc \in {"claim", "hold"} => row'[popper[q].msg] = row[popper[q].msg]
    BY <1>0, <2>1, <2>2 DEF ReadIsPast, DbTypeOK
  <2>7. ReadIsPast' /\ HolderHasClaim' /\ OneHolder'
    BY <1>0, <2>1, <2>6
       DEF ReadIsPast, HolderHasClaim, OneHolder, Holds, PopperAt, Stored
  <2> QED BY <2>4, <2>5, <2>7 DEF DbInv
<1>3. ASSUME NEW p \in Poppers, PopStart(p) PROVE DbInv'
  BY <1>3, SweepKeeps DEF PopStart
<1>4. ASSUME NEW p \in Poppers, PopSweep(p) PROVE DbInv'
  BY <1>4, SweepKeeps DEF PopSweep
<1>5. ASSUME NEW p \in Poppers, ClaimSelect(p) PROVE DbInv'
  <2>1. PICK m \in Oldest(Ready) :
           popper' = [popper EXCEPT ![p] =
                         [pc |-> "claim", msg |-> m, attempt |-> row[m].attempt]]
    BY <1>5 DEF ClaimSelect, PopperGoto
  <2>2. UNCHANGED << row, pusher, pushed, dbClosed >>
    BY <1>5 DEF ClaimSelect
  <2>3. m \in DbMessages /\ Stored(m)
    BY DEF Oldest, Ready, Unclaimed
  <2>4. row[m].attempt \in Nat
    BY <1>0, <2>3 DEF DbTypeOK, DbRow
  <2>5. DbTypeOK'
    BY <1>0, <2>1, <2>2, <2>3, <2>4 DEF DbTypeOK, Popper
  <2>6. ReadIsPast'
    BY <1>0, <2>1, <2>2, <2>3, <2>4 DEF ReadIsPast, DbTypeOK, Stored
  <2>7. HolderHasClaim' /\ OneHolder'
    BY <1>0, <2>1, <2>2 DEF HolderHasClaim, OneHolder, Holds, PopperAt, Stored, DbTypeOK
  <2> QED BY <1>0, <2>2, <2>5, <2>6, <2>7 DEF DbInv, CarriedIsNew
<1>6. ASSUME NEW p \in Poppers, ClaimUpdate(p) PROVE DbInv'
  <2> DEFINE m == popper[p].msg
  <2>1. /\ popper[p].pc = "claim" /\ m \in DbMessages /\ row[m].state # "absent"
        /\ UNCHANGED << pusher, pushed, dbClosed >>
    BY <1>0, <1>6 DEF ClaimUpdate, PopperAt, ReadIsPast
  <2>2. CASE ClaimGuard(m, popper[p].attempt)
    <3>1. /\ row' = [row EXCEPT ![m].claimed = TRUE, ![m].stale = FALSE]
          /\ popper' = [popper EXCEPT ![p] = [popper[p] EXCEPT !.pc = "hold"]]
      BY <1>6, <2>2 DEF ClaimUpdate, PopperGoto
    <3>2. /\ Stored(m) /\ row[m].attempt = popper[p].attempt
          /\ ~row[m].claimed
      BY <2>2 DEF ClaimGuard, Unclaimed
    <3>3. \A q \in Poppers : Holds(q) =>
             << popper[q].msg, popper[q].attempt >> # << m, popper[p].attempt >>
      BY <1>0, <3>2 DEF HolderHasClaim
    <3>4. /\ row'[m] \in DbRow /\ row'[m].state = row[m].state
          /\ row'[m].attempt = row[m].attempt
      BY <1>0, <2>1, <3>1 DEF DbTypeOK, DbRow
    <3>5. row'[m].claimed = TRUE
      BY <1>0, <2>1, <3>1, Zenon DEF DbTypeOK, DbRow
    <3>6. \A o \in DbMessages \ {m} : row'[o] = row[o]
      BY <1>0, <3>1 DEF DbTypeOK
    <3>7. row' \in [DbMessages -> DbRow]
      <4>1. row' \in [DbMessages -> {row'[o] : o \in DbMessages}]
        BY <1>0, <3>1 DEF DbTypeOK
      <4> QED BY <1>0, <3>4, <3>6, <4>1 DEF DbTypeOK
    <3>8. DbTypeOK'
      BY <1>0, <2>1, <3>1, <3>7 DEF DbTypeOK, Popper
    <3>9. CarriedIsNew'
      BY <1>0, <2>1, <3>4, <3>6 DEF CarriedIsNew, DbTypeOK
    <3>10. \A q \in Poppers : popper'[q].msg = popper[q].msg /\ popper'[q].attempt = popper[q].attempt
      BY <1>0, <3>1 DEF DbTypeOK, Popper
    <3>11. \A q \in Poppers \ {p} : popper'[q] = popper[q]
      BY <1>0, <3>1 DEF DbTypeOK
    <3>12. ReadIsPast'
      BY <1>0, <2>1, <3>4, <3>6, <3>10, <3>11 DEF ReadIsPast, Stored
    <3>13. HolderHasClaim'
      BY <1>0, <2>1, <3>4, <3>5, <3>6, <3>10, <3>11
         DEF HolderHasClaim, Holds, PopperAt, Stored, ReadIsPast
    <3>14. OneHolder'
      BY <1>0, <3>3, <3>10, <3>11 DEF OneHolder, Holds, PopperAt
    <3> QED BY <3>8, <3>9, <3>12, <3>13, <3>14 DEF DbInv
  <2>3. CASE ~ClaimGuard(m, popper[p].attempt)
    <3>1. /\ UNCHANGED row
          /\ popper' = [popper EXCEPT ![p] = [IdlePopper EXCEPT !.pc = "select"]]
      BY <1>6, <2>3 DEF ClaimUpdate, PopperGoto
    <3> QED
      BY <1>0, <2>1, <3>1
         DEF DbInv, DbTypeOK, Popper, IdlePopper, CarriedIsNew, ReadIsPast, HolderHasClaim,
             OneHolder, Holds, PopperAt, Stored
  <2> QED BY <2>2, <2>3
<1>7. ASSUME NEW p \in Poppers, PopGivesUp(p) \/ PopperDies(p) PROVE DbInv'
  BY <1>0, <1>7
     DEF PopGivesUp, PopperDies, PopperGoto, DbInv, DbTypeOK, Popper, IdlePopper, CarriedIsNew,
         ReadIsPast, HolderHasClaim, OneHolder, Holds, PopperAt, Stored
<1>8. ASSUME NEW p \in Poppers, SettleMsg(p) PROVE DbInv'
  <2> DEFINE m == popper[p].msg
  <2>1. /\ m \in DbMessages /\ row[m].state # "absent" /\ row[m] \in DbRow
        /\ popper' = [popper EXCEPT ![p] = IdlePopper]
        /\ UNCHANGED << pusher, pushed, dbClosed >>
    BY <1>0, <1>8 DEF SettleMsg, PopperAt, PopperGoto, ReadIsPast, DbTypeOK
  <2>2. PICK r : /\ row' = [row EXCEPT ![m] = r]
                 /\ \/ r = row[m]
                    \/ r = [NoRowYet EXCEPT !.state = "gone"]
                    \/ Stored(m) /\ r = [Released(row[m]) EXCEPT !.ready = TRUE]
    <3>1. UNCHANGED row => row' = [row EXCEPT ![m] = row[m]]
      BY <1>0, <2>1 DEF DbTypeOK
    <3> QED
      BY <1>8, <3>1 DEF SettleMsg, SettleGuard
  <2>3. /\ r \in DbRow /\ r.state # "absent"
        /\ \/ r = row[m]
           \/ r.state = "gone"
           \/ Stored(m) /\ r.state = "stored" /\ r.attempt = row[m].attempt + 1
    <3>1. CASE r = row[m]
      BY <2>1, <3>1
    <3>2. CASE r = [NoRowYet EXCEPT !.state = "gone"]
      BY <3>2 DEF NoRowYet, DbRow
    <3>3. CASE Stored(m) /\ r = [Released(row[m]) EXCEPT !.ready = TRUE]
      <4>1. /\ Released(row[m]) \in DbRow /\ Released(row[m]).state = "stored"
            /\ Released(row[m]).attempt = row[m].attempt + 1
        BY <2>1, <3>3, ReleasedRow DEF Stored
      <4>2. r \in DbRow
        BY <3>3, <4>1, Zenon DEF DbRow
      <4>3. r.state = "stored" /\ r.attempt = row[m].attempt + 1
        BY <3>3, <4>1 DEF DbRow
      <4> QED BY <3>3, <4>2, <4>3
    <3> QED BY <2>2, <3>1, <3>2, <3>3
  <2>4. DbTypeOK'
    BY <1>0, <2>1, <2>2, <2>3 DEF DbTypeOK, Popper, IdlePopper
  <2>5. CarriedIsNew'
    BY <1>0, <2>1, <2>2 DEF CarriedIsNew, DbTypeOK
  <2>6. \A q \in Poppers :
           popper'[q].pc \in {"claim", "hold"} => popper'[q] = popper[q]
    BY <1>0, <2>1 DEF DbTypeOK, IdlePopper
  <2>7. \A q \in Poppers : popper[q].attempt \in Nat
    BY <1>0 DEF DbTypeOK, Popper
  <2>8. row'[m] = r /\ \A o \in DbMessages : o # m => row'[o] = row[o]
    BY <1>0, <2>1, <2>2 DEF DbTypeOK
  <2>13. row[m].attempt \in Nat
    BY <2>1 DEF DbRow
  <2>9. ReadIsPast'
    <3> SUFFICES ASSUME NEW q \in Poppers, popper'[q].pc \in {"claim", "hold"}
                 PROVE /\ popper'[q].msg \in DbMessages
                       /\ row'[popper'[q].msg].state # "absent"
                       /\ Stored(popper[q].msg)' => popper'[q].attempt <= row'[popper'[q].msg].attempt
      BY DEF ReadIsPast, Stored
    <3>1. /\ popper'[q] = popper[q] /\ popper[q].msg \in DbMessages
          /\ row[popper[q].msg].state # "absent"
          /\ row[popper[q].msg].state = "stored" =>
                popper[q].attempt <= row[popper[q].msg].attempt
      BY <1>0, <2>6 DEF ReadIsPast, Stored
    <3>2. CASE popper[q].msg = m
      BY <2>3, <2>7, <2>8, <2>13, <3>1, <3>2 DEF Stored
    <3>3. CASE popper[q].msg # m
      BY <2>8, <3>1, <3>3 DEF Stored
    <3> QED BY <3>2, <3>3
  <2>10. HolderHasClaim'
    <3> SUFFICES ASSUME NEW q \in Poppers, Holds(q)', Stored(popper[q].msg)',
                        popper'[q].attempt = row'[popper'[q].msg].attempt
                 PROVE row'[popper'[q].msg].claimed
      BY DEF HolderHasClaim
    <3>1. popper'[q] = popper[q] /\ popper[q].pc = "hold" /\ popper[q].msg \in DbMessages
      BY <1>0, <2>6 DEF Holds, PopperAt, ReadIsPast
    <3>2. row'[popper[q].msg] = row[popper[q].msg]
      <4>1. CASE popper[q].msg # m
        BY <2>8, <3>1, <4>1
      <4>2. CASE popper[q].msg = m
        <5>1. row'[m] = r /\ r.state = "stored" /\ r.attempt = popper[q].attempt
          BY <2>1, <2>8, <3>1, <4>2 DEF Stored
        <5>2. r.attempt # row[m].attempt + 1
          <6>1. Stored(m) => popper[q].attempt <= row[m].attempt
            BY <1>0, <3>1, <4>2 DEF ReadIsPast
          <6> QED BY <2>3, <2>7, <2>13, <5>1, <6>1
        <5> QED BY <2>3, <4>2, <5>1, <5>2
      <4> QED BY <4>1, <4>2
    <3> QED
      BY <1>0, <3>1, <3>2 DEF HolderHasClaim, Holds, PopperAt, Stored
  <2>11. OneHolder'
    BY <1>0, <2>6 DEF OneHolder, Holds, PopperAt
  <2> QED BY <2>4, <2>5, <2>9, <2>10, <2>11 DEF DbInv
<1>9. ASSUME NEW m \in DbMessages, BecomeReady(m) \/ BecomeStale(m) PROVE DbInv'
  <2>1. /\ UNCHANGED << pusher, popper, pushed, dbClosed >>
        /\ \/ row' = [row EXCEPT ![m].ready = TRUE]
           \/ row' = [row EXCEPT ![m].stale = TRUE]
    BY <1>9 DEF BecomeReady, BecomeStale
  <2>8. PICK r : /\ row' = [row EXCEPT ![m] = r]
                 /\ \/ r = [row[m] EXCEPT !.ready = TRUE]
                    \/ r = [row[m] EXCEPT !.stale = TRUE]
    BY <2>1
  <2>9. row[m] \in DbRow
    BY <1>0 DEF DbTypeOK
  <2>10. r \in DbRow /\ r.state = row[m].state /\ r.attempt = row[m].attempt
    <3>1. r \in DbRow
      BY <2>8, <2>9, Zenon DEF DbRow
    <3>2. r.state = row[m].state /\ r.attempt = row[m].attempt
      BY <2>8, <2>9 DEF DbRow
    <3> QED BY <3>1, <3>2
  <2>11. r.claimed = row[m].claimed
    BY <2>8, <2>9, Zenon DEF DbRow
  <2>12. row'[m] = r /\ \A o \in DbMessages : o # m => row'[o] = row[o]
    BY <1>0, <2>8 DEF DbTypeOK
  <2>2. row' \in [DbMessages -> DbRow]
    BY <1>0, <2>8, <2>10 DEF DbTypeOK
  <2>3. \A o \in DbMessages : /\ row'[o].state = row[o].state
                               /\ row'[o].attempt = row[o].attempt
    BY <2>10, <2>12
  <2>4. \A o \in DbMessages : row'[o].claimed = row[o].claimed
    BY <2>11, <2>12
  <2>5. DbTypeOK'
    BY <1>0, <2>1, <2>2 DEF DbTypeOK
  <2>6. CarriedIsNew' /\ ReadIsPast'
    BY <1>0, <2>1, <2>3 DEF CarriedIsNew, ReadIsPast, Stored, DbTypeOK
  <2>7. HolderHasClaim' /\ OneHolder'
    BY <1>0, <2>1, <2>3, <2>4
       DEF HolderHasClaim, OneHolder, Holds, PopperAt, Stored, ReadIsPast
  <2> QED BY <2>5, <2>6, <2>7 DEF DbInv
<1>10. ASSUME NEW g \in Pushers \union Poppers, CloseDb(g) PROVE DbInv'
  BY <1>0, <1>10
     DEF CloseDb, DbInv, DbTypeOK, CarriedIsNew, ReadIsPast, HolderHasClaim, OneHolder,
         Holds, PopperAt, Stored
<1>11. CASE UNCHANGED dbVars
  BY <1>0, <1>11
     DEF dbVars, DbInv, DbTypeOK, CarriedIsNew, ReadIsPast, HolderHasClaim, OneHolder,
         Holds, PopperAt, Stored
<1> QED
  BY <1>1, <1>2, <1>3, <1>4, <1>5, <1>6, <1>7, <1>8, <1>9, <1>10, <1>11 DEF DbNext, PopStep

(* What the contract sees of a row, by the row's state and claim.          *)
LEMMA PlaceOfRow ==
    ASSUME DbTypeOK, NEW m \in DbMessages
    PROVE  /\ row[m].state = "absent" => DbPlace(m) = "absent"
           /\ row[m].state = "gone" => DbPlace(m) = "gone"
           /\ Stored(m) /\ ~row[m].claimed => DbPlace(m) = "waiting"
           /\ Stored(m) /\ row[m].claimed => DbPlace(m) = "leased"
BY DEF DbPlace, Stored

(* The empty table is the contract's initial state.                        *)
LEMMA ContractInit == DbInit => DbContract!Init
BY DEF DbInit, DbContract!Init, DbPlace, NoRowYet, Stored

(* A sweep is the contract's Return of the claims it releases.             *)
LEMMA SweepReturns ==
    ASSUME DbInv, row' = Reclaimed
    PROVE  DbContract!Next
<1>0. PICK S : S = Batch(Stale)
  OBVIOUS
<1>1. DbTypeOK
  BY DEF DbInv
<1>2. S \subseteq DbMessages /\ \A m \in S : Stored(m) /\ row[m].claimed
  BY <1>0 DEF Batch, Stale
<1>3. \A m \in DbMessages : m \in S =>
         /\ row'[m].attempt = row[m].attempt + 1
         /\ DbPlace(m)' = "waiting" /\ DbPlace(m) = "leased"
  <2> SUFFICES ASSUME NEW m \in DbMessages, m \in S
               PROVE /\ row'[m].attempt = row[m].attempt + 1
                     /\ DbPlace(m)' = "waiting" /\ DbPlace(m) = "leased"
    OBVIOUS
  <2>1. row'[m] = Released(row[m]) /\ row[m] \in DbRow
    BY <1>0, <1>1 DEF Reclaimed, DbTypeOK
  <2>2. /\ row'[m].attempt = row[m].attempt + 1 /\ row'[m].state = "stored"
        /\ row'[m].claimed = FALSE
    BY <1>2, <2>1, ReleasedRow DEF Stored
  <2>3. DbPlace(m)' = "waiting"
    BY <2>2 DEF DbPlace, Stored
  <2>4. DbPlace(m) = "leased"
    BY <1>1, <1>2, PlaceOfRow
  <2> QED BY <2>2, <2>3, <2>4
<1>4. \A m \in DbMessages : m \notin S => row'[m] = row[m] /\ DbPlace(m)' = DbPlace(m)
  BY <1>0 DEF Reclaimed, DbPlace, Stored
<1>5. DbContract!Return(S)
  BY <1>2, <1>3, <1>4 DEF DbContract!Return
<1> QED BY <1>2, <1>5 DEF DbContract!Next

(* A step that leaves each row's state, claim and attempt alone is nothing *)
(* to the contract.                                                        *)
LEMMA SameRows ==
    ASSUME \A m \in DbMessages : /\ row'[m].state = row[m].state
                                 /\ row'[m].attempt = row[m].attempt
                                 /\ row'[m].claimed = row[m].claimed
    PROVE  UNCHANGED DbContract!contractVars
<1>1. \A m \in DbMessages : DbPlace(m)' = DbPlace(m)
  BY DEF DbPlace, Stored
<1> QED BY <1>1 DEF DbContract!contractVars

(* A step of one row leaves the others where the contract has them.        *)
LEMMA OneRow ==
    ASSUME DbTypeOK, NEW m \in DbMessages,
           \A o \in DbMessages : o # m => row'[o] = row[o]
    PROVE  \A o \in DbMessages :
              o # m => DbPlace(o)' = DbPlace(o) /\ row'[o].attempt = row[o].attempt
BY DEF DbPlace, Stored

(* Every step of the table is a step of the contract or nothing to it.     *)
LEMMA ContractStep ==
    DbInv /\ [DbNext]_dbVars => [DbContract!Next]_(DbContract!contractVars)
<1> SUFFICES ASSUME DbInv, [DbNext]_dbVars
             PROVE  DbContract!Next \/ UNCHANGED DbContract!contractVars
  OBVIOUS
<1>0. DbTypeOK /\ CarriedIsNew /\ ReadIsPast /\ HolderHasClaim
  BY DEF DbInv
<1>1. ASSUME UNCHANGED row PROVE UNCHANGED DbContract!contractVars
  BY <1>1, SameRows
<1>2. ASSUME NEW p \in Pushers, PushInsert(p), row' # row PROVE DbContract!Next
  <2>0. PICK m : m = pusher[p].msg
    OBVIOUS
  <2>1. /\ m \in DbMessages /\ row[m].state = "absent"
        /\ row' = [row EXCEPT ![m] =
                      [state |-> "stored", seq |-> pushed, attempt |-> 1,
                       ready |-> ~pusher[p].delayed, claimed |-> FALSE, stale |-> FALSE]]
    BY <1>0, <1>2, <2>0 DEF PushInsert, CarriedIsNew, DbTypeOK
  <2>2. row'[m] = [state |-> "stored", seq |-> pushed, attempt |-> 1,
                   ready |-> ~pusher[p].delayed, claimed |-> FALSE, stale |-> FALSE]
    BY <1>0, <2>1 DEF DbTypeOK
  <2>3. row'[m].state = "stored" /\ row'[m].attempt = 1
    BY <2>2
  <2>4. row'[m].claimed = FALSE
    BY <2>2
  <2>5. DbPlace(m) = "absent" /\ DbPlace(m)' = "waiting"
    BY <2>1, <2>3, <2>4 DEF DbPlace, Stored
  <2>6. \A o \in DbMessages : o # m => DbPlace(o)' = DbPlace(o) /\ row'[o].attempt = row[o].attempt
    BY <1>0, <2>1, OneRow DEF DbTypeOK
  <2>7. DbContract!Accept(m)
    BY <2>1, <2>3, <2>5, <2>6 DEF DbContract!Accept
  <2> QED BY <2>1, <2>7 DEF DbContract!Next
<1>3. ASSUME NEW p \in Poppers, ClaimUpdate(p), row' # row PROVE DbContract!Next
  <2>0. PICK m : m = popper[p].msg
    OBVIOUS
  <2>1. /\ m \in DbMessages /\ Stored(m) /\ ~row[m].claimed
        /\ row' = [row EXCEPT ![m].claimed = TRUE, ![m].stale = FALSE]
    BY <1>3, <2>0 DEF ClaimUpdate, ClaimGuard, Unclaimed
  <2>2. row[m] \in DbRow
    BY <1>0, <2>1 DEF DbTypeOK
  <2>3. row'[m].state = "stored" /\ row'[m].attempt = row[m].attempt
    BY <1>0, <2>1, <2>2 DEF DbRow, Stored, DbTypeOK
  <2>4. row'[m].claimed = TRUE
    BY <1>0, <2>1, <2>2, Zenon DEF DbRow, DbTypeOK
  <2>5. DbPlace(m) = "waiting" /\ DbPlace(m)' = "leased"
    BY <2>1, <2>3, <2>4 DEF DbPlace, Stored
  <2>6. \A o \in DbMessages : o # m => row'[o] = row[o]
    BY <1>0, <2>1 DEF DbTypeOK
  <2>7. \A o \in DbMessages : o # m => DbPlace(o)' = DbPlace(o) /\ row'[o].attempt = row[o].attempt
    BY <1>0, <2>1, <2>6, OneRow
  <2>8. DbContract!Deliver(m)
    BY <2>1, <2>3, <2>5, <2>7 DEF DbContract!Deliver
  <2> QED BY <2>1, <2>8 DEF DbContract!Next
<1>4. ASSUME NEW p \in Poppers, SettleMsg(p), row' # row PROVE DbContract!Next
  <2>0. PICK m : m = popper[p].msg
    OBVIOUS
  <2>1. m \in DbMessages /\ Stored(m) /\ row[m].claimed /\ row[m] \in DbRow
    BY <1>0, <1>4, <2>0
       DEF SettleMsg, SettleGuard, PopperAt, Holds, ReadIsPast, HolderHasClaim, DbTypeOK
  <2>2. DbPlace(m) = "leased"
    BY <1>0, <2>1, PlaceOfRow
  <2>3. CASE row' = [row EXCEPT ![m] = [NoRowYet EXCEPT !.state = "gone"]]
    <3>1. row'[m] = [NoRowYet EXCEPT !.state = "gone"]
      BY <1>0, <2>1, <2>3 DEF DbTypeOK
    <3>2. row'[m].state = "gone" /\ row'[m].attempt = 0
      BY <3>1 DEF NoRowYet
    <3>3. DbPlace(m)' = "gone"
      BY <3>2 DEF DbPlace, Stored
    <3>4. \A o \in DbMessages :
             o # m => DbPlace(o)' = DbPlace(o) /\ row'[o].attempt = row[o].attempt
      BY <1>0, <2>1, <2>3, OneRow DEF DbTypeOK
    <3>5. DbContract!Remove(m)
      BY <2>1, <2>2, <3>2, <3>3, <3>4 DEF DbContract!Remove
    <3> QED BY <2>1, <3>5 DEF DbContract!Next
  <2>4. CASE row' = [row EXCEPT ![m] = [Released(row[m]) EXCEPT !.ready = TRUE]]
    <3>1. /\ Released(row[m]) \in DbRow /\ Released(row[m]).state = "stored"
          /\ Released(row[m]).attempt = row[m].attempt + 1
          /\ Released(row[m]).claimed = FALSE
      BY <2>1, ReleasedRow DEF Stored
    <3>2. row'[m] = [Released(row[m]) EXCEPT !.ready = TRUE]
      BY <1>0, <2>1, <2>4 DEF DbTypeOK
    <3>3. row'[m].state = "stored" /\ row'[m].attempt = row[m].attempt + 1
      BY <3>1, <3>2 DEF DbRow
    <3>4. ~row'[m].claimed
      BY <3>1, <3>2, Zenon DEF DbRow
    <3>5. DbPlace(m)' = "waiting"
      BY <3>3, <3>4 DEF DbPlace, Stored
    <3>6. \A o \in DbMessages :
             o # m => DbPlace(o)' = DbPlace(o) /\ row'[o].attempt = row[o].attempt
      BY <1>0, <2>1, <2>4, OneRow DEF DbTypeOK
    <3>7. DbContract!Return({m})
      BY <2>1, <2>2, <3>3, <3>5, <3>6 DEF DbContract!Return
    <3>8. {m} \in SUBSET DbMessages
      BY <2>1
    <3> QED BY <3>7, <3>8 DEF DbContract!Next
  <2> QED BY <1>4, <2>0, <2>3, <2>4 DEF SettleMsg
<1>5. ASSUME NEW m \in DbMessages, BecomeReady(m) \/ BecomeStale(m)
      PROVE  UNCHANGED DbContract!contractVars
  <2>1. PICK r : /\ row' = [row EXCEPT ![m] = r]
                 /\ \/ r = [row[m] EXCEPT !.ready = TRUE]
                    \/ r = [row[m] EXCEPT !.stale = TRUE]
    BY <1>5 DEF BecomeReady, BecomeStale
  <2>2. row[m] \in DbRow
    BY <1>0 DEF DbTypeOK
  <2>3. r.state = row[m].state /\ r.attempt = row[m].attempt
    BY <2>1, <2>2 DEF DbRow
  <2>4. r.claimed = row[m].claimed
    BY <2>1, <2>2, Zenon DEF DbRow
  <2>5. row'[m] = r /\ \A o \in DbMessages : o # m => row'[o] = row[o]
    BY <1>0, <2>1 DEF DbTypeOK
  <2> QED BY <2>3, <2>4, <2>5, SameRows
<1>6. ASSUME NEW p \in Poppers, PopStart(p) \/ PopSweep(p) PROVE DbContract!Next
  BY <1>6, SweepReturns DEF PopStart, PopSweep
<1>7. row' = row \/ (\E p \in Pushers : PushInsert(p))
        \/ (\E p \in Poppers : PopStart(p) \/ PopSweep(p) \/ ClaimUpdate(p) \/ SettleMsg(p))
        \/ (\E m \in DbMessages : BecomeReady(m) \/ BecomeStale(m))
  BY DEF DbNext, PopStep, dbVars, PushCheck, ClaimSelect, PopGivesUp, PopperDies, CloseDb
<1> QED BY <1>1, <1>2, <1>3, <1>4, <1>5, <1>6, <1>7

(* The table, the goroutines and the drivers keep their types.             *)
THEOREM DbTypeCorrect == DbSpec => []DbTypeOK
<1>1. DbInv => DbTypeOK
  BY DEF DbInv
<1> QED BY DbInvInit, DbInvStep, <1>1, PTL DEF DbSpec

(* A delivery has one holder, although tryClaim selects and claims in two  *)
(* statements and a sweep may come between them.                           *)
THEOREM DbOneHolder == DbSpec => []OneHolder
<1>1. DbInv => OneHolder
  BY DEF DbInv
<1> QED BY DbInvInit, DbInvStep, <1>1, PTL DEF DbSpec

(* The database queue implements the queue contract: every statement of    *)
(* Push, Pop, Ack, Nack and the sweep is one step of it or none.           *)
THEOREM DbQueueRefines == DbSpec => DbKeepsContract
<1>1. DbInv /\ [DbNext]_dbVars => [DbContract!Next]_(DbContract!contractVars)
  BY ContractStep
<1> QED
  BY DbInvInit, DbInvStep, ContractInit, <1>1, PTL
     DEF DbSpec, DbKeepsContract, DbContract!Spec
=============================================================================
