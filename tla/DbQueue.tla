------------------------------ MODULE DbQueue ------------------------------
(***************************************************************************)
(* The database queue of adapters/queue/db: Push, Pop, Ack and Nack of one  *)
(* topic by drivers in several processes.  Every statement is one step; a   *)
(* Pop is a sweep for stale claims followed by rounds of SELECT and         *)
(* compare-and-set UPDATE.  Times are abstracted to the two comparisons     *)
(* made with them: is the row available, has the claim run out.             *)
(***************************************************************************)
EXTENDS Naturals, FiniteSets

CONSTANTS
    DbMessages,    \* messages that may be pushed
    Pushers,       \* goroutines in Push
    Poppers,       \* goroutines that pop and settle
    DbBuffer,      \* Options.Buffer, 0 for no limit
    ReclaimBatch,  \* Options.ReclaimBatch
    MaxDelivery,   \* attempts a message may reach
    NoMsg

ASSUME DbQueueConstants ==
    /\ DbBuffer \in Nat
    /\ ReclaimBatch \in Nat \ {0}
    /\ MaxDelivery \in Nat
    /\ NoMsg \notin DbMessages

VARIABLES
    row,       \* the row of a message
    pusher,    \* per pusher: the message that passed the buffer check, and if delayed
    popper,    \* per popper: program counter, message, attempt read
    pushed,    \* number of rows inserted: the next seq
    dbClosed   \* goroutines whose driver is closed; each has its own

dbVars == << row, pusher, popper, pushed, dbClosed >>
-----------------------------------------------------------------------------
\* state is absent before the INSERT and gone after the DELETE; claimed says
\* claimed_by # '', ready says available_at <= now, stale claimed_until <= now.
DbRow ==
    [state : {"absent", "stored", "gone"}, seq : Nat, attempt : Nat,
     ready : BOOLEAN, claimed : BOOLEAN, stale : BOOLEAN]

NoRowYet ==
    [state |-> "absent", seq |-> 0, attempt |-> 0,
     ready |-> FALSE, claimed |-> FALSE, stale |-> FALSE]

Popper == [pc : {"idle", "select", "claim", "hold"},
           msg : DbMessages \union {NoMsg}, attempt : Nat]

IdlePusher == [msg |-> NoMsg, delayed |-> FALSE]
IdlePopper == [pc |-> "idle", msg |-> NoMsg, attempt |-> 0]

DbTypeOK ==
    /\ row \in [DbMessages -> DbRow]
    /\ pusher \in [Pushers -> [msg : DbMessages \union {NoMsg}, delayed : BOOLEAN]]
    /\ popper \in [Poppers -> Popper]
    /\ pushed \in Nat
    /\ dbClosed \subseteq Pushers \union Poppers

DbInit ==
    /\ row = [m \in DbMessages |-> NoRowYet]
    /\ pusher = [p \in Pushers |-> IdlePusher]
    /\ popper = [p \in Poppers |-> IdlePopper]
    /\ pushed = 0
    /\ dbClosed = {}
-----------------------------------------------------------------------------
PopperAt(p, pc) == popper[p].pc = pc
PopperGoto(p, next) == popper' = [popper EXCEPT ![p] = next]

Stored(m) == row[m].state = "stored"
Unclaimed == {m \in DbMessages : Stored(m) /\ ~row[m].claimed}
Ready == {m \in Unclaimed : row[m].ready}
Stale == {m \in DbMessages : Stored(m) /\ row[m].claimed /\ row[m].stale}
Oldest(S) == {m \in S : \A o \in S : row[m].seq <= row[o].seq}

\* push: the buffer check, against the ready rows, or for a delayed message
\* against all that are unclaimed.
HasSpace(S) == DbBuffer = 0 \/ Cardinality(S) < DbBuffer

PushCheck(p) ==
    /\ pusher[p].msg = NoMsg
    /\ p \notin dbClosed
    /\ \E m \in DbMessages, delayed \in BOOLEAN :
          /\ row[m].state = "absent"
          /\ \A o \in Pushers : pusher[o].msg # m
          /\ HasSpace(IF delayed THEN Unclaimed ELSE Ready)
          /\ pusher' = [pusher EXCEPT ![p] = [msg |-> m, delayed |-> delayed]]
    /\ UNCHANGED << row, popper, pushed, dbClosed >>

\* The second look at closed, and the INSERT, which may fail.
PushInsert(p) ==
    LET m == pusher[p].msg IN
    /\ m # NoMsg
    /\ pusher' = [pusher EXCEPT ![p] = IdlePusher]
    /\ \/ /\ p \notin dbClosed
          /\ row' = [row EXCEPT ![m] =
                        [state |-> "stored", seq |-> pushed, attempt |-> 1,
                         ready |-> ~pusher[p].delayed, claimed |-> FALSE, stale |-> FALSE]]
          /\ pushed' = pushed + 1
       \/ UNCHANGED << row, pushed >>
    /\ UNCHANGED << popper, dbClosed >>

\* available_at passes.
BecomeReady(m) ==
    /\ m \in Unclaimed \ Ready
    /\ row' = [row EXCEPT ![m].ready = TRUE]
    /\ UNCHANGED << pusher, popper, pushed, dbClosed >>

\* claimed_until passes.
BecomeStale(m) ==
    /\ Stored(m) /\ row[m].claimed /\ ~row[m].stale
    /\ row[m].attempt < MaxDelivery
    /\ row' = [row EXCEPT ![m].stale = TRUE]
    /\ UNCHANGED << pusher, popper, pushed, dbClosed >>

\* Mutant of Batch: one less than the batch.
BatchShort(S) ==
    {m \in S : Cardinality({o \in S : row[o].seq < row[m].seq}) + 1 < ReclaimBatch}

\* reclaimStale: one UPDATE of at most a batch of stale claims, oldest first.
Batch(S) ==
    {m \in S : Cardinality({o \in S : row[o].seq < row[m].seq}) < ReclaimBatch}

\* Mutant of Released: the attempt stays.
ReleasedSame(r) == [r EXCEPT !.claimed = FALSE, !.stale = FALSE]

Released(r) == [r EXCEPT !.attempt = @ + 1, !.claimed = FALSE, !.stale = FALSE]

Reclaimed == [m \in DbMessages |-> IF m \in Batch(Stale) THEN Released(row[m]) ELSE row[m]]

PopStart(p) ==
    /\ PopperAt(p, "idle")
    /\ p \notin dbClosed
    /\ row' = Reclaimed
    /\ PopperGoto(p, [IdlePopper EXCEPT !.pc = "select"])
    /\ UNCHANGED << pusher, pushed, dbClosed >>

\* A later sweep of the same Pop, once every sweepInterval at most.
PopSweep(p) ==
    /\ PopperAt(p, "select")
    /\ Stale # {}
    /\ row' = Reclaimed
    /\ UNCHANGED << pusher, popper, pushed, dbClosed >>

\* tryClaim's SELECT, and its UPDATE guarded by what was read.
ClaimSelect(p) ==
    /\ PopperAt(p, "select")
    /\ \E m \in Oldest(Ready) :
          PopperGoto(p, [pc |-> "claim", msg |-> m, attempt |-> row[m].attempt])
    /\ UNCHANGED << row, pusher, pushed, dbClosed >>

\* Mutant of ClaimGuard: whoever has claimed it in the meantime is not seen.
ClaimGuardLoose(m, n) == Stored(m) /\ row[m].attempt = n

ClaimGuard(m, n) == m \in Unclaimed /\ row[m].attempt = n

ClaimUpdate(p) ==
    LET m == popper[p].msg IN
    /\ PopperAt(p, "claim")
    /\ IF ClaimGuard(m, popper[p].attempt)
       THEN /\ row' = [row EXCEPT ![m].claimed = TRUE, ![m].stale = FALSE]
            /\ PopperGoto(p, [popper[p] EXCEPT !.pc = "hold"])
       ELSE /\ PopperGoto(p, [IdlePopper EXCEPT !.pc = "select"])
            /\ UNCHANGED row
    /\ UNCHANGED << pusher, pushed, dbClosed >>

\* PollTimeout, a cancelled context, or a statement that failed.
PopGivesUp(p) ==
    /\ PopperAt(p, "select")
    /\ PopperGoto(p, IdlePopper)
    /\ UNCHANGED << row, pusher, pushed, dbClosed >>

\* Ack, and Nack with and without requeue, under the (id, attempt) guard.
SettleGuard(m, n) == Stored(m) /\ row[m].attempt = n

SettleMsg(p) ==
    LET m == popper[p].msg
        guarded == SettleGuard(m, popper[p].attempt)
    IN
    /\ PopperAt(p, "hold")
    /\ \/ /\ p \in dbClosed \/ ~guarded
          /\ UNCHANGED row
       \/ /\ p \notin dbClosed /\ guarded
          /\ row' = [row EXCEPT ![m] = [NoRowYet EXCEPT !.state = "gone"]]
       \/ /\ p \notin dbClosed /\ guarded
          /\ row[m].attempt < MaxDelivery
          /\ row' = [row EXCEPT ![m] = [Released(row[m]) EXCEPT !.ready = TRUE]]
    /\ PopperGoto(p, IdlePopper)
    /\ UNCHANGED << pusher, pushed, dbClosed >>

\* The goroutine or its process dies; what it held stays claimed.
PopperDies(p) ==
    /\ popper[p].pc \in {"claim", "hold"}
    /\ PopperGoto(p, IdlePopper)
    /\ UNCHANGED << row, pusher, pushed, dbClosed >>

CloseDb(g) ==
    /\ g \notin dbClosed
    /\ dbClosed' = dbClosed \union {g}
    /\ UNCHANGED << row, pusher, popper, pushed >>

PopStep(p) == PopSweep(p) \/ ClaimSelect(p) \/ ClaimUpdate(p)

DbNext ==
    \/ \E p \in Pushers : PushCheck(p) \/ PushInsert(p)
    \/ \E p \in Poppers :
          PopStart(p) \/ PopStep(p) \/ PopGivesUp(p) \/ SettleMsg(p) \/ PopperDies(p)
    \/ \E m \in DbMessages : BecomeReady(m) \/ BecomeStale(m)
    \/ \E g \in Pushers \union Poppers : CloseDb(g)

DbSpec == DbInit /\ [][DbNext]_dbVars

\* Consumers keep popping, a Pop goes on, and what was popped is settled.
DbFairness ==
    \A p \in Poppers :
        /\ WF_dbVars(PopStart(p))
        /\ WF_dbVars(PopStep(p))
        /\ WF_dbVars(SettleMsg(p))

DbFairSpec == DbSpec /\ DbFairness
-----------------------------------------------------------------------------
(* Properties. *)

\* Every step is a step of the contract that workers rely on: a message that
\* was stored is waiting or leased until a settlement of its current attempt
\* removes it, although a sweep, a claim and a late Ack of three processes
\* meet on one row.
DbPlace(m) ==
    CASE row[m].state = "absent" -> "absent"
      [] row[m].state = "gone" -> "gone"
      [] Stored(m) /\ ~row[m].claimed -> "waiting"
      [] OTHER -> "leased"

DbContract == INSTANCE QueueContract WITH
                  Messages <- DbMessages,
                  place <- [m \in DbMessages |-> DbPlace(m)],
                  attempt <- [m \in DbMessages |-> row[m].attempt]

DbKeepsContract == DbContract!Spec

\* A claim that ran out does not last: it is released or settled, whatever
\* its holder does, as long as one driver that pops is open (reclaimStale
\* releases only a batch at a time, oldest first).
StaleClaimEnds ==
    \A m \in DbMessages : (m \in Stale) ~> (m \notin Stale \/ Poppers \subseteq dbClosed)

Holds(p) == PopperAt(p, "hold")

\* A delivery has one holder: two poppers never hold a message under the same
\* attempt, although the claim is checked by a SELECT and made by an UPDATE.
OneHolder ==
    \A p, q \in Poppers :
        (p # q /\ Holds(p) /\ Holds(q)) =>
            << popper[p].msg, popper[p].attempt >> # << popper[q].msg, popper[q].attempt >>
=============================================================================
