-------------------------------- MODULE Inbox --------------------------------
(***************************************************************************)
(* The transactional inbox of adapters/outbox/db/inbox.go.  A consumer     *)
(* that receives an event opens a transaction and calls Process, which     *)
(* inserts the event id and, when the id is new, runs the consumer's       *)
(* function in the same transaction.  The database (external) makes a      *)
(* second insert of an id wait for a transaction that has inserted it and  *)
(* is still open, and drops both the id and the effects on a rollback.     *)
(***************************************************************************)
EXTENDS Naturals

CONSTANTS
    Events,        \* event ids
    Consumers,     \* goroutines or replicas that handle deliveries
    MaxRollbacks   \* bound: transactions that do not commit

ASSUME InboxAssumption == MaxRollbacks \in Nat

VARIABLES
    inbox,      \* event ids of committed transactions
    effects,    \* how often the effects of an event were committed
    tx,         \* the event of a consumer's transaction, a set of at most one
    step,       \* how far that transaction is
    rollbacks   \* how much of MaxRollbacks is used

inboxVars == <<inbox, effects, tx, step, rollbacks>>

(* idle: no transaction.  begun: Process not yet called.  inserted: the id *)
(* is new, fn has not run.  ran: fn returned nil.  seen: the id was known  *)
(* and Process returned nil without fn.                                    *)
Steps == {"idle", "begun", "inserted", "ran", "seen"}

InboxInit ==
    /\ inbox = {}
    /\ effects = [e \in Events |-> 0]
    /\ tx = [c \in Consumers |-> {}]
    /\ step = [c \in Consumers |-> "idle"]
    /\ rollbacks = 0

Begin(c, e) ==
    /\ step[c] = "idle"
    /\ tx' = [tx EXCEPT ![c] = {e}]
    /\ step' = [step EXCEPT ![c] = "begun"]
    /\ UNCHANGED <<inbox, effects, rollbacks>>

(* An open transaction of another consumer has inserted the id.            *)
Blocked(c) ==
    \E d \in Consumers \ {c} :
        step[d] \in {"inserted", "ran"} /\ tx[d] = tx[c]

(* Mutant of Process: fn runs whether or not the insert added a row.       *)
ProcessAnyway(c) ==
    /\ step[c] = "begun"
    /\ ~Blocked(c)
    /\ step' = [step EXCEPT ![c] = "inserted"]
    /\ UNCHANGED <<inbox, effects, tx, rollbacks>>

(* Process up to the call of fn: INSERT ... ON CONFLICT DO NOTHING, and    *)
(* the test of the number of rows it added.                                *)
Process(c) ==
    /\ step[c] = "begun"
    /\ ~Blocked(c)
    /\ step' = [step EXCEPT ![c] =
                   IF tx[c] \subseteq inbox THEN "seen" ELSE "inserted"]
    /\ UNCHANGED <<inbox, effects, tx, rollbacks>>

(* fn succeeds; its writes are in the transaction, not yet visible.        *)
RunFn(c) ==
    /\ step[c] = "inserted"
    /\ step' = [step EXCEPT ![c] = "ran"]
    /\ UNCHANGED <<inbox, effects, tx, rollbacks>>

(* The caller commits after Process returned nil.                          *)
Commit(c) ==
    /\ step[c] \in {"ran", "seen"}
    /\ IF step[c] = "ran"
       THEN /\ inbox' = inbox \union tx[c]
            /\ effects' = [e \in Events |->
                              IF e \in tx[c] THEN effects[e] + 1
                                             ELSE effects[e]]
       ELSE UNCHANGED <<inbox, effects>>
    /\ tx' = [tx EXCEPT ![c] = {}]
    /\ step' = [step EXCEPT ![c] = "idle"]
    /\ UNCHANGED rollbacks

(* fn or a statement fails, the context ends, the commit is refused, or    *)
(* the consumer dies.                                                      *)
Rollback(c) ==
    /\ rollbacks < MaxRollbacks
    /\ step[c] # "idle"
    /\ rollbacks' = rollbacks + 1
    /\ tx' = [tx EXCEPT ![c] = {}]
    /\ step' = [step EXCEPT ![c] = "idle"]
    /\ UNCHANGED <<inbox, effects>>

Advance(c) == Process(c) \/ RunFn(c) \/ Commit(c)

InboxNext ==
    \E c \in Consumers :
        \/ \E e \in Events : Begin(c, e)
        \/ Advance(c)
        \/ Rollback(c)

InboxSpec == InboxInit /\ [][InboxNext]_inboxVars

-----------------------------------------------------------------------------
(* Each variable has its type, and a consumer has an event exactly while   *)
(* it has a transaction.                                                   *)
InboxTypeOK ==
    /\ inbox \subseteq Events
    /\ effects \in [Events -> Nat]
    /\ tx \in [Consumers -> SUBSET Events]
    /\ step \in [Consumers -> Steps]
    /\ rollbacks \in 0..MaxRollbacks
    /\ \A c \in Consumers : step[c] = "idle" <=> tx[c] = {}

(* core/outbox.Inbox: side effects apply exactly once even under           *)
(* at-least-once delivery.  The effects of an event are committed once if  *)
(* its id is in the inbox, and not at all if it is not.                    *)
ExactlyOnce ==
    \A e \in Events : effects[e] = IF e \in inbox THEN 1 ELSE 0

=============================================================================
