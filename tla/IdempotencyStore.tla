-------------------------- MODULE IdempotencyStore --------------------------
(***************************************************************************)
(* The in-process idempotency.Store (adapters/idempotency/memory).  Every  *)
(* operation is one critical section that reads the clock under the mutex; *)
(* its outcomes are the operators below, for the callers' modules to build *)
(* their actions from.  A reservation has no owner: any caller of Complete *)
(* or Forget acts on whatever record its key has.                          *)
(***************************************************************************)
EXTENDS Naturals, FiniteSets

CONSTANTS
    Keys,        \* idempotency keys
    Prints,      \* request fingerprints
    StoreTTL,    \* Options.TTL
    MaxEntries,  \* Options.MaxEntries
    MaxTime,     \* bound: the last clock value
    None         \* no record

Records == [fp : Prints, done : BOOLEAN, expires : Nat]

ASSUME StoreAssumption ==
    /\ IsFiniteSet(Keys)
    /\ StoreTTL \in Nat \ {0}
    /\ MaxEntries \in Nat \ {0}
    /\ MaxTime \in Nat
    /\ None \notin Records

VARIABLES
    now,      \* the store's clock
    entries,  \* the record of a key, or None
    state,    \* open; closing: closed is set; closed: the table is dropped
    losses    \* how often the record of a key went other than by a Forget of
              \* a failed execution: lapsed, evicted, dropped or forgotten late

storeVars == <<now, entries, state, losses>>

StoreInit ==
    /\ now = 0
    /\ entries = [k \in Keys |-> None]
    /\ state = "open"
    /\ losses = [k \in Keys |-> 0]

Present == {k \in Keys : entries[k] # None}

(* expired: a record lives up to and including its deadline.               *)
Expired(k) == entries[k] # None /\ now > entries[k].expires

Live(k) == entries[k] # None /\ ~Expired(k)

Lapsed == {k \in Keys : Expired(k)}

-----------------------------------------------------------------------------
(* Mutant of Full: one record more than the bound.                         *)
FullLate == Cardinality(Present) > MaxEntries

Full == Cardinality(Present) >= MaxEntries

Soonest == {k \in Present : \A j \in Present :
               entries[k].expires <= entries[j].expires}

(* evictLocked: the keys it may delete, in the map's random order.         *)
Victims ==
    IF Full THEN {{k} : k \in IF Lapsed # {} THEN Lapsed ELSE Soonest}
            ELSE {{}}

Lose(gone) == losses' = [k \in Keys |-> IF k \in gone THEN losses[k] + 1
                                                      ELSE losses[k]]

(* The shared tail of Begin and Complete: a lapsed record of the key makes *)
(* room for the new one, a missing one evicts when the table is full.      *)
Insert(k, record) ==
    \E victim \in (IF entries[k] # None THEN {{k}} ELSE Victims) :
        /\ entries' = [[j \in Keys |-> IF j \in victim THEN None ELSE entries[j]]
                          EXCEPT ![k] = record]
        /\ Lose(victim)

Record(fp, done, expires) == [fp |-> fp, done |-> done, expires |-> expires]

-----------------------------------------------------------------------------
(* Begin reserves the key.                                                 *)
BeginReserves(k, fp, ttl) ==
    /\ state = "open"
    /\ ~Live(k)
    /\ Insert(k, Record(fp, FALSE, now + ttl))

(* Mutant of BeginReplays: done is not looked at.                          *)
BeginReplaysEarly(k, fp) ==
    state = "open" /\ Live(k) /\ entries[k].fp = fp

(* Begin reports a replay.                                                 *)
BeginReplays(k, fp) ==
    state = "open" /\ Live(k) /\ entries[k].fp = fp /\ entries[k].done

(* Complete stores the result, in a live record or in a new one.           *)
CompleteStores(k, fp) ==
    /\ state = "open"
    /\ \/ /\ Live(k)
          /\ entries[k].fp = fp
          /\ entries' = [entries EXCEPT ![k] = Record(fp, TRUE, entries[k].expires)]
          /\ UNCHANGED losses
       \/ /\ ~Live(k)
          /\ Insert(k, Record(fp, TRUE, now + StoreTTL))

(* Forget deletes whatever record the key has; late says that the caller's *)
(* execution had succeeded.                                                *)
ForgetKey(k, late) ==
    \/ /\ state = "open"
       /\ entries' = [entries EXCEPT ![k] = None]
       /\ Lose(IF late /\ entries[k] # None THEN {k} ELSE {})
    \/ state # "open" /\ UNCHANGED <<entries, losses>>

(* The janitor's sweep; Close has to wait for it.                          *)
Sweep ==
    /\ state # "closed"
    /\ Lapsed # {}
    /\ entries' = [k \in Keys |-> IF k \in Lapsed THEN None ELSE entries[k]]
    /\ Lose(Lapsed)
    /\ UNCHANGED <<now, state>>

(* Close sets the flag, joins the janitor and drops the table.             *)
CloseStarts ==
    /\ state = "open"
    /\ state' = "closing"
    /\ UNCHANGED <<now, entries, losses>>

CloseEnds ==
    /\ state = "closing"
    /\ state' = "closed"
    /\ entries' = [k \in Keys |-> None]
    /\ Lose(Present)
    /\ UNCHANGED now

Tick ==
    /\ now < MaxTime
    /\ now' = now + 1
    /\ UNCHANGED <<entries, state, losses>>

StoreNext == Sweep \/ CloseStarts \/ CloseEnds \/ Tick

=============================================================================
