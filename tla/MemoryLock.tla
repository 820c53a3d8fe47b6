----------------------------- MODULE MemoryLock -----------------------------
(***************************************************************************)
(* The in-process lock.Locker (adapters/lock/memory) over the TTL and LRU  *)
(* table it keeps its leases in (shared/lrucache).  A handle is one holder *)
(* id; it is drawn at random, so a handle acquires once.  Each operation   *)
(* of the table reads the clock first and takes the table's mutex after    *)
(* that: it may act on a time that has passed.  Both happen under the      *)
(* adapter's read lock, so Close falls between operations.                 *)
(***************************************************************************)
EXTENDS Naturals, Sequences, FiniteSets

CONSTANTS
    Locks,       \* the locks
    Handles,     \* holder ids
    TTLs,        \* the lease times callers ask for
    TableSize,   \* Options.MaxEntries
    LockMaxTime, \* bound: the last clock value
    MaxCloses,   \* bound: calls of Close
    NoHolder     \* no holder

ASSUME LockAssumption ==
    /\ TTLs \subseteq Nat \ {0}
    /\ TableSize \in Nat \ {0}
    /\ LockMaxTime \in Nat
    /\ MaxCloses \in Nat
    /\ NoHolder \notin Handles

VARIABLES
    time,      \* time.Now
    holder,    \* the table: who has the lease of a key
    expires,   \* the table: expiresAt of that lease
    recency,   \* the table: its keys, the most recently used first
    op,        \* the operation a handle has begun, "none" between two
    clock,     \* the time that operation read, 0 between two
    target,    \* the key a handle is for
    phase,     \* new: not acquired yet; held: acquired; released: unlocked
    deadline,  \* until when a handle may believe it holds its key
    dropped,   \* handles whose entry was evicted or went with a Close
    closes     \* how much of MaxCloses is used

tableVars == <<holder, expires, recency>>
lockVars == <<time, tableVars, op, clock, target, phase, deadline, dropped,
              closes>>

Ops == {"none", "acquire", "extend", "unlock"}

LockInit ==
    /\ time = 0
    /\ holder = [k \in Locks |-> NoHolder]
    /\ expires = [k \in Locks |-> 0]
    /\ recency = <<>>
    /\ op = [h \in Handles |-> "none"]
    /\ clock = [h \in Handles |-> 0]
    /\ target \in [Handles -> Locks]
    /\ phase = [h \in Handles |-> "new"]
    /\ deadline = [h \in Handles |-> 0]
    /\ dropped = {}
    /\ closes = 0

-----------------------------------------------------------------------------
(* An operation takes the adapter's read lock and reads the clock.         *)
Begin(h, o) ==
    /\ op[h] = "none"
    /\ o = "acquire" <=> phase[h] = "new"
    /\ op' = [op EXCEPT ![h] = o]
    /\ clock' = [clock EXCEPT ![h] = time]
    /\ UNCHANGED <<time, tableVars, target, phase, deadline, dropped, closes>>

Finish(h) ==
    /\ op' = [op EXCEPT ![h] = "none"]
    /\ clock' = [clock EXCEPT ![h] = 0]

(* expired: at the exact deadline a lease is over.                         *)
LeaseOver(k, t) == holder[k] # NoHolder /\ expires[k] <= t

(* The list without the element of k: it is in at most one place.          *)
Without(k) ==
    LET place == {i \in DOMAIN recency : recency[i] = k}
        at == CHOOSE i \in place : TRUE
    IN  IF place = {} THEN recency
        ELSE [i \in 1..(Len(recency) - 1) |->
                 IF i < at THEN recency[i] ELSE recency[i + 1]]

Back(s) == s[Len(s)]
Front(s) == SubSeq(s, 1, Len(s) - 1)

(* Mutant of Overfull: one entry more than the bound.                      *)
OverfullLate(s) == Len(s) > TableSize + 1

Overfull(s) == Len(s) > TableSize

(* TryAcquire, SetIfAbsent: the key is free, or its lease is over at the   *)
(* time read; past the bound the entry at the back goes, live or not.      *)
Acquired(h, ttl) ==
    LET k == target[h]
        owners == [holder EXCEPT ![k] = h]
        used == <<k>> \o Without(k)
        evicted == IF Overfull(used) THEN {Back(used)} ELSE {}
    IN  /\ op[h] = "acquire"
        /\ holder[k] = NoHolder \/ LeaseOver(k, clock[h])
        /\ holder' = [j \in Locks |->
                         IF j \in evicted THEN NoHolder ELSE owners[j]]
        /\ expires' = [expires EXCEPT ![k] = clock[h] + ttl]
        /\ recency' = IF Overfull(used) THEN Front(used) ELSE used
        /\ phase' = [phase EXCEPT ![h] = "held"]
        /\ deadline' = [deadline EXCEPT ![h] = clock[h] + ttl]
        /\ dropped' = dropped \union
                         {g \in Handles : \E j \in evicted : owners[j] = g}
        /\ Finish(h)
        /\ UNCHANGED <<time, target, closes>>

(* TryAcquire reports false; Acquire tries again.                          *)
AcquireRefused(h) ==
    /\ op[h] = "acquire"
    /\ holder[target[h]] # NoHolder /\ ~LeaseOver(target[h], clock[h])
    /\ Finish(h)
    /\ UNCHANGED <<time, tableVars, target, phase, deadline, dropped,
                   closes>>

(* Mutant of Owns: the holder is not compared.                             *)
OwnsAny(h) == holder[target[h]] # NoHolder /\ ~LeaseOver(target[h], clock[h])

(* The comparison of CompareAndExtend and CompareAndDelete.                *)
Owns(h) == holder[target[h]] = h /\ ~LeaseOver(target[h], clock[h])

(* Extend, CompareAndExtend.                                               *)
Extended(h, ttl) ==
    /\ op[h] = "extend"
    /\ Owns(h)
    /\ expires' = [expires EXCEPT ![target[h]] = clock[h] + ttl]
    /\ recency' = <<target[h]>> \o Without(target[h])
    /\ deadline' = [deadline EXCEPT ![h] = clock[h] + ttl]
    /\ Finish(h)
    /\ UNCHANGED <<time, holder, target, phase, dropped, closes>>

(* Unlock, CompareAndDelete.                                               *)
Unlocked(h) ==
    /\ op[h] = "unlock"
    /\ Owns(h)
    /\ holder' = [holder EXCEPT ![target[h]] = NoHolder]
    /\ recency' = Without(target[h])
    /\ phase' = [phase EXCEPT ![h] = "released"]
    /\ Finish(h)
    /\ UNCHANGED <<time, expires, target, deadline, dropped, closes>>

(* Extend and Unlock report ErrNotHeld; a lease that is over at the time   *)
(* read is purged, whoever had it.                                         *)
NotHeld(h) ==
    LET k == target[h]
        over == LeaseOver(k, clock[h])
    IN  /\ op[h] \in {"extend", "unlock"}
        /\ ~Owns(h)
        /\ holder' = IF over THEN [holder EXCEPT ![k] = NoHolder] ELSE holder
        /\ recency' = IF over THEN Without(k) ELSE recency
        /\ Finish(h)
        /\ UNCHANGED <<time, expires, target, phase, deadline, dropped,
                       closes>>

(* Close puts an empty table in the place of the old one.                  *)
Close ==
    /\ closes < MaxCloses
    /\ \A h \in Handles : op[h] = "none"
    /\ closes' = closes + 1
    /\ holder' = [k \in Locks |-> NoHolder]
    /\ recency' = <<>>
    /\ dropped' = dropped \union
                     {g \in Handles : \E k \in Locks : holder[k] = g}
    /\ UNCHANGED <<time, expires, op, clock, target, phase, deadline>>

LockTick ==
    /\ time < LockMaxTime
    /\ time' = time + 1
    /\ UNCHANGED <<tableVars, op, clock, target, phase, deadline, dropped,
                   closes>>

LockNext ==
    \/ \E h \in Handles :
          \/ \E o \in Ops \ {"none"} : Begin(h, o)
          \/ \E ttl \in TTLs : Acquired(h, ttl) \/ Extended(h, ttl)
          \/ AcquireRefused(h) \/ Unlocked(h) \/ NotHeld(h)
    \/ Close
    \/ LockTick

LockSpec == LockInit /\ [][LockNext]_lockVars

-----------------------------------------------------------------------------
(* The table's keys are listed once each, no more than TableSize of them, *)
(* exactly those that have a holder; nobody acts on a time still to come.  *)
LockTypeOK ==
    /\ time \in 0..LockMaxTime
    /\ holder \in [Locks -> Handles \union {NoHolder}]
    /\ expires \in [Locks -> Nat]
    /\ recency \in Seq(Locks)
    /\ op \in [Handles -> Ops]
    /\ clock \in [Handles -> 0..time]
    /\ target \in [Handles -> Locks]
    /\ phase \in [Handles -> {"new", "held", "released"}]
    /\ deadline \in [Handles -> Nat]
    /\ dropped \subseteq Handles
    /\ closes \in 0..MaxCloses
    /\ Len(recency) <= TableSize
    /\ \A i, j \in DOMAIN recency : recency[i] = recency[j] => i = j
    /\ {recency[i] : i \in DOMAIN recency} =
          {k \in Locks : holder[k] # NoHolder}

(* By what the adapter told it, a handle holds its key.                    *)
Believes(h) == phase[h] = "held" /\ time < deadline[h]

(* Two handles that both believe to hold one key are never both in the     *)
(* right: one of them was evicted or dropped by a Close.  Late operations  *)
(* of lapsed holders, clocks read before the mutex and the exact deadline  *)
(* leave mutual exclusion intact.                                          *)
Exclusive ==
    \A g, h \in Handles :
        g # h /\ target[g] = target[h] /\ Believes(g) /\ Believes(h) =>
            g \in dropped \/ h \in dropped

=============================================================================
