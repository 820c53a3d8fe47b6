--------------------------- MODULE SlotScheduler ---------------------------
(***************************************************************************)
(* The leased scheduler of adapters/scheduler/postgres: replicas that open, *)
(* adopt slots, schedule and remove jobs, start and stop, and ticks that    *)
(* load, claim and dispatch a slot in statements of their own.              *)
(*                                                                          *)
(* Time is relative: a row has the time left on its lease, a tick the time  *)
(* since it read the clock, and each step of time changes all of them.      *)
(* Cron specs, jobs and their arguments are left out: a tick may come at    *)
(* any time, one at a time for each slot of a replica, which is so when     *)
(* FireTimeout is shorter than the period of the spec.                      *)
(***************************************************************************)
EXTENDS Integers

CONSTANTS
    Replicas,
    Named,         \* replicas with Options.Owner set; others draw one per open
    MaxSlot,       \* slot names sched-1 .. sched-MaxSlot
    LeaseTTL,
    FireTimeout,
    MaxSchedules,  \* calls of Schedule
    MaxDeaths,     \* processes that die
    MaxTickFaults, \* statements that fail, ticks past their deadline
    Gone,          \* an owner that no process has any more
    NoSlot         \* no row

ASSUME SchedulerConstants ==
    /\ Named \subseteq Replicas
    /\ MaxSlot \in Nat
    /\ LeaseTTL \in Nat \ {0}
    /\ FireTimeout \in Nat \ {0}
    /\ MaxSchedules \in Nat
    /\ MaxDeaths \in Nat
    /\ MaxTickFaults \in Nat
    /\ Gone \notin Replicas

VARIABLES
    slot,        \* the rows of the slots table
    replica,     \* the drivers
    tick,        \* per replica and slot: the tick at work
    scheduled,   \* number of rows inserted so far
    dismissed,   \* history: serials of the rows that Remove was called for
    schedFaults  \* [deaths, faults]

schedVars == << slot, replica, tick, scheduled, dismissed, schedFaults >>

Slots == 1 .. MaxSlot

\* serial tells apart the rows that a slot name was used for.
SlotRow ==
    [owner : Replicas \union {Gone}, left : -FireTimeout .. LeaseTTL, serial : Nat]

ASSUME NoSlotIsNone == NoSlot \notin SlotRow

\* adopting, and todo: the rows openFromDB found free and has not claimed yet;
\* age: since it read the clock.  canceled: tickCtx is.
Replica ==
    [pc : {"down", "adopt", "idle", "running", "stopping"}, canceled : BOOLEAN,
     entries : SUBSET Slots, next : 0 .. MaxSlot, todo : SUBSET Slots, age : 0 .. FireTimeout]

TickState == [pc : {"none", "claim", "dispatch"}, age : 0 .. FireTimeout, serial : Nat]

Down == [pc |-> "down", canceled |-> FALSE, entries |-> {}, next |-> 0, todo |-> {}, age |-> 0]
NoTick == [pc |-> "none", age |-> 0, serial |-> 0]

SchedTypeOK ==
    /\ slot \in [Slots -> SlotRow \union {NoSlot}]
    /\ replica \in [Replicas -> Replica]
    /\ tick \in [Replicas -> [Slots -> TickState]]
    /\ scheduled \in Nat
    /\ dismissed \subseteq Nat
    /\ schedFaults \in [deaths : Nat, faults : Nat]

SchedInit ==
    /\ slot = [s \in Slots |-> NoSlot]
    /\ replica = [r \in Replicas |-> Down]
    /\ tick = [r \in Replicas |-> [s \in Slots |-> NoTick]]
    /\ scheduled = 0
    /\ dismissed = {}
    /\ schedFaults = [deaths |-> 0, faults |-> 0]
-----------------------------------------------------------------------------
ReplicaAt(r, pc) == replica[r].pc = pc
TickAt(r, s, pc) == tick[r][s].pc = pc
TickGoto(r, s, next) == tick' = [tick EXCEPT ![r][s] = next]
TickFault ==
    /\ schedFaults.faults < MaxTickFaults
    /\ schedFaults' = [schedFaults EXCEPT !.faults = @ + 1]
NoTickFault == UNCHANGED schedFaults

\* Mutant of Claimable: whoever asks gets the slot.
ClaimableAny(r, s, age) == slot[s] # NoSlot

\* claim's WHERE, by a clock read age ago.
Claimable(r, s, age) ==
    /\ slot[s] # NoSlot
    /\ slot[s].left + age <= 0 \/ slot[s].owner = r

Claimed(r, s, age) ==
    slot' = [slot EXCEPT ![s] = [@ EXCEPT !.owner = r, !.left = LeaseTTL - age]]

\* Mutant of Adoptable: only rows whose lease has run out.
AdoptableLapsed(r, s) == slot[s] # NoSlot /\ slot[s].left <= 0

\* adoptRow's look at a row that adopt has loaded.
Adoptable(r, s) == slot[s] # NoSlot /\ (slot[s].left <= 0 \/ slot[s].owner = r)

Open(r) ==
    /\ ReplicaAt(r, "down")
    /\ replica' = [replica EXCEPT ![r] =
          [Down EXCEPT !.pc = "adopt", !.todo = {s \in Slots : Adoptable(r, s)}]]
    /\ UNCHANGED << slot, tick, scheduled, dismissed, schedFaults >>

\* adoptRow's claim, and register when it landed.
AdoptRow(r, s) ==
    /\ ReplicaAt(r, "adopt")
    /\ s \in replica[r].todo
    /\ \/ /\ Claimable(r, s, replica[r].age)
          /\ Claimed(r, s, replica[r].age)
          /\ replica' = [replica EXCEPT ![r].todo = @ \ {s}, ![r].entries = @ \union {s}]
       \/ /\ ~Claimable(r, s, replica[r].age)
          /\ replica' = [replica EXCEPT ![r].todo = @ \ {s}]
          /\ UNCHANGED slot
    /\ UNCHANGED << tick, scheduled, dismissed, schedFaults >>

Adopted(r) ==
    /\ ReplicaAt(r, "adopt")
    /\ replica[r].todo = {}
    /\ replica' = [replica EXCEPT ![r].pc = "idle", ![r].age = 0]
    /\ UNCHANGED << slot, tick, scheduled, dismissed, schedFaults >>

\* The process dies, or opening fails, also with rows claimed.  An owner that
\* was drawn at random dies with it.
Die(r) ==
    /\ ~ReplicaAt(r, "down")
    /\ schedFaults.deaths < MaxDeaths
    /\ schedFaults' = [schedFaults EXCEPT !.deaths = @ + 1]
    /\ replica' = [replica EXCEPT ![r] = Down]
    /\ tick' = [tick EXCEPT ![r] = [s \in Slots |-> NoTick]]
    /\ slot' = [s \in Slots |->
                  IF slot[s] # NoSlot /\ slot[s].owner = r /\ r \notin Named
                  THEN [slot[s] EXCEPT !.owner = Gone]
                  ELSE slot[s]]
    /\ UNCHANGED << scheduled, dismissed >>

\* Candidates are counted up from the driver's own nextID until one is free.
Schedule(r) ==
    /\ replica[r].pc \in {"idle", "running", "stopping"}
    /\ scheduled < MaxSchedules
    /\ \E s \in Slots :
          /\ s > replica[r].next
          /\ slot[s] = NoSlot
          /\ \A t \in Slots : (replica[r].next < t /\ t < s) => slot[t] # NoSlot
          /\ slot' = [slot EXCEPT ![s] =
                         [owner |-> r, left |-> LeaseTTL, serial |-> scheduled + 1]]
          /\ replica' = [replica EXCEPT ![r].next = s, ![r].entries = @ \union {s}]
    /\ scheduled' = scheduled + 1
    /\ UNCHANGED << tick, dismissed, schedFaults >>

\* The entry goes; the error of the DELETE is dropped.
RemoveEntry(r, s) ==
    /\ replica[r].pc \in {"idle", "running", "stopping"}
    /\ s \in replica[r].entries
    /\ replica' = [replica EXCEPT ![r].entries = @ \ {s}]
    /\ dismissed' = IF slot[s] = NoSlot THEN dismissed ELSE dismissed \union {slot[s].serial}
    /\ \/ slot' = [slot EXCEPT ![s] = NoSlot] /\ NoTickFault
       \/ TickFault /\ UNCHANGED slot
    /\ UNCHANGED << tick, scheduled >>

Start(r) ==
    /\ ReplicaAt(r, "idle")
    /\ replica' = [replica EXCEPT ![r].pc = "running"]
    /\ UNCHANGED << slot, tick, scheduled, dismissed, schedFaults >>

\* Stop cancels tickCtx, which nothing renews, and waits for the ticks;
\* started stays set when it waits in vain.
Stop(r) ==
    /\ ReplicaAt(r, "running")
    /\ replica' = [replica EXCEPT ![r].pc = "stopping", ![r].canceled = TRUE]
    /\ UNCHANGED << slot, tick, scheduled, dismissed, schedFaults >>

Stopped(r) ==
    /\ ReplicaAt(r, "stopping")
    /\ \A s \in Slots : TickAt(r, s, "none")
    /\ replica' = [replica EXCEPT ![r].pc = "idle"]
    /\ UNCHANGED << slot, tick, scheduled, dismissed, schedFaults >>
-----------------------------------------------------------------------------
\* fire: load, the clock and the first look at the lease.
TickLoad(r, s) ==
    /\ ReplicaAt(r, "running")
    /\ ~replica[r].canceled
    /\ s \in replica[r].entries
    /\ TickAt(r, s, "none")
    /\ Adoptable(r, s)
    /\ TickGoto(r, s, [NoTick EXCEPT !.pc = "claim"])
    /\ UNCHANGED << slot, replica, scheduled, dismissed, schedFaults >>

TickClaim(r, s) ==
    LET age == tick[r][s].age IN
    /\ TickAt(r, s, "claim")
    /\ ~replica[r].canceled
    /\ \/ /\ Claimable(r, s, age)
          /\ Claimed(r, s, age)
          /\ TickGoto(r, s, [pc |-> "dispatch", age |-> age, serial |-> slot[s].serial])
       \/ /\ ~Claimable(r, s, age)
          /\ TickGoto(r, s, NoTick)
          /\ UNCHANGED slot
    /\ NoTickFault
    /\ UNCHANGED << replica, scheduled, dismissed >>

Dispatch(r, s) ==
    /\ TickAt(r, s, "dispatch")
    /\ ~replica[r].canceled
    /\ TickGoto(r, s, NoTick)
    /\ UNCHANGED << slot, replica, scheduled, dismissed, schedFaults >>

\* A statement or the dispatch fails, or Stop has canceled its context.
TickEnds(r, s) ==
    /\ ~TickAt(r, s, "none")
    /\ IF replica[r].canceled THEN NoTickFault ELSE TickFault
    /\ TickGoto(r, s, NoTick)
    /\ UNCHANGED << slot, replica, scheduled, dismissed >>

\* Time passes for everybody; a tick lives less than FireTimeout.
Late(t) == t.pc # "none" /\ t.age + 1 >= FireTimeout
Older(t) == IF t.pc = "none" \/ Late(t) THEN NoTick ELSE [t EXCEPT !.age = @ + 1]
Lower(row) ==
    IF row = NoSlot \/ row.left = -FireTimeout THEN row ELSE [row EXCEPT !.left = @ - 1]

TimePasses ==
    /\ \A r \in Replicas : ReplicaAt(r, "adopt") => replica[r].age + 1 < FireTimeout
    /\ IF \E r \in Replicas, s \in Slots : Late(tick[r][s]) THEN TickFault ELSE NoTickFault
    /\ slot' = [s \in Slots |-> Lower(slot[s])]
    /\ tick' = [r \in Replicas |-> [s \in Slots |-> Older(tick[r][s])]]
    /\ replica' = [r \in Replicas |->
                     IF ReplicaAt(r, "adopt") THEN [replica[r] EXCEPT !.age = @ + 1]
                                              ELSE replica[r]]
    /\ UNCHANGED << scheduled, dismissed >>

OpenStep(r) == Open(r) \/ Adopted(r) \/ \E s \in Slots : AdoptRow(r, s)
TickStep(r, s) == TickLoad(r, s) \/ TickClaim(r, s) \/ Dispatch(r, s)

SchedNext ==
    \/ \E r \in Replicas :
          \/ OpenStep(r) \/ Die(r) \/ Schedule(r) \/ Start(r) \/ Stop(r) \/ Stopped(r)
          \/ \E s \in Slots : RemoveEntry(r, s) \/ TickStep(r, s) \/ TickEnds(r, s)
    \/ TimePasses

SchedSpec == SchedInit /\ [][SchedNext]_schedVars

\* Processes that died come back and start their scheduler; cron ticks.
SchedFairness ==
    /\ \A r \in Replicas :
          /\ WF_schedVars(OpenStep(r))
          /\ WF_schedVars(Start(r))
          /\ \A s \in Slots : WF_schedVars(TickStep(r, s))
    /\ WF_schedVars(TimePasses)

SchedFairSpec == SchedSpec /\ SchedFairness
-----------------------------------------------------------------------------
(* Properties. *)

\* Only the owner of a slot fires it ("at most one live owner fires a slot"):
\* from its claim to its dispatch no other replica gets the row, although each
\* judges leases by a clock it read before, as long as ticks do not outlive
\* their lease.
FiresUnderLease ==
    FireTimeout <= LeaseTTL =>
        \A r \in Replicas, s \in Slots :
            (TickAt(r, s, "dispatch") /\ slot[s] # NoSlot
                /\ slot[s].serial = tick[r][s].serial) => slot[s].owner = r

\* A slot is fired again and again, by one replica or another, until it is
\* removed or a scheduler is stopped ("Rows leased to a live foreign owner are
\* skipped: that instance keeps firing them").
SlotServed ==
    \A s \in Slots :
        (slot[s] # NoSlot) ~>
            \/ slot[s] = NoSlot \/ slot[s].serial \in dismissed
            \/ \E r \in Replicas : TickAt(r, s, "dispatch") \/ replica[r].canceled
=============================================================================
