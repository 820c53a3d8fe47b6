---------------------------- MODULE WorkflowRun ----------------------------
(***************************************************************************)
(* The single-step runs of adapters/workflow/db: Start, Signal, Cancel and  *)
(* Reclaim of one workflow ID, that is one row of the runs table, by calls  *)
(* in several replicas.  A call is a sequence of statements with the step   *)
(* function in between; it can die after every one.  Each lease has a       *)
(* number, and locked-until times are abstracted to which numbers lapsed.   *)
(***************************************************************************)
EXTENDS Naturals, FiniteSets

CONSTANTS
    Calls,         \* calls of Start, Signal, Cancel, Reclaim
    Owner,         \* the owner a call acts for: d.owner, or Reclaim's argument
    MaxLeases,     \* leases granted
    NoRow          \* the run has no row

ASSUME WorkflowConstants == MaxLeases \in Nat

VARIABLES
    wfRow,         \* the row, or NoRow
    wfCall,        \* per call: program counter and what it read
    lapsed,        \* leases that ran out
    granted,       \* number of leases granted so far
    ended          \* history: leases ended by Cancel or by a failed Start

wfVars == << wfRow, wfCall, lapsed, granted, ended >>
-----------------------------------------------------------------------------
Leases == 0 .. MaxLeases
Payloads == {"input", "signal", "result"}

WfRow ==
    [state : {"running", "completed"}, payload : Payloads, owner : {Owner[c] : c \in Calls},
     lease : Leases]

ASSUME NoRowIsNone == NoRow \notin WfRow

\* lease is the lease the call runs under (or, before the compare-and-set,
\* the one it saw), input the payload it read.
WfCall ==
    [pc : {"idle", "insert", "execute", "failed", "complete", "signal", "cancel", "claim"},
     lease : Leases, input : Payloads, started : BOOLEAN]

IdleCall == [pc |-> "idle", lease |-> 0, input |-> "input", started |-> FALSE]

WfTypeOK ==
    /\ wfRow \in WfRow \union {NoRow}
    /\ wfCall \in [Calls -> WfCall]
    /\ lapsed \subseteq Leases
    /\ ended \subseteq Leases
    /\ granted \in Leases

WfInit ==
    /\ wfRow = NoRow
    /\ wfCall = [c \in Calls |-> IdleCall]
    /\ lapsed = {}
    /\ ended = {}
    /\ granted = 0
-----------------------------------------------------------------------------
CallAt(c, pc) == wfCall[c].pc = pc
CallGoto(c, next) == wfCall' = [wfCall EXCEPT ![c] = next]
Running == wfRow # NoRow /\ wfRow.state = "running"
Held(c) == wfRow # NoRow /\ wfRow.owner = Owner[c]
NewLease == granted < MaxLeases /\ granted' = granted + 1

\* The probe of Start, of Signal and of Cancel; a completed run is refused.
Probe(c) ==
    /\ CallAt(c, "idle")
    /\ \/ wfRow = NoRow /\ CallGoto(c, [IdleCall EXCEPT !.pc = "insert"])
       \/ /\ Running
          /\ \E op \in {"signal", "cancel"} : CallGoto(c, [IdleCall EXCEPT !.pc = op])
    /\ UNCHANGED << wfRow, lapsed, granted, ended >>

\* The primary key decides; the loser returns DuplicateRunError.
InsertRun(c) ==
    /\ CallAt(c, "insert")
    /\ \/ /\ wfRow = NoRow
          /\ NewLease
          /\ wfRow' = [state |-> "running", payload |-> "input", owner |-> Owner[c],
                       lease |-> granted + 1]
          /\ CallGoto(c, [IdleCall EXCEPT !.pc = "execute", !.lease = granted + 1,
                                          !.started = TRUE])
       \/ /\ wfRow # NoRow
          /\ CallGoto(c, IdleCall)
          /\ UNCHANGED << wfRow, granted >>
    /\ UNCHANGED << lapsed, ended >>

\* The step function returns.  A failed Reclaim leaves the row as it is.
StepReturns(c) ==
    /\ CallAt(c, "execute")
    /\ \/ CallGoto(c, [wfCall[c] EXCEPT !.pc = "complete"])
       \/ wfCall[c].started /\ CallGoto(c, [wfCall[c] EXCEPT !.pc = "failed"])
       \/ ~wfCall[c].started /\ CallGoto(c, IdleCall)
    /\ UNCHANGED << wfRow, lapsed, granted, ended >>

\* A failed Start deletes the row it finds under its ID.
DeleteFailed(c) ==
    /\ CallAt(c, "failed")
    /\ wfRow' = NoRow
    /\ ended' = IF wfRow = NoRow THEN ended ELSE ended \union {wfRow.lease}
    /\ CallGoto(c, IdleCall)
    /\ UNCHANGED << lapsed, granted >>

\* The owner-guarded update of Start and of Reclaim.
MayComplete(c) == Held(c)

Complete(c) ==
    /\ CallAt(c, "complete")
    /\ wfRow' = IF MayComplete(c)
                THEN [wfRow EXCEPT !.state = "completed", !.payload = "result"]
                ELSE wfRow
    /\ CallGoto(c, IdleCall)
    /\ UNCHANGED << lapsed, granted, ended >>

\* The state-guarded update of Signal.
SignalRun(c) ==
    /\ CallAt(c, "signal")
    /\ wfRow' = IF Running THEN [wfRow EXCEPT !.payload = "signal"] ELSE wfRow
    /\ CallGoto(c, IdleCall)
    /\ UNCHANGED << lapsed, granted, ended >>

\* The state-guarded delete of Cancel.
CancelRun(c) ==
    /\ CallAt(c, "cancel")
    /\ wfRow' = IF Running THEN NoRow ELSE wfRow
    /\ ended' = IF Running THEN ended \union {wfRow.lease} ELSE ended
    /\ CallGoto(c, IdleCall)
    /\ UNCHANGED << lapsed, granted >>

\* Reclaim's load: a live lease of another owner is refused.
ReclaimLoad(c) ==
    /\ CallAt(c, "idle")
    /\ Running
    /\ Held(c) \/ wfRow.lease \in lapsed
    /\ CallGoto(c, [IdleCall EXCEPT !.pc = "claim", !.lease = wfRow.lease,
                                    !.input = wfRow.payload])
    /\ UNCHANGED << wfRow, lapsed, granted, ended >>

\* Mutant of ClaimPasses: the claim does not repeat the load's conditions.
ClaimPassesAny(c) == wfRow # NoRow

\* The compare-and-set passes when the lease had run out at the time of the
\* load, or the row is the caller's own.
ClaimPasses(c) ==
    /\ wfRow # NoRow
    /\ \/ wfRow.lease = wfCall[c].lease /\ wfRow.lease \in lapsed
       \/ Held(c)

ReclaimClaim(c) ==
    /\ CallAt(c, "claim")
    /\ \/ /\ ClaimPasses(c)
          /\ NewLease
          /\ wfRow' = [wfRow EXCEPT !.owner = Owner[c], !.lease = granted + 1]
          /\ CallGoto(c, [wfCall[c] EXCEPT !.pc = "execute", !.lease = granted + 1])
       \/ /\ ~ClaimPasses(c)
          /\ CallGoto(c, IdleCall)
          /\ UNCHANGED << wfRow, granted >>
    /\ UNCHANGED << lapsed, ended >>

LeaseLapses ==
    /\ wfRow # NoRow
    /\ wfRow.lease \notin lapsed
    /\ lapsed' = lapsed \union {wfRow.lease}
    /\ UNCHANGED << wfRow, wfCall, granted, ended >>

CallDies(c) ==
    /\ ~CallAt(c, "idle")
    /\ CallGoto(c, IdleCall)
    /\ UNCHANGED << wfRow, lapsed, granted, ended >>

WfNext ==
    \/ \E c \in Calls :
          \/ Probe(c) \/ InsertRun(c) \/ StepReturns(c) \/ DeleteFailed(c) \/ Complete(c)
          \/ SignalRun(c) \/ CancelRun(c) \/ ReclaimLoad(c) \/ ReclaimClaim(c) \/ CallDies(c)
    \/ LeaseLapses

WfSpec == WfInit /\ [][WfNext]_wfVars
-----------------------------------------------------------------------------
(* Properties. *)

InStep(c) == wfCall[c].pc \in {"execute", "failed", "complete"}

\* Two calls run the step at the same time only for a reason.  If they act
\* for different owners, a lease from the first one's on had run out, or the
\* row was removed, before the second got its own: a reclaim never takes a
\* run whose lease is alive, although it checks in one statement and claims
\* in another.  If both are Starts, the row of the first one was removed: a
\* repeated Start does not run the step again.
OneAtWork ==
    \A c, d \in Calls :
        LET between == wfCall[c].lease .. (wfCall[d].lease - 1) IN
        (InStep(c) /\ InStep(d) /\ wfCall[c].lease < wfCall[d].lease) =>
            /\ Owner[c] # Owner[d] => between \intersect (lapsed \union ended) # {}
            /\ (wfCall[c].started /\ wfCall[d].started) => between \intersect ended # {}

\* A completed run is kept with its result ("completed runs reject with
\* RunCompletedError and are kept for audit").
CompletedKept ==
    [][(wfRow # NoRow /\ wfRow.state = "completed") =>
          (wfRow' # NoRow /\ wfRow'.state = "completed")]_wfVars
=============================================================================
