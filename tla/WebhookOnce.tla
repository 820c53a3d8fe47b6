---------------------------- MODULE WebhookOnce -----------------------------
(***************************************************************************)
(* ProcessWebhookOnce (core/payment) over the in-process idempotency store:*)
(* deliveries of provider events, retries included, each reserve the key   *)
(* of their event, run the handler and commit or release.                  *)
(***************************************************************************)
EXTENDS IdempotencyStore

CONSTANTS
    Deliveries,  \* calls of ProcessWebhookOnce
    WebhookTTL   \* DefaultWebhookIdempotencyTTL

ASSUME WebhookAssumption ==
    /\ IsFiniteSet(Deliveries)
    /\ WebhookTTL \in Nat \ {0}

VARIABLES
    key,      \* the key of a delivery's event
    print,    \* the fingerprint of its payload
    pc,       \* where its call stands
    handled   \* its handler returned nil

vars == <<storeVars, key, print, pc, handled>>

Stages == {"arrived", "running", "committing", "releasing",
           "committed", "failed", "duplicate", "refused"}

Init ==
    /\ StoreInit
    /\ key \in [Deliveries -> Keys]
    /\ print \in [Deliveries -> Prints]
    /\ pc = [d \in Deliveries |-> "arrived"]
    /\ handled = [d \in Deliveries |-> FALSE]

Goto(d, stage) ==
    /\ pc' = [pc EXCEPT ![d] = stage]
    /\ UNCHANGED <<now, state, key, print>>

Reserve(d) ==
    /\ pc[d] = "arrived"
    /\ BeginReserves(key[d], print[d], WebhookTTL)
    /\ Goto(d, "running")
    /\ UNCHANGED handled

(* Mutant of Duplicate: the release is deferred before the outcome is      *)
(* looked at.                                                              *)
DuplicateReleases(d) ==
    /\ pc[d] = "arrived"
    /\ BeginReplays(key[d], print[d])
    /\ Goto(d, "releasing")
    /\ UNCHANGED <<entries, losses, handled>>

(* A replay: DuplicateEventError.                                          *)
Duplicate(d) ==
    /\ pc[d] = "arrived"
    /\ BeginReplays(key[d], print[d])
    /\ Goto(d, "duplicate")
    /\ UNCHANGED <<entries, losses, handled>>

(* Begin fails: ErrClosed, ErrKeyMismatch, ErrInProgress or, at any time,  *)
(* the error of a cancelled request.                                       *)
Refused(d) ==
    /\ pc[d] = "arrived"
    /\ Goto(d, "refused")
    /\ UNCHANGED <<entries, losses, handled>>

HandlerSucceeds(d) ==
    /\ pc[d] = "running"
    /\ handled' = [handled EXCEPT ![d] = TRUE]
    /\ Goto(d, "committing")
    /\ UNCHANGED <<entries, losses>>

(* The handler returns an error or panics.                                 *)
HandlerFails(d) ==
    /\ pc[d] = "running"
    /\ Goto(d, "releasing")
    /\ UNCHANGED <<entries, losses, handled>>

Commit(d) ==
    /\ pc[d] = "committing"
    /\ CompleteStores(key[d], print[d])
    /\ Goto(d, "committed")
    /\ UNCHANGED handled

(* Complete fails: ErrClosed, ErrKeyMismatch or, at any time, the error of *)
(* a cancelled request.                                                    *)
CommitFails(d) ==
    /\ pc[d] = "committing"
    /\ Goto(d, "releasing")
    /\ UNCHANGED <<entries, losses, handled>>

(* Mutant of Release: Forget runs under the request's own context, which   *)
(* may be cancelled.                                                       *)
ReleaseCancelled(d) ==
    /\ pc[d] = "releasing"
    /\ \/ ForgetKey(key[d], handled[d])
       \/ UNCHANGED <<entries, losses>>
    /\ Goto(d, "failed")
    /\ UNCHANGED handled

(* The deferred Forget; the context is detached from the request's.        *)
Release(d) ==
    /\ pc[d] = "releasing"
    /\ ForgetKey(key[d], handled[d])
    /\ Goto(d, "failed")
    /\ UNCHANGED handled

Environment == StoreNext /\ UNCHANGED <<key, print, pc, handled>>

Next ==
    \/ \E d \in Deliveries :
          \/ Reserve(d) \/ Duplicate(d) \/ Refused(d)
          \/ HandlerSucceeds(d) \/ HandlerFails(d)
          \/ Commit(d) \/ CommitFails(d) \/ Release(d)
    \/ Environment

Spec == Init /\ [][Next]_vars

-----------------------------------------------------------------------------
(* The store never keeps more than MaxEntries records.                     *)
TypeOK ==
    /\ now \in 0..MaxTime
    /\ entries \in [Keys -> Records \union {None}]
    /\ state \in {"open", "closing", "closed"}
    /\ losses \in [Keys -> Nat]
    /\ key \in [Deliveries -> Keys]
    /\ print \in [Deliveries -> Prints]
    /\ pc \in [Deliveries -> Stages]
    /\ handled \in [Deliveries -> BOOLEAN]
    /\ Cardinality(Present) <= MaxEntries

(* The deliveries of an event whose handler runs or has succeeded.         *)
Executions(k) == {d \in Deliveries : key[d] = k /\ (pc[d] = "running" \/ handled[d])}

(* One execution per event, and one more for each record of the key that   *)
(* lapsed, was evicted or was forgotten after a success: reservations have *)
(* no owner, so a lapsed delivery's Complete and Forget act on the record  *)
(* of its successor, and still one loss costs one execution.               *)
ExecutionBudget ==
    \A k \in Keys : Cardinality(Executions(k)) <= 1 + losses[k]

InFlight(d) == pc[d] \in {"running", "committing", "releasing"}

(* webhook.go:70: a provider's retry is not refused for a reservation that *)
(* nobody is working under, however the earlier deliveries ended.          *)
NoOrphan ==
    state = "open" =>
        \A k \in Keys : entries[k] # None /\ ~entries[k].done =>
            \E d \in Deliveries : key[d] = k /\ InFlight(d)

(* webhook.go:32: an event is never lost.  A delivery that is turned away  *)
(* as a duplicate has a sibling with the same payload that was handled.    *)
DuplicateWasHandled ==
    \A d \in Deliveries : pc[d] = "duplicate" =>
        \E e \in Deliveries :
            key[e] = key[d] /\ print[e] = print[d] /\ handled[e]

=============================================================================
