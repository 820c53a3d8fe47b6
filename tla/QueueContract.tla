--------------------------- MODULE QueueContract ---------------------------
(***************************************************************************)
(* What core/queue.Queue promises about one topic, whichever adapter       *)
(* serves it: at-least-once delivery under leases.  A message that was     *)
(* accepted stays with the queue, waiting or leased, until a settlement    *)
(* removes it; it is delivered only while it waits; a lease that is given  *)
(* up or lapses puts it back with the attempt raised by one.  Nothing is   *)
(* said of order, time or capacity.                                        *)
(***************************************************************************)
EXTENDS Naturals

CONSTANT Messages

VARIABLES
    place,    \* where a message is
    attempt   \* Message.Attempt of a message the queue has, 0 otherwise

Places == {"absent", "waiting", "leased", "gone"}

TypeOK ==
    /\ place \in [Messages -> Places]
    /\ attempt \in [Messages -> Nat]

Init ==
    /\ place = [m \in Messages |-> "absent"]
    /\ attempt = [m \in Messages |-> 0]

(* Push and PushDelayed: NewMessage starts the attempts at 1.              *)
Accept(m) ==
    /\ place[m] = "absent"
    /\ place' = [place EXCEPT ![m] = "waiting"]
    /\ attempt' = [attempt EXCEPT ![m] = 1]

(* Pop: the message stays with the queue, invisible to other consumers.    *)
Deliver(m) ==
    /\ place[m] = "waiting"
    /\ place' = [place EXCEPT ![m] = "leased"]
    /\ UNCHANGED attempt

(* Nack with requeue for one message, or the visibility timeout of several *)
(* found lapsed by one pass.                                               *)
Return(S) ==
    /\ \A m \in S : place[m] = "leased"
    /\ place' = [m \in Messages |-> IF m \in S THEN "waiting" ELSE place[m]]
    /\ attempt' = [m \in Messages |->
                      IF m \in S THEN attempt[m] + 1 ELSE attempt[m]]

(* Ack, or Nack without requeue.                                           *)
Remove(m) ==
    /\ place[m] = "leased"
    /\ place' = [place EXCEPT ![m] = "gone"]
    /\ attempt' = [attempt EXCEPT ![m] = 0]

Next ==
    \/ \E m \in Messages : Accept(m) \/ Deliver(m) \/ Remove(m)
    \/ \E S \in SUBSET Messages : Return(S)

contractVars == <<place, attempt>>

Spec == Init /\ [][Next]_contractVars

=============================================================================
