--------------------------- MODULE OutboxPipeline ---------------------------
(***************************************************************************)
(* The outbox and the inbox together, as an application wires them: the    *)
(* relays publish recorded messages to a transport (external), which hands *)
(* every message it accepted to consumers, in any order and as often as it *)
(* likes, and the consumers run their effects through Process.             *)
(***************************************************************************)
EXTENDS OutboxRelay, Inbox

(* A message's id is its event id.                                         *)
ASSUME PipelineAssumption == Events = Messages

pipelineVars == <<vars, inboxVars>>

PipelineInit == Init /\ InboxInit

(* The transport delivers a message it has accepted.                       *)
TransportDeliver(c, m) ==
    /\ published[m] > 0
    /\ Begin(c, m)
    /\ UNCHANGED vars

ConsumerStep(c) == Advance(c) /\ UNCHANGED vars

ConsumerFails(c) == Rollback(c) /\ UNCHANGED vars

PipelineNext ==
    \/ Next /\ UNCHANGED inboxVars
    \/ \E c \in Consumers :
          \/ \E m \in Messages : TransportDeliver(c, m)
          \/ ConsumerStep(c)
          \/ ConsumerFails(c)

(* The relays' fairness, consumers that finish what they began, and a      *)
(* transport that goes on delivering a message until it is handled.        *)
PipelineFairness ==
    /\ WF_pipelineVars(Tick /\ UNCHANGED inboxVars)
    /\ \A r \in Relays :
          /\ WF_pipelineVars(RelayStep(r) /\ UNCHANGED inboxVars)
          /\ WF_pipelineVars(cancelled[r] /\ MarkLost(r)
                                /\ UNCHANGED inboxVars)
    /\ \A c \in Consumers : WF_pipelineVars(ConsumerStep(c))
    /\ \A m \in Messages :
          SF_pipelineVars(m \notin inbox
                             /\ \E c \in Consumers : TransportDeliver(c, m))

PipelineSpec ==
    PipelineInit /\ [][PipelineNext]_pipelineVars /\ PipelineFairness

-----------------------------------------------------------------------------
(* A message a business transaction recorded takes effect in a consumer,   *)
(* unless it ends in the dead-letter queue or is deleted.                  *)
RecordedTakesEffect ==
    \A m \in Messages :
        status[m] = "pending" ~>
            effects[m] = 1 \/ status[m] \in {"failed", "deleted"}

=============================================================================
