----------------------------- MODULE RedisQueue -----------------------------
(***************************************************************************)
(* The Redis queue of adapters/queue/redis: Push, Pop, Ack and Nack of one  *)
(* topic by goroutines of several processes.  A command or Lua script is    *)
(* one step; a Pop is rounds of an optional sweep, of up to five commands,  *)
(* and a claim.  Scores are abstracted to the two comparisons made with     *)
(* them: is the delayed message due, has the claim lapsed.  The client may  *)
(* send a command again when the answer is lost, as go-redis does.          *)
(***************************************************************************)
EXTENDS Naturals, Sequences, FiniteSets, Functions

CONSTANTS
    RMessages,     \* messages that may be pushed
    RPushers,      \* goroutines in Push
    RPoppers,      \* goroutines that pop and settle
    RBuffer,       \* Options.Buffer, 0 for no limit
    SweepBatch,    \* promoteBatch and reclaimBatch
    MaxRAttempt,   \* attempts a message may reach
    MaxResends,    \* pushes the client sends twice
    Closable,      \* goroutines whose adapter may be closed
    NoEntry

ASSUME RedisQueueConstants ==
    /\ RBuffer \in Nat
    /\ SweepBatch \in Nat \ {0}
    /\ MaxRAttempt \in Nat
    /\ MaxResends \in Nat
    /\ Closable \subseteq RPushers \union RPoppers
    /\ IsFiniteSet(RMessages)
    /\ NoEntry \notin RMessages

VARIABLES
    readyList,   \* the :ready list
    delayedSet,  \* the members of the :delayed sorted set
    matured,     \* those whose score has passed
    processing,  \* the fields of the :processing hash
    deadlines,   \* the members of the :processing_deadlines sorted set
    overdue,     \* fields claimed longer ago than the visibility timeout
    sender,      \* per pusher
    taker,       \* per popper: program counter, and the delivery it holds
    accepted,    \* messages stored at least once
    resent,      \* messages whose push was sent again
    rClosed      \* goroutines whose adapter is closed

rVars == << readyList, delayedSet, matured, processing, deadlines, overdue,
            sender, taker, accepted, resent, rClosed >>
rKeys == << readyList, delayedSet, matured, processing, deadlines, overdue >>
-----------------------------------------------------------------------------
\* A message on the wire; as "id:attempt" also the field of its claim.
Entry == [msg : RMessages, attempt : Nat]

Sender == [pc : {"idle", "llen", "zcard", "send"}, msg : RMessages \union {NoEntry},
           delayed : BOOLEAN, count : Nat]
IdleSender == [pc |-> "idle", msg |-> NoEntry, delayed |-> FALSE, count |-> 0]

Taker == [pc : {"idle", "promote", "reclaim", "again", "zcard", "hlen", "fallback",
               "claim", "hold"},
          entry : Entry \union {NoEntry}]
IdleTaker == [pc |-> "idle", entry |-> NoEntry]

RedisTypeOK ==
    /\ readyList \in Seq(Entry)
    /\ delayedSet \subseteq RMessages
    /\ matured \subseteq delayedSet
    /\ processing \subseteq Entry
    /\ deadlines \subseteq Entry
    /\ overdue \subseteq processing \union deadlines
    /\ sender \in [RPushers -> Sender]
    /\ taker \in [RPoppers -> Taker]
    /\ accepted \subseteq RMessages
    /\ resent \subseteq accepted
    /\ rClosed \subseteq Closable

RedisInit ==
    /\ readyList = << >>
    /\ delayedSet = {} /\ matured = {}
    /\ processing = {} /\ deadlines = {} /\ overdue = {}
    /\ sender = [p \in RPushers |-> IdleSender]
    /\ taker = [p \in RPoppers |-> IdleTaker]
    /\ accepted = {} /\ resent = {} /\ rClosed = {}
-----------------------------------------------------------------------------
(* Push and PushDelayed. *)

SendGoto(p, next) == sender' = [sender EXCEPT ![p] = next]

\* The only look at closed.
PushBegin(p) ==
    /\ sender[p].pc = "idle"
    /\ p \notin rClosed
    /\ \E m \in RMessages \ accepted, d \in BOOLEAN :
          /\ \A o \in RPushers : sender[o].msg # m
          /\ SendGoto(p, [pc |-> IF RBuffer = 0 THEN "send" ELSE "llen",
                          msg |-> m, delayed |-> d, count |-> 0])
    /\ UNCHANGED << rKeys, taker, accepted, resent, rClosed >>

\* waitForSpace, or the first count of waitForDelayedSpace.  A full list is
\* polled until it fits.
PushCount(p) ==
    /\ sender[p].pc = "llen"
    /\ IF sender[p].delayed
       THEN SendGoto(p, [sender[p] EXCEPT !.pc = "zcard", !.count = Len(readyList)])
       ELSE Len(readyList) < RBuffer /\ SendGoto(p, [sender[p] EXCEPT !.pc = "send"])
    /\ UNCHANGED << rKeys, taker, accepted, resent, rClosed >>

\* The second count, added to the list as it was at the first.
PushCountDelayed(p) ==
    /\ sender[p].pc = "zcard"
    /\ LET fits == sender[p].count + Cardinality(delayedSet) < RBuffer IN
       SendGoto(p, [sender[p] EXCEPT !.pc = IF fits THEN "send" ELSE "llen", !.count = 0])
    /\ UNCHANGED << rKeys, taker, accepted, resent, rClosed >>

\* A cancelled context or a count that failed.
PushGivesUp(p) ==
    /\ sender[p].pc \in {"llen", "zcard"}
    /\ SendGoto(p, IdleSender)
    /\ UNCHANGED << rKeys, taker, accepted, resent, rClosed >>

\* What RPUSH and ZADD store.  A ZADD sent again has the score of the first: if
\* the member is back, its time had passed.
Stored(m, isDelayed) ==
    IF isDelayed
    THEN /\ delayedSet' = delayedSet \union {m}
         /\ matured' = IF m \in accepted \ delayedSet THEN matured \union {m} ELSE matured
         /\ UNCHANGED readyList
    ELSE /\ readyList' = Append(readyList, [msg |-> m, attempt |-> 1])
         /\ UNCHANGED << delayedSet, matured >>

\* RPUSH or ZADD.  It fails, or is applied and answered; or it is applied, the
\* answer is lost and the client sends it again.
PushSend(p) ==
    LET m == sender[p].msg IN
    /\ sender[p].pc = "send"
    /\ \/ /\ UNCHANGED << rKeys, accepted, resent >>
          /\ SendGoto(p, IdleSender)
       \/ /\ Stored(m, sender[p].delayed)
          /\ accepted' = accepted \union {m}
          /\ SendGoto(p, IdleSender)
          /\ UNCHANGED << processing, deadlines, overdue, resent >>
       \/ /\ Stored(m, sender[p].delayed)
          /\ accepted' = accepted \union {m}
          /\ Cardinality(resent) < MaxResends
          /\ m \notin resent
          /\ resent' = resent \union {m}
          /\ UNCHANGED << processing, deadlines, overdue, sender >>
    /\ UNCHANGED << taker, rClosed >>

\* A delay passes.
BecomeDue(m) ==
    /\ m \in delayedSet \ matured
    /\ matured' = matured \union {m}
    /\ UNCHANGED << readyList, delayedSet, processing, deadlines, overdue,
                    sender, taker, accepted, resent, rClosed >>

\* The visibility timeout of a claim passes.
BecomeLapsed(f) ==
    /\ f \in processing \ overdue
    /\ f.attempt < MaxRAttempt
    /\ overdue' = overdue \union {f}
    /\ UNCHANGED << readyList, delayedSet, matured, processing, deadlines,
                    sender, taker, accepted, resent, rClosed >>
-----------------------------------------------------------------------------
(* Pop. *)

TakerAt(p, pc) == taker[p].pc = pc
TakerGoto(p, pc) == taker' = [taker EXCEPT ![p] = [pc |-> pc, entry |-> NoEntry]]

\* A round of popLoop begins with the sweep or, when lastSweep was stored less
\* than sweepInterval ago, with the claim.  lastSweep is shared by all topics
\* of the adapter, so nothing in this topic decides which.
NewRound(p) == TakerGoto(p, "promote") \/ TakerGoto(p, "claim")

PopBegin(p) ==
    /\ TakerAt(p, "idle")
    /\ p \notin rClosed
    /\ NewRound(p)
    /\ UNCHANGED << rKeys, sender, accepted, resent, rClosed >>

\* The members of S, in any order.
Orders(S) == Bijection(1..Cardinality(S), S)

\* At most a batch of S.  The sweep compares with a time it read before, so
\* what has passed since may be left out.
Batches(S) == {B \in SUBSET S : Cardinality(B) <= SweepBatch}

\* promote.lua, called until it moves nothing.
Promote(p) ==
    /\ TakerAt(p, "promote")
    /\ \E B \in Batches(matured) : \E order \in Orders(B) :
          /\ delayedSet' = delayedSet \ B
          /\ matured' = matured \ B
          /\ readyList' = readyList \o
                [i \in DOMAIN order |-> [msg |-> order[i], attempt |-> 1]]
          /\ TakerGoto(p, IF B = {} THEN "reclaim" ELSE "promote")
    /\ UNCHANGED << processing, deadlines, overdue, sender, accepted, resent, rClosed >>

\* Mutant of Again: the attempt stays.
AgainSame(f) == f

\* A claim that is given up or lapsed goes back with the attempt raised.
Again(f) == [f EXCEPT !.attempt = @ + 1]

\* The fields in B leave hash and sorted set, those the hash had go back.
GiveBack(B) ==
    /\ \E order \in Orders(B \intersect processing) :
          readyList' = readyList \o [i \in DOMAIN order |-> Again(order[i])]
    /\ processing' = processing \ B
    /\ deadlines' = deadlines \ B
    /\ overdue' = overdue \ B
    /\ UNCHANGED << delayedSet, matured >>

\* reclaim.lua, called again after a full batch; when the first call moves
\* nothing, reclaimFallbackIfNeeded follows.
ReclaimLapsed(p) ==
    /\ TakerAt(p, "reclaim") \/ TakerAt(p, "again")
    /\ \E B \in Batches(overdue \intersect deadlines) :
          LET moved == Cardinality(B \intersect processing) IN
          /\ GiveBack(B)
          /\ TakerGoto(p, CASE moved = SweepBatch -> "again"
                            [] moved = 0 /\ TakerAt(p, "reclaim") -> "zcard"
                            [] OTHER -> "claim")
    /\ UNCHANGED << sender, accepted, resent, rClosed >>

\* reclaimFallbackIfNeeded: no deadlines, but claims, in two looks.
CountDeadlines(p) ==
    /\ TakerAt(p, "zcard")
    /\ TakerGoto(p, IF deadlines = {} THEN "hlen" ELSE "claim")
    /\ UNCHANGED << rKeys, sender, accepted, resent, rClosed >>

CountClaims(p) ==
    /\ TakerAt(p, "hlen")
    /\ TakerGoto(p, IF processing = {} THEN "claim" ELSE "fallback")
    /\ UNCHANGED << rKeys, sender, accepted, resent, rClosed >>

\* reclaim-fallback.lua goes through the whole hash.
ReclaimFallback(p) ==
    /\ TakerAt(p, "fallback")
    /\ \E B \in SUBSET (overdue \intersect processing) : GiveBack(B)
    /\ TakerGoto(p, "claim")
    /\ UNCHANGED << sender, accepted, resent, rClosed >>

\* claim.lua.  Without the answer the popper knows nothing of its claim, and
\* the client sends the script again.
Claim(p) ==
    /\ TakerAt(p, "claim")
    /\ readyList # << >>
    /\ LET f == Head(readyList) IN
       /\ readyList' = Tail(readyList)
       /\ processing' = processing \union {f}
       /\ deadlines' = deadlines \union {f}
       /\ overdue' = overdue \ {f}
       /\ \/ taker' = [taker EXCEPT ![p] = [pc |-> "hold", entry |-> f]]
          \/ UNCHANGED taker
    /\ UNCHANGED << delayedSet, matured, sender, accepted, resent, rClosed >>

\* An empty list: shortBlock waits, and another round begins.
Wait(p) ==
    /\ TakerAt(p, "claim")
    /\ readyList = << >>
    /\ NewRound(p)
    /\ UNCHANGED << rKeys, sender, accepted, resent, rClosed >>

\* The poll timeout, a cancelled context or a command that failed ends Pop; a
\* consumer that dies leaves its claim behind.
TakerStops(p) ==
    /\ ~TakerAt(p, "idle")
    /\ TakerGoto(p, "idle")
    /\ UNCHANGED << rKeys, sender, accepted, resent, rClosed >>
-----------------------------------------------------------------------------
(* Ack, Nack and Close. *)

\* ack.lua and nack.lua, under the field of id and attempt: another attempt of
\* the message is not touched.  A call that fails, that finds the adapter closed
\* or no such field changes nothing, like a consumer that dies (TakerStops).
RSettle(p) ==
    LET f == taker[p].entry IN
    /\ TakerAt(p, "hold")
    /\ p \notin rClosed
    /\ f \in processing
    /\ \/ /\ processing' = processing \ {f}
          /\ deadlines' = deadlines \ {f}
          /\ overdue' = overdue \ {f}
          /\ UNCHANGED << readyList, delayedSet, matured >>
       \/ f.attempt < MaxRAttempt /\ GiveBack({f})
    /\ TakerGoto(p, "idle")
    /\ UNCHANGED << sender, accepted, resent, rClosed >>

CloseRedis(g) ==
    /\ g \notin rClosed
    /\ rClosed' = rClosed \union {g}
    /\ UNCHANGED << rKeys, sender, taker, accepted, resent >>

RedisNext ==
    \/ \E p \in RPushers :
          \/ PushBegin(p) \/ PushCount(p) \/ PushCountDelayed(p)
          \/ PushGivesUp(p) \/ PushSend(p)
    \/ \E p \in RPoppers :
          \/ PopBegin(p) \/ Promote(p) \/ ReclaimLapsed(p)
          \/ CountDeadlines(p) \/ CountClaims(p) \/ ReclaimFallback(p)
          \/ Claim(p) \/ Wait(p) \/ TakerStops(p) \/ RSettle(p)
    \/ \E m \in RMessages : BecomeDue(m)
    \/ \E f \in processing : BecomeLapsed(f)
    \/ \E g \in Closable : CloseRedis(g)

RedisSpec == RedisInit /\ [][RedisNext]_rVars
-----------------------------------------------------------------------------
(* Properties. *)

InLists(m) == m \in delayedSet \/ \E i \in DOMAIN readyList : readyList[i].msg = m
Leased(m) == \E f \in processing : f.msg = m

RPlace(m) ==
    CASE m \notin accepted -> "absent"
      [] m \in accepted /\ Leased(m) -> "leased"
      [] m \in accepted /\ ~Leased(m) /\ InLists(m) -> "waiting"
      [] OTHER -> "gone"

Attempts(m) ==
    {f.attempt : f \in {g \in processing \union Range(readyList) : g.msg = m}}
        \union (IF m \in delayedSet THEN {1} ELSE {})

RAttempt(m) == IF Attempts(m) = {} THEN 0 ELSE CHOOSE n \in Attempts(m) : TRUE

RContract == INSTANCE QueueContract WITH
    Messages <- RMessages,
    place <- [m \in RMessages |-> RPlace(m)],
    attempt <- [m \in RMessages |-> RAttempt(m)]

\* A message leaves the keys only when the consumer it was given to settles it.
LeavesByHolder ==
    \A m \in accepted :
        (Leased(m) \/ InLists(m)) /\ ~(Leased(m) \/ InLists(m))' =>
            \E p \in RPoppers : TakerAt(p, "hold") /\ taker[p].entry.msg = m

\* A step touches no key, or is one of the contract; LeavesByHolder is what is
\* left of it after a push was sent twice.
KeptByStep ==
    \/ UNCHANGED << rKeys, accepted, resent >>
    \/ resent' = {} /\ [RContract!Next]_(RContract!contractVars)
    \/ resent' # {} /\ LeavesByHolder

\* The scripts keep the contract that workers rely on, although a message moves
\* between a list, a hash and two sorted sets, sweeps of two processes overlap,
\* claims are lost with their answers and settlements come late.  Once the
\* client has sent a push twice there are two copies of a message, and what is
\* left of the contract is that no message is lost.
RedisKeepsContract == RContract!Init /\ [][KeptByStep]_rVars
=============================================================================
