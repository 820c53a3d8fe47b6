-------------------------- MODULE RedisQueueProofs --------------------------
(***************************************************************************)
(* The Redis queue implements QueueContract, and every claim in the hash   *)
(* keeps its deadline in the sorted set, for any number of messages,       *)
(* goroutines and repeated pushes, any buffer and any batch.  The proof    *)
(* reduces every action to its Effect on where messages are.               *)
(***************************************************************************)
EXTENDS RedisQueue, FiniteSetTheorems, TLAPS

(* Every claim has its deadline, so reclaim.lua finds whatever claim.lua   *)
(* stored.                                                                 *)
ClaimsIndexed == processing = deadlines

(* What a push carries is a message of its own, and new unless resent.     *)
CarriedOK ==
    \A p \in RPushers : sender[p].pc # "idle" =>
        /\ sender[p].msg \in RMessages
        /\ resent = {} => sender[p].msg \notin accepted
        /\ \A o \in RPushers : sender[o].msg = sender[p].msg => o = p

(* Whatever the keys hold was pushed.                                      *)
Known ==
    /\ \A i \in DOMAIN readyList : readyList[i].msg \in accepted
    /\ delayedSet \subseteq accepted
    /\ \A f \in processing : f.msg \in accepted

(* As long as no push was sent twice a message is in one place only.       *)
OneCopy ==
    resent = {} =>
        /\ \A i, j \in DOMAIN readyList : readyList[i].msg = readyList[j].msg => i = j
        /\ \A i \in DOMAIN readyList : readyList[i].msg \notin delayedSet
        /\ \A f \in processing : f.msg \notin delayedSet
        /\ \A f \in processing, i \in DOMAIN readyList : readyList[i].msg # f.msg
        /\ \A f, g \in processing : f.msg = g.msg => f = g

(* The hash is finite, so that what a script moves is a sequence.          *)
KeysOK == RedisTypeOK /\ ClaimsIndexed /\ IsFiniteSet(processing)

RedisInv == KeysOK /\ CarriedOK /\ Known /\ OneCopy

LEMMA RedisInvInit == RedisInit => RedisInv
BY FS_EmptySet
   DEF RedisInit, RedisInv, KeysOK, RedisTypeOK, ClaimsIndexed, CarriedOK, Known, OneCopy,
       Sender, IdleSender, Taker, IdleTaker

(* Appending the members of a finite set, in any order and changed by Op.  *)
LEMMA Appended ==
    ASSUME NEW E, NEW s \in Seq(E), NEW S, IsFiniteSet(S), NEW order \in Orders(S),
           NEW t \in [DOMAIN order -> E]
    PROVE  s \o t \in Seq(E)
<1>1. Cardinality(S) \in Nat
  BY FS_CardinalityType
<1>2. order \in [1..Cardinality(S) -> S]
  BY DEF Orders, Bijection, Injection
<1>3. t \in Seq(E)
  BY <1>1, <1>2
<1> QED BY <1>3

(* Every member of the set is in the order once, and in the list that it   *)
(* was appended to.                                                        *)
LEMMA AppendedAll ==
    ASSUME NEW E, NEW s \in Seq(E), NEW S, IsFiniteSet(S), NEW order \in Orders(S),
           NEW t \in [DOMAIN order -> E]
    PROVE  /\ \A i, j \in DOMAIN order : order[i] = order[j] => i = j
           /\ \A i \in DOMAIN order : order[i] \in S
           /\ \A x \in S : \E i \in DOMAIN order : order[i] = x
           /\ \A i \in DOMAIN s : i \in DOMAIN (s \o t) /\ (s \o t)[i] = s[i]
           /\ \A i \in DOMAIN order :
                 Len(s) + i \in DOMAIN (s \o t) /\ (s \o t)[Len(s) + i] = t[i]
           /\ \A k \in DOMAIN (s \o t) :
                 k \in DOMAIN s \/ \E i \in DOMAIN order : k = Len(s) + i
<1>0. PICK n : n = Cardinality(S)
  OBVIOUS
<1>1. n \in Nat
  BY <1>0, FS_CardinalityType
<1>2. order \in [1..n -> S] /\ \A i, j \in 1..n : order[i] = order[j] => i = j
  BY <1>0 DEF Orders, Bijection, Injection, IsInjective
<1>6. \A x \in S : \E i \in 1..n : order[i] = x
  BY <1>0 DEF Orders, Bijection, Surjection
<1>7. /\ t \in Seq(E) /\ Len(t) = n /\ DOMAIN order = 1..n
      /\ Len(s) \in Nat /\ DOMAIN s = 1..Len(s)
  BY <1>1, <1>2
<1>8. \A i \in DOMAIN s : i \in DOMAIN (s \o t) /\ (s \o t)[i] = s[i]
  BY <1>1, <1>7
<1>9. \A i \in 1..n : Len(s) + i \in DOMAIN (s \o t) /\ (s \o t)[Len(s) + i] = t[i]
  BY <1>1, <1>7
<1>10. \A k \in DOMAIN (s \o t) : k \in DOMAIN s \/ \E i \in 1..n : k = Len(s) + i
  <2> SUFFICES ASSUME NEW k \in DOMAIN (s \o t), k \notin DOMAIN s
               PROVE  \E i \in 1..n : k = Len(s) + i
    OBVIOUS
  <2>1. k \in 1..(Len(s) + n)
    BY <1>1, <1>7
  <2>2. k - Len(s) \in 1..n /\ k = Len(s) + (k - Len(s))
    BY <1>1, <1>7, <2>1
  <2> QED BY <2>2
<1> QED BY <1>2, <1>6, <1>7, <1>8, <1>9, <1>10

(* A popper that goes on has the type of one.                              *)
LEMMA GotoType ==
    ASSUME RedisTypeOK, NEW p \in RPoppers,
           NEW pc \in {"idle", "promote", "reclaim", "again", "zcard", "hlen",
                       "fallback", "claim"},
           TakerGoto(p, pc)
    PROVE  taker' \in [RPoppers -> Taker]
BY DEF RedisTypeOK, TakerGoto, Taker

(* Claims that are given back leave hash and sorted set together.          *)
LEMMA GiveBackKeeps ==
    ASSUME KeysOK, NEW B, B \subseteq processing \union deadlines, GiveBack(B)
    PROVE  /\ readyList' \in Seq(Entry)
           /\ processing' \subseteq Entry /\ deadlines' = processing'
           /\ overdue' \subseteq processing' \union deadlines'
           /\ IsFiniteSet(processing')
           /\ UNCHANGED << delayedSet, matured >>
<1>1. IsFiniteSet(B \intersect processing)
  BY FS_Subset DEF KeysOK
<1>2. PICK order \in Orders(B \intersect processing) :
         readyList' = readyList \o [i \in DOMAIN order |-> Again(order[i])]
  BY DEF GiveBack
<1>3. order \in [1..Cardinality(B \intersect processing) -> B \intersect processing]
  BY <1>2 DEF Orders, Bijection, Injection
<1>4. \A f \in processing : Again(f) \in Entry
  BY DEF KeysOK, RedisTypeOK, Again, Entry
<1>5. [i \in DOMAIN order |-> Again(order[i])] \in [DOMAIN order -> Entry]
  BY <1>3, <1>4
<1>6. readyList' \in Seq(Entry)
  <2>1. readyList \in Seq(Entry)
    BY DEF KeysOK, RedisTypeOK
  <2> QED BY <1>1, <1>2, <1>5, <2>1, Appended
<1>7. /\ processing' = processing \ B /\ deadlines' = deadlines \ B
      /\ overdue' = overdue \ B /\ UNCHANGED << delayedSet, matured >>
  BY DEF GiveBack
<1>8. IsFiniteSet(processing')
  BY <1>7, FS_Subset DEF KeysOK
<1> QED BY <1>6, <1>7, <1>8 DEF KeysOK, RedisTypeOK, ClaimsIndexed

(* Every step keeps the types, the index and the hash finite.              *)
LEMMA KeysStep == RedisInv /\ [RedisNext]_rVars => KeysOK'
<1> SUFFICES ASSUME RedisInv, [RedisNext]_rVars PROVE KeysOK'
  OBVIOUS
<1> USE DEF RedisInv, KeysOK, ClaimsIndexed
<1>0. /\ RedisTypeOK
      /\ readyList \in Seq(Entry) /\ Len(readyList) \in Nat
      /\ sender \in [RPushers -> Sender] /\ taker \in [RPoppers -> Taker]
  BY DEF RedisTypeOK
<1>1. ASSUME NEW p \in RPushers, PushBegin(p) PROVE KeysOK'
  <2>1. sender' \in [RPushers -> Sender]
    BY <1>0, <1>1 DEF PushBegin, SendGoto, Sender
  <2> QED BY <1>0, <1>1, <2>1 DEF PushBegin, RedisTypeOK, rKeys
<1>2. ASSUME NEW p \in RPushers, PushCount(p) PROVE KeysOK'
  <2>1. sender' \in [RPushers -> Sender]
    BY <1>0, <1>2 DEF PushCount, SendGoto, Sender
  <2> QED BY <1>0, <1>2, <2>1 DEF PushCount, RedisTypeOK, rKeys
<1>3. ASSUME NEW p \in RPushers, PushCountDelayed(p) PROVE KeysOK'
  <2>1. sender' \in [RPushers -> Sender]
    BY <1>0, <1>3 DEF PushCountDelayed, SendGoto, Sender
  <2> QED BY <1>0, <1>3, <2>1 DEF PushCountDelayed, RedisTypeOK, rKeys
<1>4. ASSUME NEW p \in RPushers, PushGivesUp(p) PROVE KeysOK'
  <2>1. sender' \in [RPushers -> Sender]
    BY <1>0, <1>4 DEF PushGivesUp, SendGoto, Sender, IdleSender
  <2> QED BY <1>0, <1>4, <2>1 DEF PushGivesUp, RedisTypeOK, rKeys
<1>5. ASSUME NEW p \in RPushers, PushSend(p) PROVE KeysOK'
  <2>1. sender' \in [RPushers -> Sender]
    <3>1. SendGoto(p, IdleSender) \/ UNCHANGED sender
      BY <1>5 DEF PushSend
    <3>2. CASE SendGoto(p, IdleSender)
      BY <1>0, <3>2 DEF SendGoto, Sender, IdleSender
    <3>3. CASE UNCHANGED sender
      BY <1>0, <3>3
    <3> QED BY <3>1, <3>2, <3>3
  <2>2. UNCHANGED << processing, deadlines, overdue, taker, rClosed >>
    BY <1>5 DEF PushSend, rKeys
  <2>3. CASE UNCHANGED << rKeys, accepted, resent >>
    BY <1>0, <2>1, <2>2, <2>3 DEF RedisTypeOK, rKeys
  <2>4. CASE /\ Stored(sender[p].msg, sender[p].delayed)
             /\ accepted' = accepted \union {sender[p].msg}
             /\ resent' \subseteq resent \union {sender[p].msg}
    <3>1. sender[p].msg \in RMessages
      BY <1>5 DEF PushSend, CarriedOK
    <3>2. readyList' \in Seq(Entry)
      <4>1. [msg |-> sender[p].msg, attempt |-> 1] \in Entry
        BY <3>1 DEF Entry
      <4> QED BY <1>0, <2>4, <4>1 DEF Stored
    <3>3. /\ delayedSet' \subseteq RMessages
          /\ matured' \subseteq delayedSet'
      BY <1>0, <2>4, <3>1 DEF Stored, RedisTypeOK
    <3> QED BY <1>0, <2>1, <2>2, <2>4, <3>1, <3>2, <3>3 DEF RedisTypeOK
  <2> QED BY <1>5, <2>3, <2>4 DEF PushSend
<1>6. ASSUME NEW p \in RPoppers, PopBegin(p) \/ Wait(p) PROVE KeysOK'
  <2>1. taker' \in [RPoppers -> Taker]
    BY <1>0, <1>6, GotoType DEF PopBegin, Wait, NewRound
  <2> QED BY <1>0, <1>6, <2>1 DEF PopBegin, Wait, RedisTypeOK, rKeys
<1>7. ASSUME NEW p \in RPoppers, Promote(p) PROVE KeysOK'
  <2>1. PICK B \in Batches(matured) : \E order \in Orders(B) :
           /\ delayedSet' = delayedSet \ B
           /\ matured' = matured \ B
           /\ readyList' = readyList \o
                 [i \in DOMAIN order |-> [msg |-> order[i], attempt |-> 1]]
           /\ TakerGoto(p, IF B = {} THEN "reclaim" ELSE "promote")
    BY <1>7 DEF Promote
  <2>2. PICK order \in Orders(B) :
           readyList' = readyList \o
              [i \in DOMAIN order |-> [msg |-> order[i], attempt |-> 1]]
    BY <2>1
  <2>3. B \subseteq RMessages /\ IsFiniteSet(B)
    BY <1>0, <2>1, FS_Subset, RedisQueueConstants DEF Batches, RedisTypeOK
  <2>4. order \in [1..Cardinality(B) -> B]
    BY <2>2 DEF Orders, Bijection, Injection
  <2>5. [i \in DOMAIN order |-> [msg |-> order[i], attempt |-> 1]]
           \in [DOMAIN order -> Entry]
    BY <2>3, <2>4 DEF Entry
  <2>6. readyList' \in Seq(Entry)
    BY <1>0, <2>2, <2>3, <2>5, Appended
  <2>7. taker' \in [RPoppers -> Taker]
    BY <1>0, <2>1, GotoType
  <2> QED BY <1>0, <1>7, <2>1, <2>6, <2>7 DEF Promote, RedisTypeOK
<1>8. ASSUME NEW p \in RPoppers, ReclaimLapsed(p) PROVE KeysOK'
  <2>1. PICK B \in Batches(overdue \intersect deadlines) : GiveBack(B)
    BY <1>8 DEF ReclaimLapsed
  <2>2. taker' \in [RPoppers -> Taker]
    <3>1. \E pc \in {"zcard", "again", "claim"} : TakerGoto(p, pc)
      BY <1>8 DEF ReclaimLapsed
    <3> QED BY <1>0, <3>1, GotoType
  <2>3. B \subseteq processing \union deadlines
    BY DEF Batches
  <2> QED BY <1>0, <1>8, <2>1, <2>2, <2>3, GiveBackKeeps DEF ReclaimLapsed, RedisTypeOK
<1>9. ASSUME NEW p \in RPoppers, CountDeadlines(p) \/ CountClaims(p) PROVE KeysOK'
  <2>1. taker' \in [RPoppers -> Taker]
    <3>1. \E pc \in {"hlen", "fallback", "claim"} : TakerGoto(p, pc)
      BY <1>9 DEF CountDeadlines, CountClaims
    <3> QED BY <1>0, <3>1, GotoType
  <2> QED BY <1>0, <1>9, <2>1 DEF CountDeadlines, CountClaims, RedisTypeOK, rKeys
<1>10. ASSUME NEW p \in RPoppers, ReclaimFallback(p) PROVE KeysOK'
  <2>1. PICK B \in SUBSET (overdue \intersect processing) : GiveBack(B)
    BY <1>10 DEF ReclaimFallback
  <2>2. taker' \in [RPoppers -> Taker]
    BY <1>0, <1>10, GotoType DEF ReclaimFallback
  <2> QED BY <1>0, <1>10, <2>1, <2>2, GiveBackKeeps DEF ReclaimFallback, RedisTypeOK
<1>11. ASSUME NEW p \in RPoppers, Claim(p) PROVE KeysOK'
  <2>1. Head(readyList) \in Entry /\ Tail(readyList) \in Seq(Entry)
    BY <1>0, <1>11 DEF Claim
  <2>2. taker' \in [RPoppers -> Taker]
    BY <1>0, <1>11, <2>1 DEF Claim, Taker
  <2>3. IsFiniteSet(processing')
    BY <1>11, FS_AddElement DEF Claim
  <2> QED BY <1>0, <1>11, <2>1, <2>2, <2>3 DEF Claim, RedisTypeOK
<1>12. ASSUME NEW p \in RPoppers, TakerStops(p) PROVE KeysOK'
  <2>1. taker' \in [RPoppers -> Taker]
    BY <1>0, <1>12, GotoType DEF TakerStops
  <2> QED BY <1>0, <1>12, <2>1 DEF TakerStops, RedisTypeOK, rKeys
<1>13. ASSUME NEW p \in RPoppers, RSettle(p) PROVE KeysOK'
  <2>1. taker' \in [RPoppers -> Taker]
    BY <1>0, <1>13, GotoType DEF RSettle
  <2>2. CASE GiveBack({taker[p].entry})
    BY <1>0, <1>13, <2>1, <2>2, GiveBackKeeps DEF RSettle, RedisTypeOK
  <2>3. CASE /\ processing' = processing \ {taker[p].entry}
             /\ deadlines' = deadlines \ {taker[p].entry}
             /\ overdue' = overdue \ {taker[p].entry}
             /\ UNCHANGED << readyList, delayedSet, matured >>
    <3>1. IsFiniteSet(processing')
      BY <2>3, FS_Subset
    <3> QED BY <1>0, <1>13, <2>1, <2>3, <3>1 DEF RSettle, RedisTypeOK
  <2> QED BY <1>13, <2>2, <2>3 DEF RSettle
<1>14. ASSUME NEW m \in RMessages, BecomeDue(m) PROVE KeysOK'
  BY <1>0, <1>14 DEF BecomeDue, RedisTypeOK
<1>15. ASSUME NEW f \in processing, BecomeLapsed(f) PROVE KeysOK'
  BY <1>0, <1>15 DEF BecomeLapsed, RedisTypeOK
<1>16. ASSUME NEW g \in Closable, CloseRedis(g) PROVE KeysOK'
  BY <1>0, <1>16 DEF CloseRedis, RedisTypeOK, rKeys
<1>17. CASE UNCHANGED rVars
  BY <1>0, <1>17 DEF rVars, RedisTypeOK
<1> QED
  BY <1>1, <1>2, <1>3, <1>4, <1>5, <1>6, <1>7, <1>8, <1>9, <1>10, <1>11, <1>12,
     <1>13, <1>14, <1>15, <1>16, <1>17 DEF RedisNext

(* A push that goes on keeps its message, and nobody else takes it.        *)
LEMMA CarriedStep == RedisInv /\ [RedisNext]_rVars => CarriedOK'
<1> SUFFICES ASSUME RedisInv, [RedisNext]_rVars PROVE CarriedOK'
  OBVIOUS
<1>0. /\ CarriedOK /\ sender \in [RPushers -> Sender] /\ NoEntry \notin RMessages
  BY RedisQueueConstants DEF RedisInv, KeysOK, RedisTypeOK
<1>1. ASSUME NEW p \in RPushers, PushBegin(p) PROVE CarriedOK'
  <2>1. PICK m \in RMessages \ accepted, d \in BOOLEAN :
           /\ \A o \in RPushers : sender[o].msg # m
           /\ SendGoto(p, [pc |-> IF RBuffer = 0 THEN "send" ELSE "llen",
                           msg |-> m, delayed |-> d, count |-> 0])
    BY <1>1 DEF PushBegin
  <2>2. sender'[p].msg = m /\ \A o \in RPushers : o # p => sender'[o] = sender[o]
    BY <1>0, <2>1 DEF SendGoto
  <2>3. UNCHANGED << accepted, resent >>
    BY <1>1 DEF PushBegin
  <2> QED BY <1>0, <2>1, <2>2, <2>3 DEF CarriedOK
<1>2. ASSUME NEW p \in RPushers, PushCount(p) \/ PushCountDelayed(p) PROVE CarriedOK'
  <2>1. /\ sender[p].pc # "idle"
        /\ sender'[p].msg = sender[p].msg
        /\ \A o \in RPushers : o # p => sender'[o] = sender[o]
    BY <1>0, <1>2 DEF PushCount, PushCountDelayed, SendGoto, Sender
  <2>2. UNCHANGED << accepted, resent >>
    BY <1>2 DEF PushCount, PushCountDelayed
  <2> QED BY <1>0, <2>1, <2>2 DEF CarriedOK
<1>3. ASSUME NEW p \in RPushers, PushGivesUp(p) PROVE CarriedOK'
  <2>1. /\ sender'[p] = IdleSender
        /\ \A o \in RPushers : o # p => sender'[o] = sender[o]
    BY <1>0, <1>3 DEF PushGivesUp, SendGoto
  <2>2. UNCHANGED << accepted, resent >>
    BY <1>3 DEF PushGivesUp
  <2> QED BY <1>0, <2>1, <2>2 DEF CarriedOK, IdleSender
<1>4. ASSUME NEW p \in RPushers, PushSend(p) PROVE CarriedOK'
  <2>1. CASE /\ SendGoto(p, IdleSender)
             /\ UNCHANGED resent
             /\ accepted' \subseteq accepted \union {sender[p].msg}
    <3>1. /\ sender'[p] = IdleSender
          /\ \A o \in RPushers : o # p => sender'[o] = sender[o]
      BY <1>0, <2>1 DEF SendGoto
    <3>2. sender[p].pc # "idle"
      BY <1>4 DEF PushSend
    <3> QED BY <1>0, <2>1, <3>1, <3>2 DEF CarriedOK, IdleSender
  <2>2. CASE resent' # {} /\ UNCHANGED sender
    BY <1>0, <2>2 DEF CarriedOK
  <2> QED BY <1>4, <2>1, <2>2 DEF PushSend
<1>5. CASE UNCHANGED << sender, accepted, resent >>
  BY <1>0, <1>5 DEF CarriedOK
<1> QED
  BY <1>1, <1>2, <1>3, <1>4, <1>5
     DEF RedisNext, rVars, PopBegin, Promote, ReclaimLapsed, CountDeadlines, CountClaims,
         ReclaimFallback, Claim, Wait, TakerStops, RSettle, BecomeDue, BecomeLapsed, CloseRedis

(* What a step may do to the keys.                                         *)
Kept == UNCHANGED << readyList, delayedSet, processing, accepted, resent >>

PutIn(m, isDelayed) ==
    /\ m \in RMessages
    /\ resent = {} => m \notin accepted
    /\ Stored(m, isDelayed)
    /\ accepted' = accepted \union {m}
    /\ resent' = {} => resent = {}
    /\ UNCHANGED processing

MovedUp(B) ==
    /\ B \subseteq delayedSet
    /\ \E order \in Orders(B) :
          readyList' = readyList \o [i \in DOMAIN order |-> [msg |-> order[i], attempt |-> 1]]
    /\ delayedSet' = delayedSet \ B
    /\ UNCHANGED << processing, accepted, resent >>

GivenBack(B) ==
    /\ B \subseteq processing
    /\ \E order \in Orders(B) :
          readyList' = readyList \o [i \in DOMAIN order |-> Again(order[i])]
    /\ processing' = processing \ B
    /\ UNCHANGED << delayedSet, accepted, resent >>

TakenOut ==
    /\ readyList # << >>
    /\ readyList' = Tail(readyList)
    /\ processing' = processing \union {Head(readyList)}
    /\ UNCHANGED << delayedSet, accepted, resent >>

SettledBy(p) ==
    /\ TakerAt(p, "hold")
    /\ taker[p].entry \in processing
    /\ processing' = processing \ {taker[p].entry}
    /\ UNCHANGED << readyList, delayedSet, accepted, resent >>

Effect ==
    \/ Kept
    \/ \E m \in RMessages, d \in BOOLEAN : PutIn(m, d)
    \/ \E B \in SUBSET delayedSet : MovedUp(B)
    \/ \E B \in SUBSET processing : GivenBack(B)
    \/ TakenOut
    \/ \E p \in RPoppers : SettledBy(p)

LEMMA GiveBackIs ==
    ASSUME KeysOK, NEW B, B \subseteq processing \union deadlines, GiveBack(B),
           UNCHANGED << accepted, resent >>
    PROVE  Effect
<1>1. B \subseteq processing /\ B \intersect processing = B
  BY DEF KeysOK, ClaimsIndexed
<1>2. GivenBack(B)
  BY <1>1 DEF GiveBack, GivenBack
<1> QED BY <1>1, <1>2 DEF Effect

(* Every step has one of the effects.                                      *)
LEMMA EffectOfStep == RedisInv /\ [RedisNext]_rVars => Effect
<1> SUFFICES ASSUME RedisInv, [RedisNext]_rVars PROVE Effect
  OBVIOUS
<1>0. KeysOK /\ RedisTypeOK /\ CarriedOK
  BY DEF RedisInv, KeysOK
<1>1. ASSUME NEW p \in RPushers, PushSend(p) PROVE Effect
  <2>1. CASE UNCHANGED << rKeys, accepted, resent >>
    BY <2>1 DEF Effect, Kept, rKeys
  <2>2. CASE /\ Stored(sender[p].msg, sender[p].delayed)
             /\ accepted' = accepted \union {sender[p].msg}
             /\ resent' = resent \/ resent' # {}
             /\ UNCHANGED processing
    <3>1. sender[p].msg \in RMessages /\ (resent = {} => sender[p].msg \notin accepted)
      BY <1>0, <1>1 DEF PushSend, CarriedOK
    <3>2. sender[p].delayed \in BOOLEAN
      BY <1>0 DEF RedisTypeOK, Sender
    <3>3. PutIn(sender[p].msg, sender[p].delayed)
      BY <2>2, <3>1 DEF PutIn
    <3> QED BY <3>1, <3>2, <3>3 DEF Effect
  <2> QED BY <1>1, <2>1, <2>2 DEF PushSend
<1>2. ASSUME NEW p \in RPoppers, Promote(p) PROVE Effect
  <2>1. PICK B \in Batches(matured) : \E order \in Orders(B) :
           /\ delayedSet' = delayedSet \ B
           /\ readyList' = readyList \o
                 [i \in DOMAIN order |-> [msg |-> order[i], attempt |-> 1]]
    BY <1>2 DEF Promote
  <2>2. B \subseteq delayedSet
    BY <1>0 DEF Batches, RedisTypeOK
  <2>3. MovedUp(B)
    BY <1>2, <2>1, <2>2 DEF MovedUp, Promote
  <2> QED BY <2>2, <2>3 DEF Effect
<1>3. ASSUME NEW p \in RPoppers, ReclaimLapsed(p) \/ ReclaimFallback(p) PROVE Effect
  <2>1. PICK B : B \subseteq processing \union deadlines /\ GiveBack(B)
    BY <1>3 DEF ReclaimLapsed, ReclaimFallback, Batches
  <2>2. UNCHANGED << accepted, resent >>
    BY <1>3 DEF ReclaimLapsed, ReclaimFallback
  <2> QED BY <1>0, <2>1, <2>2, GiveBackIs
<1>4. ASSUME NEW p \in RPoppers, Claim(p) PROVE Effect
  BY <1>4 DEF Claim, TakenOut, Effect
<1>5. ASSUME NEW p \in RPoppers, RSettle(p) PROVE Effect
  <2>1. CASE GiveBack({taker[p].entry})
    <3>1. {taker[p].entry} \subseteq processing \union deadlines
      BY <1>5 DEF RSettle
    <3>2. UNCHANGED << accepted, resent >>
      BY <1>5 DEF RSettle
    <3> QED BY <1>0, <2>1, <3>1, <3>2, GiveBackIs
  <2>2. CASE /\ processing' = processing \ {taker[p].entry}
             /\ UNCHANGED << readyList, delayedSet, matured >>
    <3>1. SettledBy(p)
      BY <1>5, <2>2 DEF RSettle, SettledBy
    <3> QED BY <3>1 DEF Effect
  <2> QED BY <1>5, <2>1, <2>2 DEF RSettle
<1>6. CASE Kept
  BY <1>6 DEF Effect
<1> QED
  BY <1>1, <1>2, <1>3, <1>4, <1>5, <1>6
     DEF RedisNext, rVars, rKeys, Kept, PushBegin, PushCount, PushCountDelayed, PushGivesUp,
         PopBegin, CountDeadlines, CountClaims, Wait, TakerStops, BecomeDue, BecomeLapsed,
         CloseRedis

(* The list after some messages were appended to it, as the steps that     *)
(* move messages need it.                                                  *)
LEMMA ListAfter ==
    ASSUME RedisInv, NEW S, IsFiniteSet(S), NEW order \in Orders(S),
           NEW t \in [DOMAIN order -> Entry], readyList' = readyList \o t
    PROVE  /\ \A i, j \in DOMAIN order : order[i] = order[j] => i = j
           /\ \A i \in DOMAIN order : order[i] \in S
           /\ \A x \in S : \E i \in DOMAIN order : order[i] = x
           /\ \A i \in DOMAIN readyList :
                 i \in DOMAIN readyList' /\ readyList'[i] = readyList[i]
           /\ \A i \in DOMAIN order :
                 Len(readyList) + i \in DOMAIN readyList'
                    /\ readyList'[Len(readyList) + i] = t[i]
           /\ \A k \in DOMAIN readyList' :
                 \/ k \in DOMAIN readyList /\ readyList'[k] = readyList[k]
                 \/ \E i \in DOMAIN order :
                       k = Len(readyList) + i /\ readyList'[k] = t[i] /\ order[i] \in S
<1>1. readyList \in Seq(Entry)
  BY DEF RedisInv, KeysOK, RedisTypeOK
<1>2. /\ \A i, j \in DOMAIN order : order[i] = order[j] => i = j
      /\ \A i \in DOMAIN order : order[i] \in S
      /\ \A x \in S : \E i \in DOMAIN order : order[i] = x
      /\ \A i \in DOMAIN readyList :
            i \in DOMAIN readyList' /\ readyList'[i] = readyList[i]
      /\ \A i \in DOMAIN order :
            Len(readyList) + i \in DOMAIN readyList'
               /\ readyList'[Len(readyList) + i] = t[i]
      /\ \A k \in DOMAIN readyList' :
            k \in DOMAIN readyList \/ \E i \in DOMAIN order : k = Len(readyList) + i
  BY <1>1, AppendedAll
<1> QED BY <1>2

(* The list after one message was appended to it.                          *)
LEMMA ListAfterOne ==
    ASSUME RedisInv, NEW e \in Entry, readyList' = Append(readyList, e)
    PROVE  /\ \A i \in DOMAIN readyList :
                 i \in DOMAIN readyList' /\ readyList'[i] = readyList[i]
           /\ \E k \in DOMAIN readyList' : k \notin DOMAIN readyList /\ readyList'[k] = e
           /\ \A k, l \in DOMAIN readyList' :
                 k \notin DOMAIN readyList =>
                    readyList'[k] = e /\ (l \notin DOMAIN readyList => k = l)
<1>1. readyList \in Seq(Entry) /\ Len(readyList) \in Nat
      /\ DOMAIN readyList = 1..Len(readyList)
  BY DEF RedisInv, KeysOK, RedisTypeOK
<1>2. /\ DOMAIN readyList' = 1..(Len(readyList) + 1)
      /\ \A i \in 1..Len(readyList) : readyList'[i] = readyList[i]
      /\ readyList'[Len(readyList) + 1] = e
  BY <1>1
<1> QED BY <1>1, <1>2

(* The list after its head was taken.                                      *)
LEMMA ListAfterTake ==
    ASSUME RedisInv, readyList # << >>, readyList' = Tail(readyList)
    PROVE  /\ Head(readyList) = readyList[1] /\ 1 \in DOMAIN readyList
           /\ \A k \in DOMAIN readyList' :
                 k \in Nat /\ k + 1 \in DOMAIN readyList /\ readyList'[k] = readyList[k + 1]
           /\ \A i \in DOMAIN readyList :
                 i = 1 \/ \E k \in DOMAIN readyList' : readyList'[k] = readyList[i]
<1>1. readyList \in Seq(Entry) /\ Len(readyList) \in Nat
      /\ DOMAIN readyList = 1..Len(readyList) /\ Len(readyList) # 0
  BY DEF RedisInv, KeysOK, RedisTypeOK
<1>2. /\ DOMAIN readyList' = 1..(Len(readyList) - 1)
      /\ \A k \in 1..(Len(readyList) - 1) : readyList'[k] = readyList[k + 1]
  BY <1>1
<1>3. \A i \in DOMAIN readyList : i # 1 =>
         i - 1 \in DOMAIN readyList' /\ readyList'[i - 1] = readyList[i]
  BY <1>1, <1>2
<1> QED BY <1>1, <1>2, <1>3

(* What a sweep of delayed messages, or of claims, appends.                *)
LEMMA MovedUpList ==
    ASSUME RedisInv, NEW B, MovedUp(B)
    PROVE  \E order \in Orders(B) : \E t \in [DOMAIN order -> Entry] :
              /\ readyList' = readyList \o t
              /\ \A i \in DOMAIN order : t[i] = [msg |-> order[i], attempt |-> 1]
              /\ IsFiniteSet(B)
<1>1. PICK order \in Orders(B) :
         readyList' = readyList \o [i \in DOMAIN order |-> [msg |-> order[i], attempt |-> 1]]
  BY DEF MovedUp
<1>2. B \subseteq RMessages /\ IsFiniteSet(B)
  BY FS_Subset, RedisQueueConstants DEF MovedUp, RedisInv, KeysOK, RedisTypeOK
<1>3. order \in [1..Cardinality(B) -> B]
  BY <1>1 DEF Orders, Bijection, Injection
<1>4. [i \in DOMAIN order |-> [msg |-> order[i], attempt |-> 1]] \in [DOMAIN order -> Entry]
  BY <1>2, <1>3 DEF Entry
<1> QED BY <1>1, <1>2, <1>4

LEMMA AgainEntry ==
    ASSUME NEW f \in Entry
    PROVE  Again(f) \in Entry /\ Again(f).msg = f.msg /\ Again(f).attempt = f.attempt + 1
BY DEF Again, Entry

LEMMA GivenBackList ==
    ASSUME RedisInv, NEW B, GivenBack(B)
    PROVE  \E order \in Orders(B) : \E t \in [DOMAIN order -> Entry] :
              /\ readyList' = readyList \o t
              /\ \A i \in DOMAIN order :
                    t[i].msg = order[i].msg /\ t[i].attempt = order[i].attempt + 1
              /\ IsFiniteSet(B)
<1>1. PICK order \in Orders(B) :
         readyList' = readyList \o [i \in DOMAIN order |-> Again(order[i])]
  BY DEF GivenBack
<1>2. B \subseteq Entry /\ IsFiniteSet(B)
  BY FS_Subset DEF GivenBack, RedisInv, KeysOK, RedisTypeOK
<1>3. order \in [1..Cardinality(B) -> B]
  BY <1>1 DEF Orders, Bijection, Injection
<1>4. \A i \in DOMAIN order :
         /\ Again(order[i]) \in Entry /\ Again(order[i]).msg = order[i].msg
         /\ Again(order[i]).attempt = order[i].attempt + 1
  BY <1>2, <1>3, AgainEntry
<1>5. [i \in DOMAIN order |-> Again(order[i])] \in [DOMAIN order -> Entry]
  BY <1>4
<1> QED BY <1>1, <1>2, <1>4, <1>5

(* Nothing enters the keys that was not accepted.                          *)
LEMMA KnownStep == RedisInv /\ Effect => Known'
<1> SUFFICES ASSUME RedisInv, Effect PROVE Known'
  OBVIOUS
<1>0. Known
  BY DEF RedisInv
<1>1. CASE Kept
  BY <1>0, <1>1 DEF Kept, Known
<1>2. ASSUME NEW m \in RMessages, NEW d \in BOOLEAN, PutIn(m, d) PROVE Known'
  <2>1. [msg |-> m, attempt |-> 1] \in Entry
    BY DEF Entry
  <2>2. CASE d
    BY <1>0, <1>2, <2>2 DEF PutIn, Stored, Known
  <2>3. CASE ~d
    <3>1. /\ readyList' = Append(readyList, [msg |-> m, attempt |-> 1])
          /\ UNCHANGED << delayedSet, processing >> /\ accepted' = accepted \union {m}
      BY <1>2, <2>3 DEF PutIn, Stored
    <3>2. \A i \in DOMAIN readyList' : readyList'[i].msg \in accepted'
      BY <1>0, <2>1, <3>1, ListAfterOne DEF Known
    <3> QED BY <1>0, <3>1, <3>2 DEF Known
  <2> QED BY <2>2, <2>3
<1>3. ASSUME NEW B, MovedUp(B) PROVE Known'
  <2>1. PICK order \in Orders(B) : \E t \in [DOMAIN order -> Entry] :
              /\ readyList' = readyList \o t
              /\ \A i \in DOMAIN order : t[i] = [msg |-> order[i], attempt |-> 1]
              /\ IsFiniteSet(B)
    BY <1>3, MovedUpList
  <2>2. PICK t \in [DOMAIN order -> Entry] :
              /\ readyList' = readyList \o t
              /\ \A i \in DOMAIN order : t[i] = [msg |-> order[i], attempt |-> 1]
              /\ IsFiniteSet(B)
    BY <2>1
  <2>3. \A k \in DOMAIN readyList' :
           \/ k \in DOMAIN readyList /\ readyList'[k] = readyList[k]
           \/ \E i \in DOMAIN order :
                 k = Len(readyList) + i /\ readyList'[k] = t[i] /\ order[i] \in B
    BY <2>2, ListAfter
  <2>4. \A i \in DOMAIN order : t[i].msg = order[i]
    BY <2>2
  <2>5. B \subseteq accepted
    BY <1>0, <1>3 DEF Known, MovedUp
  <2>6. \A i \in DOMAIN readyList' : readyList'[i].msg \in accepted
    BY <1>0, <2>3, <2>4, <2>5 DEF Known
  <2> QED BY <1>0, <1>3, <2>6 DEF Known, MovedUp
<1>4. ASSUME NEW B, GivenBack(B) PROVE Known'
  <2>1. PICK order \in Orders(B) : \E t \in [DOMAIN order -> Entry] :
              /\ readyList' = readyList \o t
              /\ \A i \in DOMAIN order :
                    t[i].msg = order[i].msg /\ t[i].attempt = order[i].attempt + 1
              /\ IsFiniteSet(B)
    BY <1>4, GivenBackList
  <2>2. PICK t \in [DOMAIN order -> Entry] :
              /\ readyList' = readyList \o t
              /\ \A i \in DOMAIN order : t[i].msg = order[i].msg
              /\ IsFiniteSet(B)
    BY <2>1
  <2>3. \A i \in DOMAIN order : t[i].msg \in accepted
    BY <1>0, <1>4, <2>2, ListAfter DEF Known, GivenBack
  <2>4. \A i \in DOMAIN readyList' : readyList'[i].msg \in accepted
    BY <1>0, <2>2, <2>3, ListAfter DEF Known
  <2> QED BY <1>0, <1>4, <2>4 DEF Known, GivenBack
<1>5. CASE TakenOut
  BY <1>0, <1>5, ListAfterTake DEF TakenOut, Known
<1>6. ASSUME NEW p \in RPoppers, SettledBy(p) PROVE Known'
  BY <1>0, <1>6 DEF SettledBy, Known
<1> QED BY <1>1, <1>2, <1>3, <1>4, <1>5, <1>6 DEF Effect

(* A message stays in one place: a script takes it from one key before or  *)
(* while it puts it into another.                                          *)
LEMMA OneCopyStep == RedisInv /\ Effect => OneCopy'
<1> SUFFICES ASSUME RedisInv, Effect, resent' = {} PROVE OneCopy'
  BY DEF OneCopy
<1>0. Known /\ OneCopy /\ resent = {}
  BY DEF RedisInv, Effect, Kept, PutIn, MovedUp, GivenBack, TakenOut, SettledBy
<1>1. CASE Kept
  BY <1>0, <1>1 DEF Kept, OneCopy
<1>2. ASSUME NEW m \in RMessages, NEW d \in BOOLEAN, PutIn(m, d) PROVE OneCopy'
  <2>1. [msg |-> m, attempt |-> 1] \in Entry /\ [msg |-> m, attempt |-> 1].msg = m
    BY DEF Entry
  <2>2. m \notin accepted
    BY <1>0, <1>2 DEF PutIn
  <2>3. CASE d
    BY <1>0, <1>2, <2>2, <2>3 DEF PutIn, Stored, Known, OneCopy
  <2>4. CASE ~d
    <3>1. /\ readyList' = Append(readyList, [msg |-> m, attempt |-> 1])
          /\ UNCHANGED << delayedSet, processing >>
      BY <1>2, <2>4 DEF PutIn, Stored
    <3>2. \A i \in DOMAIN readyList' :
             \/ i \in DOMAIN readyList /\ readyList'[i] = readyList[i]
             \/ i \notin DOMAIN readyList /\ readyList'[i].msg = m
      BY <2>1, <3>1, ListAfterOne
    <3>3. \A i, j \in DOMAIN readyList' : readyList'[i].msg = readyList'[j].msg => i = j
      BY <1>0, <2>1, <2>2, <3>1, <3>2, ListAfterOne DEF Known, OneCopy
    <3> QED BY <1>0, <2>2, <3>1, <3>2, <3>3 DEF Known, OneCopy
  <2> QED BY <2>3, <2>4
<1>3. ASSUME NEW B, MovedUp(B) PROVE OneCopy'
  <2>1. PICK order \in Orders(B) : \E t \in [DOMAIN order -> Entry] :
              /\ readyList' = readyList \o t
              /\ \A i \in DOMAIN order : t[i] = [msg |-> order[i], attempt |-> 1]
              /\ IsFiniteSet(B)
    BY <1>3, MovedUpList
  <2>2. PICK t \in [DOMAIN order -> Entry] :
              /\ readyList' = readyList \o t
              /\ \A i \in DOMAIN order : t[i].msg = order[i]
              /\ IsFiniteSet(B)
    BY <2>1
  <2>3. \A k \in DOMAIN readyList' :
           \/ k \in DOMAIN readyList /\ readyList'[k] = readyList[k]
           \/ \E i \in DOMAIN order :
                 k = Len(readyList) + i /\ readyList'[k].msg = order[i] /\ order[i] \in B
    <3>1. \A k \in DOMAIN readyList' :
             \/ k \in DOMAIN readyList /\ readyList'[k] = readyList[k]
             \/ \E i \in DOMAIN order :
                   k = Len(readyList) + i /\ readyList'[k] = t[i] /\ order[i] \in B
      BY <2>2, ListAfter
    <3> QED BY <2>2, <3>1
  <2>4. \A k, l \in DOMAIN readyList' : readyList'[k].msg = readyList'[l].msg => k = l
    <3> SUFFICES ASSUME NEW k \in DOMAIN readyList', NEW l \in DOMAIN readyList',
                        readyList'[k].msg = readyList'[l].msg
                 PROVE  k = l
      OBVIOUS
    <3>1. \A i, j \in DOMAIN order : order[i] = order[j] => i = j
      BY <2>2, ListAfter
    <3>2. B \subseteq delayedSet
      BY <1>3 DEF MovedUp
    <3> QED BY <1>0, <2>3, <3>1, <3>2 DEF OneCopy
  <2> QED BY <1>0, <1>3, <2>3, <2>4 DEF OneCopy, MovedUp
<1>4. ASSUME NEW B, GivenBack(B) PROVE OneCopy'
  <2>1. PICK order \in Orders(B) : \E t \in [DOMAIN order -> Entry] :
              /\ readyList' = readyList \o t
              /\ \A i \in DOMAIN order :
                    t[i].msg = order[i].msg /\ t[i].attempt = order[i].attempt + 1
              /\ IsFiniteSet(B)
    BY <1>4, GivenBackList
  <2>2. PICK t \in [DOMAIN order -> Entry] :
              /\ readyList' = readyList \o t
              /\ \A i \in DOMAIN order : t[i].msg = order[i].msg
              /\ IsFiniteSet(B)
    BY <2>1
  <2>3. \A k \in DOMAIN readyList' :
           \/ k \in DOMAIN readyList /\ readyList'[k] = readyList[k]
           \/ \E i \in DOMAIN order :
                 k = Len(readyList) + i /\ readyList'[k].msg = order[i].msg /\ order[i] \in B
    <3>1. \A k \in DOMAIN readyList' :
             \/ k \in DOMAIN readyList /\ readyList'[k] = readyList[k]
             \/ \E i \in DOMAIN order :
                   k = Len(readyList) + i /\ readyList'[k] = t[i] /\ order[i] \in B
      BY <2>2, ListAfter
    <3> QED BY <2>2, <3>1
  <2>4. B \subseteq processing
    BY <1>4 DEF GivenBack
  <2>5. \A k, l \in DOMAIN readyList' : readyList'[k].msg = readyList'[l].msg => k = l
    <3> SUFFICES ASSUME NEW k \in DOMAIN readyList', NEW l \in DOMAIN readyList',
                        readyList'[k].msg = readyList'[l].msg
                 PROVE  k = l
      OBVIOUS
    <3>1. \A i, j \in DOMAIN order : order[i] = order[j] => i = j
      BY <2>2, ListAfter
    <3> QED BY <1>0, <2>3, <2>4, <3>1 DEF OneCopy
  <2> QED BY <1>0, <1>4, <2>3, <2>4, <2>5 DEF OneCopy, GivenBack
<1>5. CASE TakenOut
  <2>1. /\ 1 \in DOMAIN readyList
        /\ processing' = processing \union {readyList[1]}
        /\ UNCHANGED delayedSet
        /\ \A k \in DOMAIN readyList' :
              k \in Nat /\ k + 1 \in DOMAIN readyList /\ readyList'[k] = readyList[k + 1]
    BY <1>5, ListAfterTake DEF TakenOut
  <2>2. DOMAIN readyList' \subseteq Nat /\ \A k \in DOMAIN readyList' : k # 0
    BY <1>5, ListAfterTake DEF TakenOut, RedisInv, KeysOK, RedisTypeOK
  <2>3. \A k, l \in DOMAIN readyList' : readyList'[k].msg = readyList'[l].msg => k = l
    BY <1>0, <2>1, <2>2 DEF OneCopy
  <2>4. \A k \in DOMAIN readyList' : readyList'[k].msg # readyList[1].msg
    BY <1>0, <2>1, <2>2 DEF OneCopy
  <2> QED BY <1>0, <2>1, <2>3, <2>4 DEF OneCopy
<1>6. ASSUME NEW p \in RPoppers, SettledBy(p) PROVE OneCopy'
  BY <1>0, <1>6 DEF SettledBy, OneCopy
<1> QED BY <1>1, <1>2, <1>3, <1>4, <1>5, <1>6 DEF Effect

(* Every step keeps the inductive invariant.                               *)
LEMMA RedisInvStep == RedisInv /\ [RedisNext]_rVars => RedisInv'
BY KeysStep, CarriedStep, EffectOfStep, KnownStep, OneCopyStep DEF RedisInv

(* Where the contract sees a message, by the one key that holds it.        *)
Mapped ==
    \A m \in RMessages :
        /\ m \notin accepted => RPlace(m) = "absent" /\ RAttempt(m) = 0
        /\ \A f \in processing :
              f.msg = m => RPlace(m) = "leased" /\ RAttempt(m) = f.attempt
        /\ \A i \in DOMAIN readyList :
              readyList[i].msg = m => RPlace(m) = "waiting" /\ RAttempt(m) = readyList[i].attempt
        /\ m \in delayedSet => RPlace(m) = "waiting" /\ RAttempt(m) = 1
        /\ (m \in accepted /\ ~Leased(m) /\ ~InLists(m)) => RPlace(m) = "gone" /\ RAttempt(m) = 0

LEMMA OneAttempt ==
    ASSUME NEW m, NEW n, Attempts(m) = {n}
    PROVE  RAttempt(m) = n
BY DEF RAttempt

LEMMA MappedHolds == RedisInv /\ resent = {} => Mapped
<1> SUFFICES ASSUME RedisInv, resent = {}, NEW m \in RMessages
             PROVE
        /\ m \notin accepted => RPlace(m) = "absent" /\ RAttempt(m) = 0
        /\ \A f \in processing :
              f.msg = m => RPlace(m) = "leased" /\ RAttempt(m) = f.attempt
        /\ \A i \in DOMAIN readyList :
              readyList[i].msg = m => RPlace(m) = "waiting" /\ RAttempt(m) = readyList[i].attempt
        /\ m \in delayedSet => RPlace(m) = "waiting" /\ RAttempt(m) = 1
        /\ (m \in accepted /\ ~Leased(m) /\ ~InLists(m)) => RPlace(m) = "gone" /\ RAttempt(m) = 0
  BY DEF Mapped
<1>0. Known /\ OneCopy
  BY DEF RedisInv
<1>1. ASSUME m \notin accepted PROVE RPlace(m) = "absent" /\ RAttempt(m) = 0
  <2>1. Attempts(m) = {}
    BY <1>0, <1>1 DEF Attempts, Range, Known
  <2> QED BY <1>1, <2>1 DEF RPlace, RAttempt
<1>2. ASSUME NEW f \in processing, f.msg = m
      PROVE  RPlace(m) = "leased" /\ RAttempt(m) = f.attempt
  <2>1. \A g \in processing \union Range(readyList) : g.msg = m => g = f
    BY <1>0, <1>2 DEF OneCopy, Range
  <2>2. m \notin delayedSet
    BY <1>0, <1>2 DEF OneCopy
  <2>3. Attempts(m) = {f.attempt}
    BY <1>2, <2>1, <2>2 DEF Attempts
  <2>4. m \in accepted /\ Leased(m)
    BY <1>0, <1>2 DEF Known, Leased
  <2> QED BY <2>3, <2>4, OneAttempt DEF RPlace
<1>3. ASSUME NEW i \in DOMAIN readyList, readyList[i].msg = m
      PROVE  RPlace(m) = "waiting" /\ RAttempt(m) = readyList[i].attempt
  <2>1. \A g \in processing \union Range(readyList) : g.msg = m => g = readyList[i]
    BY <1>0, <1>3 DEF OneCopy, Range
  <2>2. m \notin delayedSet /\ readyList[i] \in Range(readyList)
    BY <1>0, <1>3 DEF OneCopy, Range
  <2>3. Attempts(m) = {readyList[i].attempt}
    BY <1>3, <2>1, <2>2 DEF Attempts
  <2>4. m \in accepted /\ ~Leased(m) /\ InLists(m)
    BY <1>0, <1>3 DEF Known, OneCopy, Leased, InLists
  <2> QED BY <2>3, <2>4, OneAttempt DEF RPlace
<1>4. ASSUME m \in delayedSet PROVE RPlace(m) = "waiting" /\ RAttempt(m) = 1
  <2>1. \A g \in processing \union Range(readyList) : g.msg # m
    BY <1>0, <1>4 DEF OneCopy, Range
  <2>2. Attempts(m) = {1}
    BY <1>4, <2>1 DEF Attempts
  <2>3. m \in accepted /\ ~Leased(m) /\ InLists(m)
    BY <1>0, <1>4 DEF Known, OneCopy, Leased, InLists
  <2> QED BY <2>2, <2>3, OneAttempt DEF RPlace
<1>5. ASSUME m \in accepted, ~Leased(m), ~InLists(m)
      PROVE  RPlace(m) = "gone" /\ RAttempt(m) = 0
  <2>1. Attempts(m) = {}
    BY <1>5 DEF Attempts, Range, Leased, InLists
  <2> QED BY <1>5, <2>1 DEF RPlace, RAttempt
<1> QED BY <1>1, <1>2, <1>3, <1>4, <1>5

(* The same in the state that a step leads to.                             *)
LEMMA MappedNext == (RedisInv /\ resent = {})' => Mapped'
BY MappedHolds, PTL

(* A step that leaves the copy of a message where the contract sees it.    *)
Untouched(o) ==
    /\ o \notin accepted => o \notin accepted'
    /\ \A f \in processing : f.msg = o => f \in processing'
    /\ \A i \in DOMAIN readyList :
          readyList[i].msg = o => \E k \in DOMAIN readyList' : readyList'[k] = readyList[i]
    /\ o \in delayedSet =>
          o \in delayedSet' \/ \E k \in DOMAIN readyList' :
                                 readyList'[k] = [msg |-> o, attempt |-> 1]
    /\ (o \in accepted /\ ~Leased(o) /\ ~InLists(o)) =>
          o \in accepted' /\ ~Leased(o)' /\ ~InLists(o)'

LEMMA SamePlace ==
    ASSUME Mapped, Mapped', NEW o \in RMessages, Untouched(o)
    PROVE  RPlace(o)' = RPlace(o) /\ RAttempt(o)' = RAttempt(o)
<1>1. CASE o \notin accepted
  BY <1>1 DEF Mapped, Untouched
<1>2. ASSUME NEW f \in processing, f.msg = o
      PROVE  RPlace(o)' = RPlace(o) /\ RAttempt(o)' = RAttempt(o)
  BY <1>2 DEF Mapped, Untouched
<1>3. ASSUME NEW i \in DOMAIN readyList, readyList[i].msg = o
      PROVE  RPlace(o)' = RPlace(o) /\ RAttempt(o)' = RAttempt(o)
  BY <1>3 DEF Mapped, Untouched
<1>4. CASE o \in delayedSet
  <2>1. RPlace(o) = "waiting" /\ RAttempt(o) = 1
    BY <1>4 DEF Mapped
  <2>2. CASE o \in delayedSet'
    BY <2>1, <2>2 DEF Mapped
  <2>3. ASSUME NEW k \in DOMAIN readyList', readyList'[k] = [msg |-> o, attempt |-> 1]
        PROVE  RPlace(o)' = "waiting" /\ RAttempt(o)' = 1
    <3>1. readyList'[k].msg = o /\ readyList'[k].attempt = 1
      BY <2>3
    <3> QED BY <3>1 DEF Mapped
  <2> QED BY <1>4, <2>1, <2>2, <2>3 DEF Untouched
<1>5. CASE o \in accepted /\ ~Leased(o) /\ ~InLists(o)
  BY <1>5 DEF Mapped, Untouched
<1> QED BY <1>1, <1>2, <1>3, <1>4, <1>5 DEF Leased, InLists

(* Every effect is a step of the contract, or nothing to it.               *)
LEMMA ContractStep ==
    ASSUME RedisInv, RedisInv', Effect, resent' = {}
    PROVE  RContract!Next \/ UNCHANGED RContract!contractVars
<1>0. /\ Known /\ OneCopy /\ resent = {} /\ RedisTypeOK
      /\ Mapped /\ Mapped'
  BY MappedHolds, MappedNext
     DEF RedisInv, KeysOK, Effect, Kept, PutIn, MovedUp, GivenBack, TakenOut, SettledBy
<1>1. ASSUME \A o \in RMessages : RPlace(o)' = RPlace(o) /\ RAttempt(o)' = RAttempt(o)
      PROVE  UNCHANGED RContract!contractVars
  BY <1>1 DEF RContract!contractVars
<1>2. ASSUME NEW m \in RMessages, NEW d \in BOOLEAN, PutIn(m, d) PROVE RContract!Next
  <2>1. m \notin accepted /\ accepted' = accepted \union {m} /\ UNCHANGED processing
    BY <1>0, <1>2 DEF PutIn
  <2>2. RPlace(m) = "absent"
    BY <1>0, <2>1 DEF Mapped
  <2>3. /\ RPlace(m)' = "waiting" /\ RAttempt(m)' = 1
        /\ \A o \in RMessages : o # m => Untouched(o)
    <3>1. CASE d
      <4>1. delayedSet' = delayedSet \union {m} /\ UNCHANGED readyList
        BY <1>2, <3>1 DEF PutIn, Stored
      <4> QED BY <1>0, <2>1, <4>1 DEF Mapped, Untouched, Leased, InLists
    <3>2. CASE ~d
      <4>1. /\ readyList' = Append(readyList, [msg |-> m, attempt |-> 1])
            /\ UNCHANGED delayedSet
        BY <1>2, <3>2 DEF PutIn, Stored
      <4>2. [msg |-> m, attempt |-> 1] \in Entry
        BY DEF Entry
      <4>3. /\ \A i \in DOMAIN readyList :
                  i \in DOMAIN readyList' /\ readyList'[i] = readyList[i]
            /\ \E k \in DOMAIN readyList' : readyList'[k] = [msg |-> m, attempt |-> 1]
            /\ \A k \in DOMAIN readyList' :
                  k \notin DOMAIN readyList => readyList'[k] = [msg |-> m, attempt |-> 1]
        BY <4>1, <4>2, ListAfterOne
      <4>4. PICK k \in DOMAIN readyList' : readyList'[k].msg = m /\ readyList'[k].attempt = 1
        BY <4>3
      <4>5. RPlace(m)' = "waiting" /\ RAttempt(m)' = 1
        BY <1>0, <4>4 DEF Mapped
      <4>6. \A l \in DOMAIN readyList' :
               readyList'[l].msg # m => l \in DOMAIN readyList /\ readyList'[l] = readyList[l]
        BY <4>3
      <4>7. ASSUME NEW o \in RMessages, o # m PROVE Untouched(o)
        BY <2>1, <4>1, <4>3, <4>6, <4>7 DEF Untouched, Leased, InLists
      <4> QED BY <4>5, <4>7
    <3> QED BY <3>1, <3>2
  <2>4. \A o \in RMessages : o # m => RPlace(o)' = RPlace(o) /\ RAttempt(o)' = RAttempt(o)
    BY <1>0, <2>3, SamePlace
  <2>5. RContract!Accept(m)
    BY <2>2, <2>3, <2>4 DEF RContract!Accept
  <2> QED BY <2>5 DEF RContract!Next
<1>3. ASSUME NEW B, MovedUp(B) PROVE UNCHANGED RContract!contractVars
  <2>1. PICK order \in Orders(B) : \E t \in [DOMAIN order -> Entry] :
              /\ readyList' = readyList \o t
              /\ \A i \in DOMAIN order : t[i] = [msg |-> order[i], attempt |-> 1]
              /\ IsFiniteSet(B)
    BY <1>3, MovedUpList
  <2>2. PICK t \in [DOMAIN order -> Entry] :
              /\ readyList' = readyList \o t
              /\ \A i \in DOMAIN order : t[i] = [msg |-> order[i], attempt |-> 1]
              /\ IsFiniteSet(B)
    BY <2>1
  <2>3. /\ \A x \in B : \E i \in DOMAIN order : order[i] = x
        /\ \A i \in DOMAIN readyList :
              i \in DOMAIN readyList' /\ readyList'[i] = readyList[i]
        /\ \A i \in DOMAIN order :
              Len(readyList) + i \in DOMAIN readyList'
                 /\ readyList'[Len(readyList) + i] = t[i]
        /\ \A k \in DOMAIN readyList' :
              \/ k \in DOMAIN readyList /\ readyList'[k] = readyList[k]
              \/ \E i \in DOMAIN order :
                    k = Len(readyList) + i /\ readyList'[k] = t[i] /\ order[i] \in B
    BY <2>2, ListAfter
  <2>4. /\ delayedSet' = delayedSet \ B /\ B \subseteq delayedSet
        /\ UNCHANGED << processing, accepted >>
    BY <1>3 DEF MovedUp
  <2>5. \A k \in DOMAIN readyList' :
           \/ k \in DOMAIN readyList /\ readyList'[k] = readyList[k]
           \/ readyList'[k].msg \in B
    BY <2>2, <2>3
  <2>6. ASSUME NEW o \in B
        PROVE  \E k \in DOMAIN readyList' : readyList'[k] = [msg |-> o, attempt |-> 1]
    <3>1. PICK i \in DOMAIN order : order[i] = o
      BY <2>3
    <3>2. t[i] = [msg |-> o, attempt |-> 1]
      BY <2>2, <3>1
    <3>3. /\ Len(readyList) + i \in DOMAIN readyList'
          /\ readyList'[Len(readyList) + i] = t[i]
      BY <2>3
    <3> QED BY <3>2, <3>3
  <2>7. ASSUME NEW o \in RMessages PROVE Untouched(o)
    BY <2>3, <2>4, <2>5, <2>6 DEF Untouched, Leased, InLists
  <2> QED BY <1>0, <1>1, <2>7, SamePlace
<1>4. ASSUME NEW B, GivenBack(B) PROVE RContract!Next
  <2>1. PICK order \in Orders(B) : \E t \in [DOMAIN order -> Entry] :
              /\ readyList' = readyList \o t
              /\ \A i \in DOMAIN order :
                    t[i].msg = order[i].msg /\ t[i].attempt = order[i].attempt + 1
              /\ IsFiniteSet(B)
    BY <1>4, GivenBackList
  <2>2. PICK t \in [DOMAIN order -> Entry] :
              /\ readyList' = readyList \o t
              /\ \A i \in DOMAIN order :
                    t[i].msg = order[i].msg /\ t[i].attempt = order[i].attempt + 1
              /\ IsFiniteSet(B)
    BY <2>1
  <2>3. /\ \A x \in B : \E i \in DOMAIN order : order[i] = x
        /\ \A i \in DOMAIN readyList :
              i \in DOMAIN readyList' /\ readyList'[i] = readyList[i]
        /\ \A i \in DOMAIN order :
              Len(readyList) + i \in DOMAIN readyList'
                 /\ readyList'[Len(readyList) + i] = t[i]
        /\ \A k \in DOMAIN readyList' :
              \/ k \in DOMAIN readyList /\ readyList'[k] = readyList[k]
              \/ \E i \in DOMAIN order :
                    k = Len(readyList) + i /\ readyList'[k] = t[i] /\ order[i] \in B
    BY <2>2, ListAfter
  <2>4. processing' = processing \ B /\ B \subseteq processing
        /\ UNCHANGED << delayedSet, accepted >>
    BY <1>4 DEF GivenBack
  <2>5. PICK S : S = {f.msg : f \in B}
    OBVIOUS
  <2>6. S \subseteq RMessages
    BY <1>0, <2>4, <2>5 DEF RedisTypeOK, Entry
  <2>7. ASSUME NEW o \in S
        PROVE  /\ RPlace(o) = "leased" /\ RPlace(o)' = "waiting"
               /\ RAttempt(o)' = RAttempt(o) + 1
    <3>1. PICK f \in B : f.msg = o
      BY <2>5, <2>7
    <3>2. PICK i \in DOMAIN order : order[i] = f
      BY <2>3
    <3>3. PICK k \in DOMAIN readyList' :
             readyList'[k].msg = o /\ readyList'[k].attempt = f.attempt + 1
      <4>1. t[i].msg = o /\ t[i].attempt = f.attempt + 1
        BY <2>2, <3>1, <3>2
      <4>2. /\ Len(readyList) + i \in DOMAIN readyList'
            /\ readyList'[Len(readyList) + i] = t[i]
        BY <2>3
      <4> QED BY <4>1, <4>2
    <3>4. RPlace(o) = "leased" /\ RAttempt(o) = f.attempt
      BY <1>0, <2>4, <2>6, <3>1 DEF Mapped
    <3>5. RPlace(o)' = "waiting" /\ RAttempt(o)' = f.attempt + 1
      BY <1>0, <2>6, <3>3 DEF Mapped
    <3> QED BY <3>4, <3>5
  <2>8. \A k \in DOMAIN readyList' :
           \/ k \in DOMAIN readyList /\ readyList'[k] = readyList[k]
           \/ readyList'[k].msg \in S
    BY <2>2, <2>3, <2>5
  <2>9. ASSUME NEW o \in RMessages, o \notin S PROVE Untouched(o)
    <3>1. \A f \in processing : f.msg = o => f \notin B
      BY <2>5, <2>9
    <3> QED BY <2>3, <2>4, <2>8, <2>9, <3>1 DEF Untouched, Leased, InLists
  <2>10. \A o \in RMessages :
            o \notin S => RPlace(o)' = RPlace(o) /\ RAttempt(o)' = RAttempt(o)
    BY <1>0, <2>9, SamePlace
  <2>11. RContract!Return(S)
    BY <2>6, <2>7, <2>10 DEF RContract!Return
  <2> QED BY <2>6, <2>11 DEF RContract!Next
<1>5. ASSUME TakenOut PROVE RContract!Next
  <2>1. PICK f : f = readyList[1]
    OBVIOUS
  <2>2. /\ 1 \in DOMAIN readyList /\ processing' = processing \union {f}
        /\ UNCHANGED << delayedSet, accepted >>
        /\ \A k \in DOMAIN readyList' :
              k + 1 \in DOMAIN readyList /\ readyList'[k] = readyList[k + 1]
        /\ \A i \in DOMAIN readyList :
              i = 1 \/ \E k \in DOMAIN readyList' : readyList'[k] = readyList[i]
    BY <1>5, <2>1, ListAfterTake DEF TakenOut
  <2>3. f.msg \in RMessages
    <3>1. readyList[1] \in Entry
      BY <1>0, <2>2 DEF RedisTypeOK
    <3> QED BY <2>1, <3>1 DEF Entry
  <2>4. RPlace(f.msg) = "waiting" /\ RAttempt(f.msg) = f.attempt
    BY <1>0, <2>1, <2>2, <2>3 DEF Mapped
  <2>5. RPlace(f.msg)' = "leased" /\ RAttempt(f.msg)' = f.attempt
    BY <1>0, <2>2, <2>3 DEF Mapped
  <2>6. ASSUME NEW o \in RMessages, o # f.msg PROVE Untouched(o)
    BY <2>1, <2>2, <2>6 DEF Untouched, Leased, InLists
  <2>7. \A o \in RMessages :
           o # f.msg => RPlace(o)' = RPlace(o) /\ RAttempt(o)' = RAttempt(o)
    BY <1>0, <2>6, SamePlace
  <2>8. RContract!Deliver(f.msg)
    BY <2>3, <2>4, <2>5, <2>7 DEF RContract!Deliver
  <2> QED BY <2>3, <2>8 DEF RContract!Next
<1>6. ASSUME NEW p \in RPoppers, SettledBy(p) PROVE RContract!Next
  <2>1. PICK f \in processing : f = taker[p].entry
    BY <1>6 DEF SettledBy
  <2>2. processing' = processing \ {f} /\ UNCHANGED << readyList, delayedSet, accepted >>
    BY <1>6, <2>1 DEF SettledBy
  <2>3. f.msg \in RMessages /\ f.msg \in accepted
    BY <1>0, <2>1 DEF RedisTypeOK, Entry, Known
  <2>4. RPlace(f.msg) = "leased"
    BY <1>0, <2>1, <2>3 DEF Mapped
  <2>5. ~Leased(f.msg)' /\ ~InLists(f.msg)'
    BY <1>0, <2>1, <2>2 DEF OneCopy, Leased, InLists
  <2>6. RPlace(f.msg)' = "gone" /\ RAttempt(f.msg)' = 0
    BY <1>0, <2>2, <2>3, <2>5 DEF Mapped
  <2>7. ASSUME NEW o \in RMessages, o # f.msg PROVE Untouched(o)
    BY <2>1, <2>2, <2>7 DEF Untouched, Leased, InLists
  <2>8. \A o \in RMessages :
           o # f.msg => RPlace(o)' = RPlace(o) /\ RAttempt(o)' = RAttempt(o)
    BY <1>0, <2>7, SamePlace
  <2>9. RContract!Remove(f.msg)
    BY <2>3, <2>4, <2>6, <2>8 DEF RContract!Remove
  <2> QED BY <2>3, <2>9 DEF RContract!Next
<1>7. ASSUME Kept PROVE UNCHANGED RContract!contractVars
  <2>1. ASSUME NEW o \in RMessages PROVE Untouched(o)
    BY <1>7 DEF Kept, Untouched, Leased, InLists
  <2> QED BY <1>0, <1>1, <2>1, SamePlace
<1> QED BY <1>2, <1>3, <1>4, <1>5, <1>6, <1>7 DEF Effect

(* Only the consumer that holds a claim can make a message leave the keys. *)
LEMMA LeavesStep == RedisInv /\ Effect => LeavesByHolder
<1> SUFFICES ASSUME RedisInv, Effect, NEW m \in accepted,
                    Leased(m) \/ InLists(m), ~(Leased(m) \/ InLists(m))'
             PROVE  \E p \in RPoppers : TakerAt(p, "hold") /\ taker[p].entry.msg = m
  BY DEF LeavesByHolder
<1>0. ~Leased(m)' /\ ~InLists(m)'
  OBVIOUS
<1>1. CASE Kept
  BY <1>0, <1>1 DEF Kept, Leased, InLists
<1>2. ASSUME NEW x \in RMessages, NEW d \in BOOLEAN, PutIn(x, d) PROVE FALSE
  <2>1. UNCHANGED processing /\ delayedSet \subseteq delayedSet'
    BY <1>2 DEF PutIn, Stored
  <2>2. \A i \in DOMAIN readyList : i \in DOMAIN readyList' /\ readyList'[i] = readyList[i]
    <3>1. CASE d
      BY <1>2, <3>1 DEF PutIn, Stored
    <3>2. CASE ~d
      <4>1. readyList' = Append(readyList, [msg |-> x, attempt |-> 1])
        BY <1>2, <3>2 DEF PutIn, Stored
      <4>2. [msg |-> x, attempt |-> 1] \in Entry
        BY DEF Entry
      <4> QED BY <4>1, <4>2, ListAfterOne
    <3> QED BY <3>1, <3>2
  <2> QED BY <1>0, <2>1, <2>2 DEF Leased, InLists
<1>3. ASSUME NEW B, MovedUp(B) PROVE FALSE
  <2>1. PICK order \in Orders(B) : \E t \in [DOMAIN order -> Entry] :
              /\ readyList' = readyList \o t
              /\ \A i \in DOMAIN order : t[i] = [msg |-> order[i], attempt |-> 1]
              /\ IsFiniteSet(B)
    BY <1>3, MovedUpList
  <2>2. PICK t \in [DOMAIN order -> Entry] :
              /\ readyList' = readyList \o t
              /\ \A i \in DOMAIN order : t[i].msg = order[i]
              /\ IsFiniteSet(B)
    BY <2>1
  <2>3. /\ \A x \in B : \E i \in DOMAIN order : order[i] = x
        /\ \A i \in DOMAIN readyList :
              i \in DOMAIN readyList' /\ readyList'[i] = readyList[i]
        /\ \A i \in DOMAIN order :
              Len(readyList) + i \in DOMAIN readyList'
                 /\ readyList'[Len(readyList) + i] = t[i]
    BY <2>2, ListAfter
  <2>4. delayedSet' = delayedSet \ B /\ UNCHANGED processing
    BY <1>3 DEF MovedUp
  <2>5. m \in B
    BY <1>0, <2>3, <2>4 DEF Leased, InLists
  <2>6. PICK i \in DOMAIN order : order[i] = m
    BY <2>3, <2>5
  <2>7. /\ Len(readyList) + i \in DOMAIN readyList'
        /\ readyList'[Len(readyList) + i] = t[i]
    BY <2>3
  <2>8. t[i].msg = m
    BY <2>2, <2>6
  <2> QED BY <1>0, <2>7, <2>8 DEF InLists
<1>4. ASSUME NEW B, GivenBack(B) PROVE FALSE
  <2>1. PICK order \in Orders(B) : \E t \in [DOMAIN order -> Entry] :
              /\ readyList' = readyList \o t
              /\ \A i \in DOMAIN order :
                    t[i].msg = order[i].msg /\ t[i].attempt = order[i].attempt + 1
              /\ IsFiniteSet(B)
    BY <1>4, GivenBackList
  <2>2. PICK t \in [DOMAIN order -> Entry] :
              /\ readyList' = readyList \o t
              /\ \A i \in DOMAIN order : t[i].msg = order[i].msg
              /\ IsFiniteSet(B)
    BY <2>1
  <2>3. /\ \A x \in B : \E i \in DOMAIN order : order[i] = x
        /\ \A i \in DOMAIN readyList :
              i \in DOMAIN readyList' /\ readyList'[i] = readyList[i]
        /\ \A i \in DOMAIN order :
              Len(readyList) + i \in DOMAIN readyList'
                 /\ readyList'[Len(readyList) + i] = t[i]
    BY <2>2, ListAfter
  <2>4. processing' = processing \ B /\ UNCHANGED delayedSet
    BY <1>4 DEF GivenBack
  <2>5. PICK f \in B : f.msg = m
    BY <1>0, <2>3, <2>4 DEF Leased, InLists
  <2>6. PICK i \in DOMAIN order : order[i] = f
    BY <2>3
  <2>7. /\ Len(readyList) + i \in DOMAIN readyList'
        /\ readyList'[Len(readyList) + i] = t[i]
    BY <2>3
  <2>8. t[i].msg = m
    BY <2>2, <2>5, <2>6
  <2> QED BY <1>0, <2>7, <2>8 DEF InLists
<1>5. CASE TakenOut
  <2>1. /\ UNCHANGED delayedSet
        /\ processing \subseteq processing' /\ readyList[1] \in processing'
        /\ \A i \in DOMAIN readyList :
              i = 1 \/ \E k \in DOMAIN readyList' : readyList'[k] = readyList[i]
    BY <1>5, ListAfterTake DEF TakenOut
  <2> QED BY <1>0, <2>1 DEF Leased, InLists
<1>6. ASSUME NEW p \in RPoppers, SettledBy(p)
      PROVE  TakerAt(p, "hold") /\ taker[p].entry.msg = m
  <2>1. /\ TakerAt(p, "hold") /\ processing' = processing \ {taker[p].entry}
        /\ UNCHANGED << readyList, delayedSet >>
    BY <1>6 DEF SettledBy
  <2> QED BY <1>0, <2>1 DEF Leased, InLists
<1> QED BY <1>1, <1>2, <1>3, <1>4, <1>5, <1>6 DEF Effect

(* Nothing is accepted at first.                                           *)
LEMMA RContractInit == RedisInit => RContract!Init
<1> SUFFICES ASSUME RedisInit PROVE RContract!Init
  OBVIOUS
<1>1. RedisInv /\ resent = {} /\ accepted = {}
  BY RedisInvInit DEF RedisInit
<1>2. \A m \in RMessages : RPlace(m) = "absent" /\ RAttempt(m) = 0
  BY <1>1, MappedHolds DEF Mapped
<1> QED BY <1>2 DEF RContract!Init

(* The scripts implement the contract of core/queue, for every number of   *)
(* messages, goroutines and buffer: every step is one step of the contract *)
(* or none, and after a push that was sent twice no message is lost.       *)
THEOREM RedisQueueRefines == RedisSpec => RedisKeepsContract
<1>1. RedisInv /\ RedisInv' /\ [RedisNext]_rVars => [KeptByStep]_rVars
  <2> SUFFICES ASSUME RedisInv, RedisInv', [RedisNext]_rVars PROVE KeptByStep
    OBVIOUS
  <2>1. Effect
    BY EffectOfStep
  <2>2. CASE resent' = {}
    BY <2>1, <2>2, ContractStep DEF KeptByStep
  <2>3. CASE resent' # {}
    BY <2>1, <2>3, LeavesStep DEF KeptByStep
  <2> QED BY <2>2, <2>3
<1> QED
  BY RedisInvInit, RedisInvStep, RContractInit, <1>1, PTL DEF RedisSpec, RedisKeepsContract

(* The keys, the pushes and the pops keep their types.                     *)
THEOREM RedisTypeCorrect == RedisSpec => []RedisTypeOK
<1>1. RedisInv => RedisTypeOK
  BY DEF RedisInv, KeysOK
<1> QED
  BY RedisInvInit, RedisInvStep, <1>1, PTL DEF RedisSpec

(* Hash and sorted set never disagree, whichever scripts of whichever      *)
(* processes ran and whatever was sent twice: reclaim-fallback.lua finds   *)
(* nothing that reclaim.lua would not have found.                          *)
THEOREM RedisClaimsIndexed == RedisSpec => []ClaimsIndexed
<1>1. RedisInv => ClaimsIndexed
  BY DEF RedisInv, KeysOK
<1> QED
  BY RedisInvInit, RedisInvStep, <1>1, PTL DEF RedisSpec
=============================================================================
