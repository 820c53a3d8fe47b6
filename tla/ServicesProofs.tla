------------------------- MODULE ServicesProofs --------------------------
(***************************************************************************)
(* The in-process lock and workflow runs, for any number of handles,       *)
(* calls, keys and faults; and what the run of MCServices explores: its    *)
(* behaviours are behaviours of the five components, so the theorems about *)
(* each of them hold there too.                                            *)
(***************************************************************************)
EXTENDS MCServices, WebhookOnceProofs, RedisQueueProofs, JobBatchProofs

-----------------------------------------------------------------------------
(* The lock.  The inductive invariant says that a handle that believes to  *)
(* hold its key, and was not dropped, is the one the table names, until    *)
(* the deadline it knows of; and that no operation acts on a time that is  *)
(* still to come, without which a lease could be replaced before it is     *)
(* over.                                                                   *)

LockTypes ==
    /\ time \in Nat
    /\ holder \in [Locks -> Handles \union {NoHolder}]
    /\ expires \in [Locks -> Nat]
    /\ op \in [Handles -> Ops]
    /\ clock \in [Handles -> Nat]
    /\ target \in [Handles -> Locks]
    /\ phase \in [Handles -> {"new", "held", "released"}]
    /\ deadline \in [Handles -> Nat]

NoFutureClock == \A h \in Handles : clock[h] <= time

(* A handle that has not acquired yet is not in the table.                 *)
NewIsAbsent ==
    \A h \in Handles, k \in Locks : phase[h] = "new" => holder[k] # h

(* Only a handle that is still new has an acquisition in progress.         *)
AcquireIsNew == \A h \in Handles : op[h] = "acquire" => phase[h] = "new"

BelieversRecorded ==
    \A h \in Handles :
        Believes(h) /\ h \notin dropped =>
            holder[target[h]] = h /\ expires[target[h]] = deadline[h]

LockInv ==
    /\ LockTypes /\ NoFutureClock /\ NewIsAbsent /\ AcquireIsNew
    /\ BelieversRecorded

(* The empty table and handles that were not used yet.                     *)
LEMMA LockInvInit == LockInit => LockInv
BY LockAssumption
   DEF LockInit, LockInv, LockTypes, NoFutureClock, NewIsAbsent, AcquireIsNew,
       BelieversRecorded, Believes, Ops

(* Every step keeps the inductive invariant.                               *)
LEMMA LockInvStep == LockInv /\ [LockNext]_lockVars => LockInv'
<1> SUFFICES ASSUME LockInv, [LockNext]_lockVars PROVE LockInv'
  OBVIOUS
<1> USE LockAssumption
        DEF LockInv, LockTypes, NoFutureClock, NewIsAbsent, AcquireIsNew,
            BelieversRecorded, Believes, Finish, tableVars, Ops
<1>1. ASSUME NEW h \in Handles, NEW o \in Ops \ {"none"}, Begin(h, o)
      PROVE LockInv'
  BY <1>1 DEF Begin
<1>2. ASSUME NEW h \in Handles, NEW ttl \in TTLs, Acquired(h, ttl)
      PROVE LockInv'
  <2> DEFINE k == target[h]
             owners == [holder EXCEPT ![k] = h]
             used == <<k>> \o Without(k)
             gone == IF Overfull(used) THEN {Back(used)} ELSE {}
  <2>1. PICK evicted : evicted = gone
    OBVIOUS
  <2>0. /\ holder' = [j \in Locks |-> IF j \in evicted THEN NoHolder ELSE owners[j]]
        /\ dropped' = dropped \union
                         {g \in Handles : \E j \in evicted : owners[j] = g}
    BY <1>2, <2>1 DEF Acquired
  <2>2. /\ op[h] = "acquire" /\ phase[h] = "new"
        /\ holder[k] = NoHolder \/ expires[k] <= clock[h]
        /\ expires' = [expires EXCEPT ![k] = clock[h] + ttl]
        /\ phase' = [phase EXCEPT ![h] = "held"]
        /\ deadline' = [deadline EXCEPT ![h] = clock[h] + ttl]
        /\ op' = [op EXCEPT ![h] = "none"]
        /\ clock' = [clock EXCEPT ![h] = 0]
        /\ UNCHANGED <<time, target>>
    BY <1>2 DEF Acquired, LeaseOver
  <2>3. k \in Locks /\ clock[h] + ttl \in Nat
    <3>1. ttl \in Nat /\ clock[h] \in Nat
      OBVIOUS
    <3> QED BY <3>1
  <2>4. LockTypes' /\ NoFutureClock' /\ AcquireIsNew'
    BY <2>0, <2>2, <2>3
  <2>5. NewIsAbsent'
    BY <2>0, <2>2, <2>3
  <2>6. BelieversRecorded'
    <3> SUFFICES ASSUME NEW g \in Handles, Believes(g)', g \notin dropped'
                 PROVE holder'[target[g]] = g /\ expires'[target[g]] = deadline'[g]
      BY <2>2
    <3>1. CASE g = h
      BY <2>0, <2>2, <2>3, <3>1
    <3>2. CASE g # h
      <4>1. Believes(g) /\ g \notin dropped
        BY <2>0, <2>2, <3>2
      <4>2. holder[target[g]] = g /\ expires[target[g]] = deadline[g]
        BY <4>1
      <4>3. target[g] # k
        BY <2>2, <4>1, <4>2
      <4>4. owners[target[g]] = g /\ target[g] \notin evicted
        BY <2>0, <4>2, <4>3
      <4> QED BY <2>0, <2>2, <3>2, <4>2, <4>3, <4>4
    <3> QED BY <3>1, <3>2
  <2> QED BY <2>4, <2>5, <2>6
<1>3. ASSUME NEW h \in Handles, AcquireRefused(h) PROVE LockInv'
  BY <1>3 DEF AcquireRefused
<1>4. ASSUME NEW h \in Handles, NEW ttl \in TTLs, Extended(h, ttl)
      PROVE LockInv'
  BY <1>4 DEF Extended, Owns
<1>5. ASSUME NEW h \in Handles, Unlocked(h) PROVE LockInv'
  BY <1>5 DEF Unlocked, Owns
<1>6. ASSUME NEW h \in Handles, NotHeld(h) PROVE LockInv'
  BY <1>6 DEF NotHeld, LeaseOver
<1>7. CASE Close
  BY <1>7 DEF Close
<1>8. CASE LockTick
  BY <1>8 DEF LockTick
<1>9. CASE UNCHANGED lockVars
  BY <1>9 DEF lockVars
<1> QED
  BY <1>1, <1>2, <1>3, <1>4, <1>5, <1>6, <1>7, <1>8, <1>9 DEF LockNext

(* TryAcquire never grants a key whose holder's lease runs, whatever       *)
(* handles that lost theirs do with Extend and Unlock and however long an  *)
(* operation waits after reading the clock: mutual exclusion fails only    *)
(* for a handle that was evicted or dropped by Close.                      *)
THEOREM MutualExclusion == LockSpec => []Exclusive
<1>1. LockInv => Exclusive
  BY DEF LockInv, BelieversRecorded, Exclusive, LockTypes
<1> QED
  BY LockInvInit, LockInvStep, <1>1, PTL DEF LockSpec

-----------------------------------------------------------------------------
(* The table of leases keeps its list: each key once, the keys that have a *)
(* holder, and no more than TableSize.                                     *)

Lists(s, S) ==
    /\ s \in Seq(Locks)
    /\ \A i, j \in 1 .. Len(s) : s[i] = s[j] => i = j
    /\ \A k \in Locks : k \in S <=> \E i \in 1 .. Len(s) : s[i] = k

Taken(owners) == {k \in Locks : owners[k] # NoHolder}

(* list.Remove takes one element away, if it is there.                     *)
LEMMA RemoveLists ==
    ASSUME NEW S \in SUBSET Locks, Lists(recency, S), NEW k \in Locks
    PROVE  /\ Lists(Without(k), S \ {k})
           /\ Len(Without(k)) \in Nat /\ Len(Without(k)) <= Len(recency)
           /\ k \in S => Len(Without(k)) < Len(recency)
<1>0. Len(recency) \in Nat /\ recency \in [1 .. Len(recency) -> Locks]
      /\ DOMAIN recency = 1 .. Len(recency)
  BY DEF Lists
<1>1. CASE k \notin S
  <2>1. \A i \in 1 .. Len(recency) : recency[i] # k
    BY <1>1 DEF Lists
  <2>2. Without(k) = recency
    BY <1>0, <2>1 DEF Without
  <2> QED BY <1>0, <1>1, <2>1, <2>2 DEF Lists
<1>2. CASE k \in S
  <2>1. PICK p \in 1 .. Len(recency) : recency[p] = k
    BY <1>2 DEF Lists
  <2>2. {i \in DOMAIN recency : recency[i] = k} = {p}
    BY <1>0, <2>1 DEF Lists
  <2>3. (CHOOSE i \in {i \in DOMAIN recency : recency[i] = k} : TRUE) = p
    BY <2>2
  <2>4. Without(k) = [i \in 1 .. (Len(recency) - 1) |->
                         IF i < p THEN recency[i] ELSE recency[i + 1]]
    BY <2>2, <2>3 DEF Without
  <2>5. Len(recency) - 1 \in Nat
    BY <1>0, <2>1
  <2>6. /\ Without(k) \in Seq(Locks) /\ Len(Without(k)) = Len(recency) - 1
        /\ \A i \in 1 .. (Len(recency) - 1) :
              Without(k)[i] = IF i < p THEN recency[i] ELSE recency[i + 1]
    <3>1. \A i \in 1 .. (Len(recency) - 1) :
              i \in 1 .. Len(recency) /\ i + 1 \in 1 .. Len(recency)
      BY <1>0
    <3>2. Without(k) \in [1 .. (Len(recency) - 1) -> Locks]
      BY <1>0, <2>4, <3>1
    <3>3. PICK n \in Nat : n = Len(recency) - 1
      BY <2>5
    <3>4. PICK w \in [1 .. n -> Locks] : w = Without(k)
      BY <3>2, <3>3
    <3>5. w \in Seq(Locks) /\ Len(w) = n
      BY <3>3, <3>4
    <3> QED BY <2>4, <3>3, <3>4, <3>5
  <2>7. ASSUME NEW i \in 1 .. (Len(recency) - 1), NEW j \in 1 .. (Len(recency) - 1),
               Without(k)[i] = Without(k)[j]
        PROVE  i = j
    <3>1. /\ i \in 1 .. Len(recency) /\ i + 1 \in 1 .. Len(recency)
          /\ j \in 1 .. Len(recency) /\ j + 1 \in 1 .. Len(recency)
      BY <1>0
    <3>2. \A m, n \in 1 .. Len(recency) : recency[m] = recency[n] => m = n
      BY DEF Lists
    <3>3. CASE i < p /\ j < p
      BY <2>6, <2>7, <3>1, <3>2, <3>3
    <3>4. CASE i < p /\ ~(j < p)
      <4>1. recency[i] = recency[j + 1]
        BY <2>6, <2>7, <3>4
      <4>2. i = j + 1
        BY <3>1, <3>2, <4>1
      <4> QED BY <1>0, <2>1, <3>1, <3>4, <4>2
    <3>5. CASE ~(i < p) /\ j < p
      <4>1. recency[i + 1] = recency[j]
        BY <2>6, <2>7, <3>5
      <4>2. i + 1 = j
        BY <3>1, <3>2, <4>1
      <4> QED BY <1>0, <2>1, <3>1, <3>5, <4>2
    <3>6. CASE ~(i < p) /\ ~(j < p)
      <4>1. i + 1 = j + 1
        BY <2>6, <2>7, <3>1, <3>2, <3>6
      <4> QED BY <3>1, <4>1
    <3> QED BY <3>3, <3>4, <3>5, <3>6
  <2>8. ASSUME NEW m \in Locks
        PROVE  m \in S \ {k} <=> \E i \in 1 .. (Len(recency) - 1) : Without(k)[i] = m
    <3>1. ASSUME m \in S, m # k
          PROVE  \E i \in 1 .. (Len(recency) - 1) : Without(k)[i] = m
      <4>1. PICK q \in 1 .. Len(recency) : recency[q] = m
        BY <3>1 DEF Lists
      <4>2. q # p
        BY <2>1, <3>1, <4>1
      <4>3. CASE q < p
        <5>1. q \in 1 .. (Len(recency) - 1)
          BY <1>0, <4>3
        <5> QED BY <2>6, <4>1, <4>3, <5>1
      <4>4. CASE q > p
        <5>1. q - 1 \in 1 .. (Len(recency) - 1) /\ ~(q - 1 < p) /\ (q - 1) + 1 = q
          BY <1>0, <4>4
        <5> QED BY <2>6, <4>1, <5>1
      <4> QED BY <4>2, <4>3, <4>4
    <3>2. ASSUME NEW i \in 1 .. (Len(recency) - 1), Without(k)[i] = m
          PROVE  m \in S /\ m # k
      <4>1. PICK q \in 1 .. Len(recency) : q # p /\ Without(k)[i] = recency[q]
        <5>1. /\ i \in 1 .. Len(recency) /\ i + 1 \in 1 .. Len(recency)
              /\ (i < p => i # p) /\ (~(i < p) => i + 1 # p)
          BY <1>0
        <5> QED BY <2>6, <5>1
      <4>2. recency[q] # recency[p]
        BY <4>1 DEF Lists
      <4> QED BY <2>1, <3>2, <4>1, <4>2 DEF Lists
    <3> QED BY <3>1, <3>2
  <2>9. Lists(Without(k), S \ {k})
    BY <2>6, <2>7, <2>8 DEF Lists
  <2> QED BY <1>0, <2>5, <2>6, <2>9
<1> QED BY <1>1, <1>2

(* list.PushFront of a key that is not listed.                             *)
LEMMA PushLists ==
    ASSUME NEW S \in SUBSET Locks, NEW s, Lists(s, S), NEW k \in Locks, k \notin S
    PROVE  Lists(<<k>> \o s, S \union {k}) /\ Len(<<k>> \o s) = Len(s) + 1
<1>0. Len(s) \in Nat /\ s \in Seq(Locks)
  BY DEF Lists
<1>1. /\ <<k>> \o s \in Seq(Locks) /\ Len(<<k>> \o s) = Len(s) + 1
      /\ (<<k>> \o s)[1] = k
      /\ \A i \in 2 .. Len(s) + 1 : (<<k>> \o s)[i] = s[i - 1]
  BY <1>0
<1>2. PICK t : t = <<k>> \o s
  OBVIOUS
<1>3. \A i \in 1 .. Len(s) : s[i] # k /\ s[i] \in Locks
  BY <1>0 DEF Lists
<1>4. /\ t \in Seq(Locks) /\ Len(t) = Len(s) + 1 /\ t[1] = k
      /\ \A i \in 2 .. Len(s) + 1 : t[i] = s[i - 1] /\ t[i] # k /\ i - 1 \in 1 .. Len(s)
  <2>1. \A i \in 2 .. Len(s) + 1 : i - 1 \in 1 .. Len(s)
    BY <1>0
  <2> QED BY <1>1, <1>2, <1>3, <2>1
<1>5. ASSUME NEW i \in 1 .. Len(t), NEW j \in 1 .. Len(t), t[i] = t[j] PROVE i = j
  <2>1. (i = 1 \/ i \in 2 .. Len(s) + 1) /\ (j = 1 \/ j \in 2 .. Len(s) + 1)
    BY <1>0, <1>4
  <2>2. CASE i \in 2 .. Len(s) + 1 /\ j \in 2 .. Len(s) + 1
    <3>1. s[i - 1] = s[j - 1] /\ i - 1 \in 1 .. Len(s) /\ j - 1 \in 1 .. Len(s)
      BY <1>4, <1>5, <2>2
    <3>2. i - 1 = j - 1
      BY <3>1 DEF Lists
    <3> QED BY <1>0, <2>2, <3>2
  <2> QED BY <1>4, <1>5, <2>1, <2>2
<1>6. ASSUME NEW m \in Locks
      PROVE  m \in S \union {k} <=> \E i \in 1 .. Len(t) : t[i] = m
  <2>1. ASSUME m \in S PROVE \E i \in 1 .. Len(t) : t[i] = m
    <3>1. PICK j \in 1 .. Len(s) : s[j] = m
      BY <2>1 DEF Lists
    <3>2. j + 1 \in 2 .. Len(s) + 1 /\ j + 1 \in 1 .. Len(t) /\ (j + 1) - 1 = j
      BY <1>0, <1>4
    <3>3. t[j + 1] = m
      BY <1>4, <3>1, <3>2
    <3> QED BY <3>2, <3>3
  <2>2. ASSUME m = k PROVE \E i \in 1 .. Len(t) : t[i] = m
    <3>1. 1 \in 1 .. Len(t)
      BY <1>0, <1>4
    <3> QED BY <1>4, <2>2, <3>1
  <2>3. ASSUME NEW i \in 1 .. Len(t), t[i] = m, m # k PROVE m \in S
    <3>1. i \in 2 .. Len(s) + 1
      BY <1>0, <1>4, <2>3
    <3>2. s[i - 1] = m /\ i - 1 \in 1 .. Len(s)
      BY <1>4, <2>3, <3>1
    <3> QED BY <3>2 DEF Lists
  <2> QED BY <2>1, <2>2, <2>3
<1> QED BY <1>1, <1>2, <1>4, <1>5, <1>6 DEF Lists

(* The element at the back goes.                                           *)
LEMMA FrontLists ==
    ASSUME NEW S \in SUBSET Locks, NEW s, Lists(s, S), Len(s) > 0
    PROVE  /\ Lists(Front(s), S \ {Back(s)}) /\ Len(Front(s)) = Len(s) - 1
           /\ Back(s) \in Locks
<1>0. Len(s) \in Nat /\ s \in Seq(Locks) /\ Len(s) \in 1 .. Len(s) /\ Len(s) - 1 \in Nat
  BY DEF Lists
<1>1. PICK t : t = Front(s)
  OBVIOUS
<1>2. /\ t \in Seq(Locks) /\ Len(t) = Len(s) - 1
      /\ \A i \in 1 .. Len(s) - 1 : t[i] = s[i]
  <2>1. PICK n \in Nat : n = Len(s) - 1
    BY <1>0
  <2>2. t = SubSeq(s, 1, n)
    BY <1>1, <2>1 DEF Front
  <2>3. \A i \in 1 .. n : s[i] \in Locks
    BY <1>0, <2>1
  <2>4. Len(t) = n
    BY <1>0, <2>1, <2>2
  <2>5. \A i \in 1 .. n : t[i] = s[i]
    BY <1>0, <2>1, <2>2
  <2>6. t \in Seq(Locks)
    BY <1>0, <2>1, <2>2, <2>3
  <2> QED BY <2>1, <2>4, <2>5, <2>6
<1>3. /\ \A i \in 1 .. Len(s) - 1 : i \in 1 .. Len(s) /\ i # Len(s)
      /\ \A i \in 1 .. Len(s) : i = Len(s) \/ i \in 1 .. Len(s) - 1
  BY <1>0
<1>4. \A i, j \in 1 .. Len(t) : t[i] = t[j] => i = j
  BY <1>2, <1>3 DEF Lists
<1>5. ASSUME NEW m \in Locks
      PROVE  m \in S \ {Back(s)} <=> \E i \in 1 .. Len(t) : t[i] = m
  <2>0. \A i, j \in 1 .. Len(s) : s[i] = s[j] => i = j
    BY DEF Lists
  <2>1. ASSUME NEW i \in 1 .. Len(s) - 1 PROVE s[i] # s[Len(s)]
    <3>1. i \in 1 .. Len(s) /\ i # Len(s)
      BY <1>3
    <3> QED BY <1>0, <2>0, <3>1
  <2>2. ASSUME NEW i \in 1 .. Len(t), t[i] = m PROVE m \in S /\ m # Back(s)
    <3>1. i \in 1 .. Len(s) - 1 /\ i \in 1 .. Len(s) /\ s[i] = m
      BY <1>2, <1>3, <2>2
    <3> QED BY <2>1, <3>1 DEF Lists, Back
  <2>3. ASSUME m \in S, m # Back(s) PROVE \E i \in 1 .. Len(t) : t[i] = m
    <3>1. PICK i \in 1 .. Len(s) : s[i] = m
      BY <2>3 DEF Lists
    <3>2. i \in 1 .. Len(s) - 1
      BY <1>3, <2>3, <3>1 DEF Back
    <3> QED BY <1>2, <3>1, <3>2
  <2> QED BY <2>2, <2>3
<1> QED BY <1>0, <1>1, <1>2, <1>4, <1>5 DEF Lists, Back

TableListed == Lists(recency, Taken(holder)) /\ Len(recency) <= TableSize

(* The values of the table and of the handles.                             *)
LockValues ==
    /\ time \in 0 .. LockMaxTime
    /\ dropped \subseteq Handles
    /\ closes \in 0 .. MaxCloses

(* The list after one operation of the table.                              *)
LEMMA TableListedStep ==
    ASSUME LockTypes, TableListed, [LockNext]_lockVars
    PROVE  TableListed'
<1>0. /\ Taken(holder) \in SUBSET Locks /\ Len(recency) \in Nat /\ TableSize \in Nat \ {0}
      /\ holder \in [Locks -> Handles \union {NoHolder}] /\ target \in [Handles -> Locks]
      /\ NoHolder \notin Handles
  BY LockAssumption DEF Taken, TableListed, Lists, LockTypes
<1>1. ASSUME UNCHANGED << holder, recency >> PROVE TableListed'
  BY <1>1 DEF TableListed, Lists, Taken
<1>2. ASSUME NEW k \in Locks, recency' = Without(k), holder' = [holder EXCEPT ![k] = NoHolder]
      PROVE  TableListed'
  <2>1. Lists(Without(k), Taken(holder) \ {k}) /\ Len(Without(k)) <= Len(recency)
        /\ Len(Without(k)) \in Nat
    BY <1>0, RemoveLists DEF TableListed
  <2>2. Taken(holder') = Taken(holder) \ {k}
    BY <1>0, <1>2 DEF Taken
  <2>3. Lists(recency', Taken(holder'))
    BY <1>2, <2>1, <2>2
  <2>4. Len(recency') <= TableSize
    BY <1>0, <1>2, <2>1 DEF TableListed
  <2> QED BY <2>3, <2>4 DEF TableListed, Lists, Taken
<1>3. ASSUME NEW h \in Handles, NEW ttl \in TTLs, Acquired(h, ttl) PROVE TableListed'
  <2>1. PICK k \in Locks : k = target[h]
    BY <1>0
  <2>2. PICK owners : owners = [holder EXCEPT ![k] = h]
    OBVIOUS
  <2>3. PICK used : used = <<k>> \o Without(k)
    OBVIOUS
  <2>4. PICK S \in SUBSET Locks : S = Taken(holder) \ {k}
    BY <1>0
  <2>5. /\ Lists(Without(k), S) /\ k \notin S
        /\ Len(Without(k)) \in Nat /\ Len(Without(k)) <= Len(recency)
    BY <1>0, <2>4, RemoveLists DEF TableListed
  <2>6. Lists(used, S \union {k}) /\ Len(used) = Len(Without(k)) + 1
    BY <2>3, <2>5, PushLists
  <2>7. Taken(owners) = S \union {k} /\ S \union {k} \in SUBSET Locks
        /\ \A j \in Locks : owners[j] = IF j = k THEN h ELSE holder[j]
    BY <1>0, <2>2, <2>4 DEF Taken
  <2>8. CASE Overfull(used)
    <3>1. Len(used) > 0
      BY <2>5, <2>6
    <3>2. PICK b \in Locks : b = Back(used)
      BY <2>6, <2>7, <3>1, FrontLists
    <3>3. /\ Lists(Front(used), (S \union {k}) \ {b}) /\ Len(Front(used)) = Len(used) - 1
      BY <2>6, <2>7, <3>1, <3>2, FrontLists
    <3>4. /\ recency' = Front(used)
          /\ holder' = [j \in Locks |-> IF j \in {b} THEN NoHolder ELSE owners[j]]
      BY <1>3, <2>1, <2>2, <2>3, <2>8, <3>2 DEF Acquired
    <3>5. Taken(holder') = (S \union {k}) \ {b}
      BY <2>7, <3>4 DEF Taken
    <3>6. Len(recency') <= TableSize
      BY <1>0, <2>5, <2>6, <3>3, <3>4 DEF TableListed
    <3>7. Lists(recency', Taken(holder'))
      BY <3>3, <3>4, <3>5
    <3> QED BY <3>6, <3>7 DEF TableListed, Lists, Taken
  <2>9. CASE ~Overfull(used)
    <3>1. recency' = used /\ holder' = [j \in Locks |-> IF j \in {} THEN NoHolder ELSE owners[j]]
      BY <1>3, <2>1, <2>2, <2>3, <2>9 DEF Acquired
    <3>2. Taken(holder') = S \union {k}
      BY <2>7, <3>1 DEF Taken
    <3>3. Len(recency') <= TableSize
      BY <1>0, <2>5, <2>6, <2>9, <3>1 DEF Overfull
    <3>4. Lists(recency', Taken(holder'))
      BY <2>6, <3>1, <3>2
    <3> QED BY <3>3, <3>4 DEF TableListed, Lists, Taken
  <2> QED BY <2>8, <2>9
<1>4. ASSUME NEW h \in Handles, NEW ttl \in TTLs, Extended(h, ttl) PROVE TableListed'
  <2>1. PICK k \in Locks : k = target[h]
    BY <1>0
  <2>2. recency' = <<k>> \o Without(k) /\ holder' = holder /\ k \in Taken(holder)
    BY <1>0, <1>4, <2>1 DEF Extended, Owns, Taken
  <2>3. PICK S \in SUBSET Locks : S = Taken(holder) \ {k}
    BY <1>0
  <2>4. /\ Lists(Without(k), S) /\ k \notin S
        /\ Len(Without(k)) \in Nat /\ Len(Without(k)) < Len(recency)
    BY <1>0, <2>2, <2>3, RemoveLists DEF TableListed
  <2>5. Lists(recency', S \union {k}) /\ Len(recency') = Len(Without(k)) + 1
    BY <2>2, <2>4, PushLists
  <2>6. Taken(holder') = S \union {k}
    BY <2>2, <2>3
  <2>7. Len(recency') <= TableSize
    BY <1>0, <2>4, <2>5 DEF TableListed
  <2>8. Lists(recency', Taken(holder'))
    BY <2>5, <2>6
  <2> QED BY <2>7, <2>8 DEF TableListed, Lists, Taken
<1>5. ASSUME NEW h \in Handles, Unlocked(h) PROVE TableListed'
  <2>1. target[h] \in Locks
    BY <1>0
  <2> QED BY <1>2, <1>5, <2>1 DEF Unlocked
<1>6. ASSUME NEW h \in Handles, NotHeld(h) PROVE TableListed'
  <2>1. target[h] \in Locks
    BY <1>0
  <2>2. CASE LeaseOver(target[h], clock[h])
    BY <1>2, <1>6, <2>1, <2>2 DEF NotHeld
  <2>3. CASE ~LeaseOver(target[h], clock[h])
    BY <1>1, <1>6, <2>3 DEF NotHeld
  <2> QED BY <2>2, <2>3
<1>7. ASSUME Close PROVE TableListed'
  <2>1. recency' = <<>> /\ holder' = [k \in Locks |-> NoHolder]
    BY <1>7 DEF Close
  <2>2. Taken(holder') = {}
    BY <2>1 DEF Taken
  <2>3. Lists(recency', Taken(holder')) /\ Len(recency') <= TableSize
    BY <1>0, <2>1, <2>2 DEF Lists
  <2> QED BY <2>3 DEF TableListed, Lists, Taken
<1>8. ASSUME NEW h \in Handles, NEW o, Begin(h, o) PROVE TableListed'
  BY <1>1, <1>8 DEF Begin, tableVars
<1>9. ASSUME NEW h \in Handles, AcquireRefused(h) PROVE TableListed'
  BY <1>1, <1>9 DEF AcquireRefused, tableVars
<1>10. ASSUME LockTick \/ UNCHANGED lockVars PROVE TableListed'
  BY <1>1, <1>10 DEF LockTick, lockVars, tableVars
<1> QED BY <1>3, <1>4, <1>5, <1>6, <1>7, <1>8, <1>9, <1>10 DEF LockNext

(* The clock and the counters.                                             *)
LEMMA LockValuesStep == LockTypes /\ LockValues /\ [LockNext]_lockVars => LockValues'
<1> SUFFICES ASSUME LockTypes, LockValues, [LockNext]_lockVars PROVE LockValues'
  OBVIOUS
<1> USE LockAssumption DEF LockValues, tableVars
<1>1. ASSUME NEW h \in Handles, NEW ttl \in TTLs, Acquired(h, ttl) PROVE LockValues'
  BY <1>1 DEF Acquired
<1>2. ASSUME NEW h \in Handles,
             \/ \E o \in Ops \ {"none"} : Begin(h, o)
             \/ \E ttl \in TTLs : Extended(h, ttl)
             \/ AcquireRefused(h) \/ Unlocked(h) \/ NotHeld(h)
      PROVE  LockValues'
  BY <1>2 DEF Begin, Extended, AcquireRefused, Unlocked, NotHeld
<1>3. ASSUME Close PROVE LockValues'
  BY <1>3 DEF Close
<1>4. ASSUME LockTick \/ UNCHANGED lockVars PROVE LockValues'
  BY <1>4 DEF LockTick, lockVars
<1> QED BY <1>1, <1>2, <1>3, <1>4 DEF LockNext

(* The lock's table is an LRU list of at most TableSize keys, each once,   *)
(* those that have a holder, whatever operations wait with an old clock    *)
(* (shared/lrucache: SetIfAbsent, CompareAndExtend, CompareAndDelete).     *)
THEOREM LockTypeCorrect == LockSpec => []LockTypeOK
<1> DEFINE I == LockInv /\ LockValues /\ TableListed
<1>1. LockInit => I
  <2>1. ASSUME LockInit PROVE LockValues /\ TableListed
    <3>1. Taken(holder) = {} /\ recency = <<>>
      BY <2>1 DEF LockInit, Taken
    <3>2. TableListed
      BY <3>1, LockAssumption DEF TableListed, Lists
    <3> QED BY <2>1, <3>2, LockAssumption DEF LockInit, LockValues
  <2> QED BY <2>1, LockInvInit
<1>2. I /\ [LockNext]_lockVars => I'
  BY LockInvStep, LockValuesStep, TableListedStep DEF LockInv
<1>3. I => LockTypeOK
  <2> SUFFICES ASSUME I PROVE LockTypeOK
    OBVIOUS
  <2>1. clock \in [Handles -> 0 .. time]
    BY DEF LockInv, LockTypes, NoFutureClock
  <2>2. DOMAIN recency = 1 .. Len(recency) /\ recency \in Seq(Locks)
    BY DEF TableListed, Lists
  <2>3. {recency[i] : i \in DOMAIN recency} = {k \in Locks : holder[k] # NoHolder}
    <3>1. \A i \in 1 .. Len(recency) : recency[i] \in Locks
      BY <2>2
    <3> QED BY <2>2, <3>1 DEF TableListed, Lists, Taken
  <2>4. \A i, j \in DOMAIN recency : recency[i] = recency[j] => i = j
    BY <2>2 DEF TableListed, Lists
  <2> QED BY <2>1, <2>2, <2>3, <2>4 DEF LockInv, LockTypes, LockValues, TableListed, LockTypeOK
<1> QED BY <1>1, <1>2, <1>3, PTL DEF LockSpec

-----------------------------------------------------------------------------
(* Workflow runs.  A lease is never taken back, only ended or left to      *)
(* lapse, so the leases between two calls at work tell what happened in    *)
(* between: as long as none of them lapsed or ended, the row still belongs *)
(* to the owner the first call acts for.                                   *)

(* The row, when there is one, has the latest lease; otherwise the latest  *)
(* lease was ended by whoever removed the row.                             *)
LatestLease ==
    /\ wfRow # NoRow => wfRow.lease = granted
    /\ wfRow = NoRow /\ granted > 0 => granted \in ended

(* A call at work has a lease that was granted.                            *)
LeaseOfCall == \A c \in Calls : InStep(c) => wfCall[c].lease \in 1 .. granted

(* The row is kept for the owner of a call as long as no lease from that   *)
(* call's on lapsed or was ended.                                          *)
KeptForOwner ==
    \A c \in Calls :
        (InStep(c) /\ wfRow # NoRow
            /\ \A l \in wfCall[c].lease .. granted : l < granted => l \notin lapsed \union ended)
            => wfRow.owner = Owner[c]

(* Only a Start that inserted its row has started set.                     *)
ClaimIsReclaim == \A c \in Calls : CallAt(c, "claim") => ~wfCall[c].started

WfInv == WfTypeOK /\ ClaimIsReclaim /\ LatestLease /\ LeaseOfCall /\ KeptForOwner /\ OneAtWork

(* No row, no call and no lease at the start.                              *)
LEMMA WfInvInit == WfInit => WfInv
BY WorkflowConstants
   DEF WfInit, WfInv, WfTypeOK, WfCall, IdleCall, Payloads, Leases, LatestLease,
       LeaseOfCall, KeptForOwner, OneAtWork, InStep, ClaimIsReclaim, CallAt

(* What the statements write into the row keeps its type.                  *)
LEMMA WfRows ==
    ASSUME NEW r \in WfRow, NEW c \in Calls, NEW l \in Leases
    PROVE  /\ [r EXCEPT !.state = "completed", !.payload = "result"] \in WfRow
           /\ [r EXCEPT !.payload = "signal"] \in WfRow
           /\ [r EXCEPT !.owner = Owner[c], !.lease = l] \in WfRow
           /\ [state |-> "running", payload |-> "input", owner |-> Owner[c], lease |-> l]
                 \in WfRow
           /\ r.lease \in Leases /\ r.payload \in Payloads
           /\ [r EXCEPT !.state = "completed", !.payload = "result"].owner = r.owner
           /\ [r EXCEPT !.state = "completed", !.payload = "result"].lease = r.lease
           /\ [r EXCEPT !.payload = "signal"].owner = r.owner
           /\ [r EXCEPT !.payload = "signal"].lease = r.lease
BY Zenon DEF WfRow, Payloads

(* What calls remember keeps its type.                                     *)
LEMMA WfCallRecords ==
    ASSUME NEW k \in WfCall, NEW l \in Leases, NEW p \in Payloads,
           NEW at \in {"idle", "insert", "execute", "failed", "complete", "signal",
                       "cancel", "claim"}
    PROVE  /\ IdleCall \in WfCall
           /\ [k EXCEPT !.pc = at] \in WfCall
           /\ [k EXCEPT !.pc = at, !.lease = l] \in WfCall
           /\ [IdleCall EXCEPT !.pc = at] \in WfCall
           /\ [IdleCall EXCEPT !.pc = at, !.lease = l, !.started = TRUE] \in WfCall
           /\ [IdleCall EXCEPT !.pc = at, !.lease = l, !.input = p] \in WfCall
<1>1. 0 \in Leases /\ "input" \in Payloads
  BY WorkflowConstants DEF Leases, Payloads
<1> QED
  BY <1>1, Zenon DEF WfCall, IdleCall

(* The statements keep the types.                                          *)
LEMMA WfTypeStep == WfTypeOK /\ [WfNext]_wfVars => WfTypeOK'
<1> SUFFICES ASSUME WfTypeOK, [WfNext]_wfVars PROVE WfTypeOK'
  OBVIOUS
<1> USE DEF WfTypeOK, CallGoto, CallAt
<1>0. 0 \in Leases /\ "input" \in Payloads /\ (granted < MaxLeases => granted + 1 \in Leases)
  BY WorkflowConstants DEF Leases, Payloads
<1>1. ASSUME NEW c \in Calls, Probe(c) PROVE WfTypeOK'
  <2>1. \A what \in {"insert", "signal", "cancel"} : [IdleCall EXCEPT !.pc = what] \in WfCall
    BY <1>0, WfCallRecords
  <2> QED BY <1>1, <2>1 DEF Probe
<1>2. ASSUME NEW c \in Calls, InsertRun(c) PROVE WfTypeOK'
  <2>1. CASE wfRow # NoRow
    BY <1>2, <2>1, <1>0, WfCallRecords DEF InsertRun
  <2>2. CASE wfRow = NoRow
    <3>1. granted' = granted + 1 /\ granted + 1 \in Leases
      BY <1>0, <1>2, <2>2 DEF InsertRun, NewLease
    <3>2. wfRow' \in WfRow
      <4>1. [state |-> "running", payload |-> "input", owner |-> Owner[c],
             lease |-> granted + 1] \in WfRow
        BY <3>1, Zenon DEF WfRow, Payloads
      <4> QED BY <1>2, <2>2, <4>1 DEF InsertRun
    <3>3. wfCall' \in [Calls -> WfCall]
      <4>1. [IdleCall EXCEPT !.pc = "execute", !.lease = granted + 1, !.started = TRUE]
               \in WfCall
        BY <1>0, <3>1, WfCallRecords
      <4> QED BY <1>2, <2>2, <4>1 DEF InsertRun
    <3> QED BY <1>2, <3>1, <3>2, <3>3 DEF InsertRun
  <2> QED BY <2>1, <2>2
<1>3. ASSUME NEW c \in Calls, StepReturns(c) PROVE WfTypeOK'
  <2>1. wfCall[c] \in WfCall
    OBVIOUS
  <2>2. /\ [wfCall[c] EXCEPT !.pc = "complete"] \in WfCall
        /\ [wfCall[c] EXCEPT !.pc = "failed"] \in WfCall
        /\ IdleCall \in WfCall
    BY <2>1, <1>0, WfCallRecords
  <2> QED BY <1>3, <2>2 DEF StepReturns
<1>4. ASSUME NEW c \in Calls, DeleteFailed(c) PROVE WfTypeOK'
  BY <1>0, <1>4, WfRows, WfCallRecords DEF DeleteFailed
<1>5. ASSUME NEW c \in Calls, Complete(c) PROVE WfTypeOK'
  BY <1>0, <1>5, WfRows, WfCallRecords DEF Complete, MayComplete, Held
<1>6. ASSUME NEW c \in Calls, SignalRun(c) PROVE WfTypeOK'
  BY <1>0, <1>6, WfRows, WfCallRecords DEF SignalRun, Running
<1>7. ASSUME NEW c \in Calls, CancelRun(c) PROVE WfTypeOK'
  BY <1>0, <1>7, WfRows, WfCallRecords DEF CancelRun, Running
<1>8. ASSUME NEW c \in Calls, ReclaimLoad(c) PROVE WfTypeOK'
  BY <1>0, <1>8, WfRows, WfCallRecords DEF ReclaimLoad, Running
<1>9. ASSUME NEW c \in Calls, ReclaimClaim(c) PROVE WfTypeOK'
  <2>1. CASE ~ClaimPasses(c)
    BY <1>0, <1>9, <2>1, WfCallRecords DEF ReclaimClaim
  <2>2. CASE ClaimPasses(c)
    <3>1. granted' = granted + 1 /\ granted + 1 \in Leases
      BY <1>0, <1>9, <2>2 DEF ReclaimClaim, NewLease
    <3>2. wfRow \in WfRow /\ wfCall[c] \in WfCall
      BY <2>2 DEF ClaimPasses
    <3>3. wfRow' \in WfRow
      <4>1. [wfRow EXCEPT !.owner = Owner[c], !.lease = granted + 1] \in WfRow
        BY <3>1, <3>2, Zenon DEF WfRow
      <4> QED BY <1>9, <2>2, <4>1 DEF ReclaimClaim
    <3>4. [wfCall[c] EXCEPT !.pc = "execute", !.lease = granted + 1] \in WfCall
      BY <1>0, <3>1, <3>2, WfCallRecords
    <3> QED BY <1>9, <2>2, <3>1, <3>3, <3>4 DEF ReclaimClaim
  <2> QED BY <2>1, <2>2
<1>10. ASSUME NEW c \in Calls, CallDies(c) PROVE WfTypeOK'
  BY <1>0, <1>10, WfCallRecords DEF CallDies
<1>11. CASE LeaseLapses
  <2>1. wfRow \in WfRow
    BY <1>11 DEF LeaseLapses
  <2>2. wfRow.lease \in Leases
    BY <2>1 DEF WfRow
  <2> QED BY <1>11, <2>2 DEF LeaseLapses
<1>12. CASE UNCHANGED wfVars
  BY <1>12 DEF wfVars
<1> QED
  BY <1>1, <1>2, <1>3, <1>4, <1>5, <1>6, <1>7, <1>8, <1>9, <1>10, <1>11, <1>12
     DEF WfNext

(* A call gets to a claim by ReclaimLoad only.                             *)
LEMMA ClaimIsReclaimStep ==
    WfTypeOK /\ ClaimIsReclaim /\ [WfNext]_wfVars => ClaimIsReclaim'
<1> SUFFICES ASSUME WfTypeOK, ClaimIsReclaim, [WfNext]_wfVars,
                    NEW b \in Calls, wfCall'[b].pc = "claim"
             PROVE  ~wfCall'[b].started
  BY DEF ClaimIsReclaim, CallAt
<1>1. ASSUME NEW c \in Calls, ReclaimLoad(c) PROVE ~wfCall'[b].started
  BY <1>1, Zenon DEF ReclaimLoad, WfTypeOK, CallGoto, IdleCall, ClaimIsReclaim, CallAt
<1>2. ASSUME NEW c \in Calls,
             \/ Probe(c) \/ InsertRun(c) \/ StepReturns(c) \/ DeleteFailed(c) \/ Complete(c)
             \/ SignalRun(c) \/ CancelRun(c) \/ ReclaimClaim(c) \/ CallDies(c)
      PROVE ~wfCall'[b].started
  <2>1. CASE Probe(c) \/ InsertRun(c) \/ DeleteFailed(c) \/ Complete(c) \/ SignalRun(c)
                \/ CancelRun(c) \/ CallDies(c)
    <3>1. /\ IdleCall.pc # "claim"
          /\ \A what \in {"insert", "signal", "cancel"} : [IdleCall EXCEPT !.pc = what].pc # "claim"
          /\ [IdleCall EXCEPT !.pc = "execute", !.lease = granted + 1, !.started = TRUE].pc
                # "claim"
      BY DEF IdleCall
    <3>2. b # c /\ wfCall'[b] = wfCall[b]
      BY <2>1, <3>1
         DEF Probe, InsertRun, DeleteFailed, Complete, SignalRun, CancelRun, CallDies,
             CallGoto, WfTypeOK
    <3> QED BY <3>2 DEF ClaimIsReclaim, CallAt
  <2>2. CASE StepReturns(c) \/ ReclaimClaim(c)
    <3>1. wfCall[c] \in WfCall /\ IdleCall.pc # "claim"
      BY DEF WfTypeOK, IdleCall
    <3>2. /\ [wfCall[c] EXCEPT !.pc = "complete"].pc # "claim"
          /\ [wfCall[c] EXCEPT !.pc = "failed"].pc # "claim"
          /\ [wfCall[c] EXCEPT !.pc = "execute", !.lease = granted + 1].pc # "claim"
      BY <3>1 DEF WfCall
    <3>3. b # c /\ wfCall'[b] = wfCall[b]
      BY <2>2, <3>1, <3>2, Zenon DEF StepReturns, ReclaimClaim, CallGoto, WfTypeOK
    <3> QED BY <3>3 DEF ClaimIsReclaim, CallAt
  <2> QED BY <1>2, <2>1, <2>2
<1>3. CASE LeaseLapses \/ UNCHANGED wfVars
  BY <1>3 DEF LeaseLapses, wfVars, ClaimIsReclaim, CallAt
<1> QED BY <1>1, <1>2, <1>3 DEF WfNext

(* A call that gets no new lease and takes nobody's row away disturbs      *)
(* nothing: leases at work are the same or fewer, the row keeps its owner  *)
(* and its lease or is ended.                                              *)
LEMMA WfQuietStep ==
    ASSUME WfInv, WfTypeOK', ClaimIsReclaim',
           granted' = granted, lapsed \subseteq lapsed', ended \subseteq ended',
           \A c \in Calls : InStep(c)' =>
               /\ InStep(c)
               /\ wfCall'[c].lease = wfCall[c].lease
               /\ wfCall'[c].started = wfCall[c].started,
           \/ wfRow' = NoRow /\ (wfRow # NoRow => wfRow.lease \in ended')
           \/ /\ wfRow # NoRow /\ wfRow' # NoRow
              /\ wfRow'.lease = wfRow.lease
              /\ wfRow'.owner = wfRow.owner
    PROVE  WfInv'
<1>1. LatestLease'
  BY DEF WfInv, LatestLease
<1>2. LeaseOfCall'
  BY DEF WfInv, LeaseOfCall
<1>3. KeptForOwner'
  BY DEF WfInv, KeptForOwner
<1>4. OneAtWork'
  <2> SUFFICES ASSUME NEW c \in Calls, NEW d \in Calls, InStep(c)', InStep(d)',
                      wfCall'[c].lease < wfCall'[d].lease
               PROVE  LET between == wfCall'[c].lease .. (wfCall'[d].lease - 1) IN
                      /\ Owner[c] # Owner[d] => between \intersect (lapsed' \union ended') # {}
                      /\ (wfCall'[c].started /\ wfCall'[d].started) =>
                             between \intersect ended' # {}
    BY DEF OneAtWork
  <2> QED BY DEF WfInv, OneAtWork
<1> QED BY <1>1, <1>2, <1>3, <1>4 DEF WfInv

(* A call gets the next lease and the row: every call at work with an      *)
(* older lease had a reason to lose it.                                    *)
LEMMA WfGrantStep ==
    ASSUME WfInv, WfTypeOK', ClaimIsReclaim', NEW d \in Calls, NEW next,
           NewLease, lapsed' = lapsed, ended' = ended,
           wfCall' = [wfCall EXCEPT ![d] = next],
           next.lease = granted + 1, next.pc = "execute",
           wfRow' # NoRow, wfRow'.lease = granted + 1, wfRow'.owner = Owner[d],
           \/ wfRow = NoRow
           \/ /\ wfRow # NoRow /\ ~next.started
              /\ wfRow.lease \in lapsed \/ wfRow.owner = Owner[d]
    PROVE  WfInv'
<1> USE WorkflowConstants DEF WfInv, WfTypeOK, Leases
<1>0. granted \in Nat /\ granted' = granted + 1
  BY DEF NewLease
<1>1. LatestLease'
  BY <1>0 DEF LatestLease
<1>2. LeaseOfCall'
  BY <1>0 DEF LeaseOfCall, InStep
<1>3. ASSUME NEW c \in Calls, c # d, InStep(c)
      PROVE  /\ wfCall[c].lease \in 1 .. granted
             /\ wfRow = NoRow => granted \in ended
             /\ (\A l \in wfCall[c].lease .. granted : l \notin lapsed \union ended)
                    => Owner[c] = Owner[d]
  <2>1. wfCall[c].lease \in 1 .. granted
    BY <1>3 DEF LeaseOfCall
  <2>2. wfRow = NoRow => granted \in ended
    BY <2>1, <1>0 DEF LatestLease
  <2>3. granted \in wfCall[c].lease .. granted
    BY <2>1, <1>0
  <2>4. ASSUME \A l \in wfCall[c].lease .. granted : l \notin lapsed \union ended
        PROVE  Owner[c] = Owner[d]
    <3>1. wfRow # NoRow /\ wfRow.lease = granted /\ granted \notin lapsed
      BY <2>2, <2>3, <2>4 DEF LatestLease
    <3>2. wfRow.owner = Owner[c]
      BY <1>3, <2>4, <3>1 DEF KeptForOwner
    <3> QED BY <3>1, <3>2
  <2> QED BY <2>1, <2>2, <2>4
<1>4. KeptForOwner'
  <2> SUFFICES ASSUME NEW c \in Calls, InStep(c)',
                      \A l \in wfCall'[c].lease .. granted' :
                          l < granted' => l \notin lapsed \union ended
               PROVE  Owner[d] = Owner[c]
    BY DEF KeptForOwner
  <2>1. CASE c # d
    <3>1. InStep(c) /\ wfCall'[c].lease = wfCall[c].lease
      BY <2>1 DEF InStep
    <3>2. \A l \in wfCall[c].lease .. granted : l \notin lapsed \union ended
      BY <1>0, <1>3, <2>1, <3>1
    <3> QED BY <1>3, <2>1, <3>1, <3>2
  <2> QED BY <2>1
<1>5. OneAtWork'
  <2> SUFFICES ASSUME NEW c \in Calls, NEW b \in Calls, InStep(c)', InStep(b)',
                      wfCall'[c].lease < wfCall'[b].lease
               PROVE  LET between == wfCall'[c].lease .. (wfCall'[b].lease - 1) IN
                      /\ Owner[c] # Owner[b] => between \intersect (lapsed \union ended) # {}
                      /\ (wfCall'[c].started /\ wfCall'[b].started) =>
                             between \intersect ended # {}
    BY DEF OneAtWork
  <2>0. wfCall'[d] = next
    OBVIOUS
  <2>1. CASE b # d /\ c # d
    <3>1. InStep(c) /\ InStep(b) /\ wfCall'[c] = wfCall[c] /\ wfCall'[b] = wfCall[b]
      BY <2>1 DEF InStep
    <3> QED BY <3>1 DEF OneAtWork
  <2>2. CASE b # d /\ c = d
    <3>1. InStep(b) /\ wfCall'[b] = wfCall[b]
      BY <2>2 DEF InStep
    <3> QED BY <1>0, <1>3, <2>0, <2>2, <3>1
  <2>3. CASE b = d
    <3>1. c # d /\ InStep(c) /\ wfCall'[c] = wfCall[c]
      BY <2>0, <2>3, <1>0 DEF InStep
    <3>2. wfCall'[b].lease - 1 = granted
      BY <2>0, <2>3, <1>0
    <3>3. granted \in wfCall[c].lease .. granted
      BY <1>3, <3>1, <1>0
    <3> QED BY <1>3, <2>0, <2>3, <3>1, <3>2, <3>3
  <2> QED BY <2>1, <2>2, <2>3
<1> QED BY <1>1, <1>2, <1>4, <1>5

(* Every statement of a call keeps the invariant.                          *)
LEMMA WfInvStep == WfInv /\ [WfNext]_wfVars => WfInv'
<1> SUFFICES ASSUME WfInv, [WfNext]_wfVars PROVE WfInv'
  OBVIOUS
<1>0. WfTypeOK /\ WfTypeOK' /\ ClaimIsReclaim'
  BY WfTypeStep, ClaimIsReclaimStep DEF WfInv
<1> USE <1>0 DEF WfTypeOK, CallGoto, CallAt, InStep
<1>1. ASSUME NEW c \in Calls, Probe(c) PROVE WfInv'
  BY <1>1, WfQuietStep DEF Probe, IdleCall, Running
<1>2. ASSUME NEW c \in Calls, InsertRun(c) PROVE WfInv'
  <2>1. CASE wfRow = NoRow
    <3> DEFINE next == [IdleCall EXCEPT !.pc = "execute", !.lease = granted + 1,
                                        !.started = TRUE]
    <3>1. /\ NewLease /\ lapsed' = lapsed /\ ended' = ended
          /\ wfCall' = [wfCall EXCEPT ![c] = next]
          /\ next.lease = granted + 1 /\ next.pc = "execute"
          /\ wfRow'.lease = granted + 1 /\ wfRow'.owner = Owner[c]
      BY <1>2, <2>1 DEF InsertRun, IdleCall
    <3>2. wfRow' # NoRow
      <4>1. granted + 1 \in Leases
        BY <3>1 DEF NewLease
      <4>2. [state |-> "running", payload |-> "input", owner |-> Owner[c],
             lease |-> granted + 1] \in WfRow
        BY <4>1, Zenon DEF WfRow, Payloads
      <4> QED BY <1>2, <2>1, <4>2, NoRowIsNone DEF InsertRun
    <3> QED BY <2>1, <3>1, <3>2, WfGrantStep
  <2>2. CASE wfRow # NoRow
    BY <1>2, <2>2, WfQuietStep DEF InsertRun, IdleCall
  <2> QED BY <2>1, <2>2
<1>3. ASSUME NEW c \in Calls, StepReturns(c) PROVE WfInv'
  <2>1. wfCall[c] \in WfCall /\ UNCHANGED << wfRow, lapsed, granted, ended >>
    BY <1>3 DEF StepReturns
  <2>2. ASSUME NEW b \in Calls, InStep(b)'
        PROVE  /\ InStep(b) /\ wfCall'[b].lease = wfCall[b].lease
               /\ wfCall'[b].started = wfCall[b].started
    <3>1. CASE b # c
      BY <1>3, <2>2, <3>1 DEF StepReturns
    <3>2. CASE b = c
      <4>1. PICK at \in {"complete", "failed"} : wfCall' = [wfCall EXCEPT ![c].pc = at]
        BY <1>3, <2>2, <3>2 DEF StepReturns, IdleCall
      <4>2. /\ wfCall'[c].lease = wfCall[c].lease
            /\ wfCall'[c].started = wfCall[c].started
        BY <2>1, <4>1, Zenon DEF WfCall
      <4> QED BY <1>3, <3>2, <4>2 DEF StepReturns
    <3> QED BY <3>1, <3>2
  <2> QED BY <2>1, <2>2, WfQuietStep
<1>4. ASSUME NEW c \in Calls, DeleteFailed(c) PROVE WfInv'
  BY <1>4, WfQuietStep DEF DeleteFailed, IdleCall
<1>5. ASSUME NEW c \in Calls, Complete(c) PROVE WfInv'
  <2>1. \/ wfRow' = wfRow
        \/ /\ wfRow # NoRow /\ wfRow' # NoRow
           /\ wfRow'.lease = wfRow.lease /\ wfRow'.owner = wfRow.owner
    BY <1>5, WfRows, NoRowIsNone DEF Complete, MayComplete, Held
  <2> QED BY <1>5, <2>1, WfQuietStep DEF Complete, IdleCall
<1>6. ASSUME NEW c \in Calls, SignalRun(c) PROVE WfInv'
  <2>1. \/ wfRow' = wfRow
        \/ /\ wfRow # NoRow /\ wfRow' # NoRow
           /\ wfRow'.lease = wfRow.lease /\ wfRow'.owner = wfRow.owner
    BY <1>6, WfRows, NoRowIsNone DEF SignalRun, Running
  <2> QED BY <1>6, <2>1, WfQuietStep DEF SignalRun, IdleCall
<1>7. ASSUME NEW c \in Calls, CancelRun(c) PROVE WfInv'
  BY <1>7, WfQuietStep DEF CancelRun, Running, IdleCall
<1>8. ASSUME NEW c \in Calls, ReclaimLoad(c) PROVE WfInv'
  BY <1>8, WfQuietStep DEF ReclaimLoad, Running, IdleCall
<1>9. ASSUME NEW c \in Calls, ReclaimClaim(c) PROVE WfInv'
  <2>1. CASE ~ClaimPasses(c)
    BY <1>9, <2>1, WfQuietStep DEF ReclaimClaim, IdleCall
  <2>2. CASE ClaimPasses(c)
    <3> DEFINE next == [wfCall[c] EXCEPT !.pc = "execute", !.lease = granted + 1]
    <3>1. /\ NewLease /\ lapsed' = lapsed /\ ended' = ended
          /\ wfCall' = [wfCall EXCEPT ![c] = next]
          /\ wfRow' = [wfRow EXCEPT !.owner = Owner[c], !.lease = granted + 1]
          /\ wfRow \in WfRow /\ wfCall[c] \in WfCall /\ CallAt(c, "claim")
          /\ wfRow.lease \in lapsed \/ wfRow.owner = Owner[c]
      BY <1>9, <2>2 DEF ReclaimClaim, ClaimPasses, Held
    <3>2. granted + 1 \in Leases
      BY <3>1 DEF NewLease
    <3>3. wfRow' \in WfRow /\ wfRow'.lease = granted + 1 /\ wfRow'.owner = Owner[c]
      BY <3>1, <3>2, Zenon DEF WfRow
    <3>4. /\ next.lease = granted + 1 /\ next.pc = "execute"
          /\ next.started = wfCall[c].started
      BY <3>1, Zenon DEF WfCall
    <3>5. ~wfCall[c].started
      BY <3>1 DEF WfInv, ClaimIsReclaim
    <3> QED BY <2>2, <3>1, <3>3, <3>4, <3>5, WfGrantStep, NoRowIsNone DEF ClaimPasses
  <2> QED BY <2>1, <2>2
<1>10. ASSUME NEW c \in Calls, CallDies(c) PROVE WfInv'
  BY <1>10, WfQuietStep DEF CallDies, IdleCall
<1>11. CASE LeaseLapses
  BY <1>11, WfQuietStep DEF LeaseLapses
<1>12. CASE UNCHANGED wfVars
  BY <1>12, WfQuietStep DEF wfVars
<1> QED
  BY <1>1, <1>2, <1>3, <1>4, <1>5, <1>6, <1>7, <1>8, <1>9, <1>10, <1>11, <1>12
     DEF WfNext

(* The calls and the row keep their types, and leases stay within bounds.  *)
THEOREM WorkflowTypeCorrect == WfSpec => []WfTypeOK
<1>1. WfInv => WfTypeOK
  BY DEF WfInv
<1> QED
  BY WfInvInit, WfInvStep, <1>1, PTL DEF WfSpec

(* Start, Signal, Cancel and Reclaim of one run by any number of calls and *)
(* owners: two calls run the step at the same time only after a lease      *)
(* lapsed or the row was removed, and two Starts only after a removal.     *)
THEOREM OneCallAtWork == WfSpec => []OneAtWork
<1>1. WfInv => OneAtWork
  BY DEF WfInv
<1> QED
  BY WfInvInit, WfInvStep, <1>1, PTL DEF WfSpec

-----------------------------------------------------------------------------
(* The behaviours of MCServices.                                           *)

(* A step of the run is a step of one component, and stutters the others.  *)
LEMMA ServicesTakeTurns ==
    [MCNext]_<< service, vars, lockVars, wfVars, allVars, rVars >> =>
        /\ [Next]_vars
        /\ [LockNext]_lockVars
        /\ [WfNext]_wfVars
        /\ [BatchNext]_allVars
        /\ [RedisNext]_rVars
BY DEF MCNext

(* What the run explores side by side are webhook deduplication, the lock, *)
(* workflow runs, job batches and the Redis queue as their own modules     *)
(* specify them.                                                           *)
THEOREM ServicesImplement == MCSpec => Spec /\ LockSpec /\ WfSpec /\ BatchSpec /\ RedisSpec
<1>1. MCInit => Init /\ LockInit /\ WfInit /\ BatchInit /\ RedisInit
  BY DEF MCInit
<1> QED BY <1>1, ServicesTakeTurns, PTL DEF MCSpec, Spec, LockSpec, WfSpec, BatchSpec, RedisSpec

(* The state of each of the five keeps its type, with any number of        *)
(* deliveries, handles, calls, workers and consumers.                      *)
THEOREM ServicesTypeCorrect == MCSpec => []ServicesTypeOK
<1>1. TypeOK /\ LockTypeOK /\ WfTypeOK /\ BatchTypeOK /\ RedisTypeOK => ServicesTypeOK
  BY DEF ServicesTypeOK
<1> QED BY <1>1, ServicesImplement, TypeCorrect, LockTypeCorrect, WorkflowTypeCorrect,
           BatchTypeCorrect, RedisTypeCorrect, PTL

=============================================================================
