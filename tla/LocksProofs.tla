---------------------------- MODULE LocksProofs ----------------------------
(***************************************************************************)
(* The two locks.  KeyedLock, in one process: mutual exclusion and no lost *)
(* wakeup, for any number of callers and keys, any length of burst, and    *)
(* tasks that may end at once; first come, first served, where tasks wait  *)
(* for I/O and events queue one job each.  Lease, between processes: at    *)
(* most one holder, for any number of owners and any time to live.         *)
(***************************************************************************)
EXTENDS KeyedLock, Lease, SequenceTheorems, TLAPS

-----------------------------------------------------------------------------
(* KeyedLock.                                                              *)
(* The entry under a key and the caller inside point to each other: this   *)
(* is what makes the deletion in finally delete the caller's own entry.    *)
Owned ==
  /\ \A k \in Keys : owner[k] # None => Inside(owner[k]) /\ key[owner[k]] = k
  /\ \A c \in Callers : Inside(c) => owner[key[c]] = c

(* Who is listed under a key is waiting for it. *)
Listed ==
  \A k \in Keys : \A i \in DOMAIN waiters[k] :
    pc[waiters[k][i]] = "waiting" /\ key[waiters[k][i]] = k

LockInv == TypeOK /\ Owned /\ Listed /\ NoLostWakeup

-----------------------------------------------------------------------------
(* What runs as a job is a caller, and leaves a queue of callers.          *)
LEMMA JobType ==
  ASSUME NEW c \in Callers, NEW more \in Seq(Callers), TypeOK, RunJob(c, more)
  PROVE  jobs' \in Seq(Callers) /\ posted' \in Nat
<1>1. jobs # <<>> /\ jobs \in Seq(Callers)
  BY DEF TypeOK, RunJob
<1>2. Tail(jobs) \in Seq(Callers)
  BY <1>1, HeadTailProperties
<1> QED
  BY <1>2, ConcatProperties DEF RunJob

(* Events only start a call or end a task: the lock map is not touched.    *)
LEMMA EventsKeep ==
  ASSUME LockInv, NEW c \in Callers, (\E k \in Keys : Call(c, k)) \/ Settle(c)
  PROVE  LockInv'
<1>1. CASE \E k \in Keys : Call(c, k)
  <2> PICK k \in Keys : Call(c, k)
    BY <1>1
  <2>1. TypeOK'
    BY AppendProperties DEF LockInv, TypeOK, Call, Post, Pcs
  <2>2. Owned'
    BY NoneAssumption DEF LockInv, TypeOK, Owned, Call, Inside, Within, Pcs
  <2>3. Listed'
    BY DEF LockInv, TypeOK, Listed, Call
  <2>4. NoLostWakeup'
    BY DEF LockInv, TypeOK, NoLostWakeup, In, Call, Inside, Within, Pcs
  <2> QED
    BY <2>1, <2>2, <2>3, <2>4 DEF LockInv
<1>2. CASE Settle(c)
  <2>1. TypeOK'
    BY <1>2, AppendProperties DEF LockInv, TypeOK, Settle, Post, Pcs
  <2>2. Owned'
    BY <1>2, NoneAssumption DEF LockInv, TypeOK, Owned, Settle, Inside, Within, Pcs
  <2>3. Listed'
    BY <1>2 DEF LockInv, TypeOK, Listed, Settle
  <2>4. NoLostWakeup'
    BY <1>2 DEF LockInv, TypeOK, NoLostWakeup, In, Settle, Inside, Within, Pcs
  <2> QED
    BY <2>1, <2>2, <2>3, <2>4 DEF LockInv
<1> QED
  BY <1>1, <1>2

(* A caller that finds the key held joins the waiters of its owner.        *)
LEMMA WaitKeeps ==
  ASSUME LockInv, NEW c \in Callers, Wait(c)
  PROVE  LockInv'
<1> USE DEF LockInv
<1> DEFINE k == key[c]
<1>1. k \in Keys /\ waiters[k] \in Seq(Callers) /\ owner[k] # None
  BY DEF TypeOK, Wait, Held
<1>2. /\ Queued(c) \in Seq(Callers)
      /\ Queued(c)[Len(waiters[k]) + 1] = c
      /\ Len(waiters[k]) + 1 \in DOMAIN Queued(c)
      /\ \A i \in DOMAIN waiters[k] : i \in DOMAIN Queued(c)
                                      /\ Queued(c)[i] = waiters[k][i]
  BY <1>1 DEF Queued
<1>3. TypeOK'
  <2>1. <<>> \in Seq(Callers)
    OBVIOUS
  <2>2. jobs' \in Seq(Callers) /\ posted' \in Nat
    BY <2>1, JobType DEF Wait
  <2> QED
    BY <1>1, <1>2, <2>2 DEF TypeOK, Wait, Pcs
<1>4. Owned'
  BY NoneAssumption DEF TypeOK, Owned, Wait, Trying, Inside, Within, Pcs
<1>5. Listed'
  <2> SUFFICES ASSUME NEW j \in Keys, NEW i \in DOMAIN waiters'[j]
               PROVE  pc'[waiters'[j][i]] = "waiting" /\ key'[waiters'[j][i]] = j
    BY DEF Listed
  <2>1. CASE j = k /\ i = Len(waiters[k]) + 1
    BY <2>1, <1>1, <1>2 DEF TypeOK, Wait
  <2>2. CASE ~(j = k /\ i = Len(waiters[k]) + 1)
    <3>1. i \in DOMAIN waiters[j] /\ waiters'[j][i] = waiters[j][i]
      BY <2>2, <1>1 DEF TypeOK, Wait, Queued
    <3>2. waiters[j][i] \in Callers
      BY <3>1 DEF TypeOK
    <3>3. pc[waiters[j][i]] = "waiting" /\ key[waiters[j][i]] = j
      BY <3>1 DEF Listed
    <3> QED
      BY <3>1, <3>2, <3>3 DEF TypeOK, Wait
  <2> QED
    BY <2>1, <2>2
<1>6. NoLostWakeup'
  <2> SUFFICES ASSUME NEW d \in Callers, pc'[d] = "waiting"
               PROVE  /\ owner'[key'[d]] \in Callers
                      /\ pc'[owner'[key'[d]]] \in Within
                      /\ \E i \in DOMAIN waiters'[key'[d]] :
                           waiters'[key'[d]][i] = d
    BY DEF NoLostWakeup, In, Inside
  <2>1. key'[d] \in Keys /\ key' = key /\ owner' = owner
    BY DEF TypeOK, Wait
  <2>2. owner[key[d]] # None
    BY <2>1, <1>1, NoneAssumption DEF TypeOK, Wait, NoLostWakeup, Inside, Within
  <2>3. owner[key[d]] \in Callers /\ Inside(owner[key[d]])
    BY <2>1, <2>2 DEF TypeOK, Owned
  <2>4. owner[key[d]] # c
    BY <2>3 DEF Wait, Trying, Inside, Within
  <2>5. pc'[owner'[key'[d]]] \in Within
    BY <2>1, <2>3, <2>4 DEF TypeOK, Wait, Inside, Within
  <2>6. \E i \in DOMAIN waiters'[key'[d]] : waiters'[key'[d]][i] = d
    <3>1. CASE d = c
      BY <3>1, <1>1, <1>2, <2>1 DEF TypeOK, Wait
    <3>2. CASE d # c
      <4>1. pc[d] = "waiting"
        BY <3>2 DEF TypeOK, Wait
      <4>2. PICK i \in DOMAIN waiters[key[d]] : waiters[key[d]][i] = d
        BY <4>1 DEF NoLostWakeup, In
      <4>3. CASE key[d] = k
        BY <4>2, <4>3, <1>1, <1>2, <2>1 DEF TypeOK, Wait
      <4>4. CASE key[d] # k
        BY <4>2, <4>4, <2>1 DEF TypeOK, Wait
      <4> QED
        BY <4>3, <4>4
    <3> QED
      BY <3>1, <3>2
  <2> QED
    BY <2>1, <2>3, <2>5, <2>6
<1> QED
  BY <1>3, <1>4, <1>5, <1>6

(* A caller enters only where no entry is, so nobody is inside and, by     *)
(* NoLostWakeup, In, nobody waits under that key.                              *)
LEMMA EnterKeeps ==
  ASSUME LockInv, NEW c \in Callers, Enter(c)
  PROVE  LockInv'
<1> USE DEF LockInv
<1>1. key[c] \in Keys /\ owner[key[c]] = None
  BY DEF TypeOK, Enter, Held
<1>2. pc' \in [Callers -> Pcs] /\ \A d \in Callers : d # c => pc'[d] = pc[d]
  BY DEF TypeOK, Enter, Pcs
<1>3. Inside(c)'
  BY DEF TypeOK, Enter, Inside, Within
<1>4. TypeOK'
  <2>1. <<>> \in Seq(Callers) /\ <<c>> \in Seq(Callers)
    OBVIOUS
  <2>2. jobs' \in Seq(Callers) /\ posted' \in Nat
    BY <2>1, JobType DEF Enter
  <2> QED
    BY <1>1, <1>2, <2>2 DEF TypeOK, Enter
<1>5. key' = key /\ waiters' = waiters /\ owner' = [owner EXCEPT ![key[c]] = c]
  BY DEF Enter
<1>6. Owned'
  <2>1. ASSUME NEW k \in Keys, owner'[k] # None
        PROVE  pc'[owner'[k]] \in Within /\ key'[owner'[k]] = k
    <3>1. CASE k = key[c]
      BY <3>1, <1>1, <1>3, <1>5 DEF TypeOK, Inside
    <3>2. CASE k # key[c]
      <4>1. owner'[k] = owner[k] /\ owner[k] \in Callers
        BY <3>2, <2>1, <1>5 DEF TypeOK
      <4>2. Inside(owner[k]) /\ key[owner[k]] = k
        BY <4>1, <2>1 DEF Owned
      <4>3. owner[k] # c
        BY <4>2, <3>2
      <4> QED
        BY <4>1, <4>2, <4>3, <1>2, <1>5 DEF Inside, Within
    <3> QED
      BY <3>1, <3>2
  <2>2. ASSUME NEW d \in Callers, Inside(d)'
        PROVE  owner'[key'[d]] = d
    <3>1. CASE d = c
      BY <3>1, <1>1, <1>5 DEF TypeOK
    <3>2. CASE d # c
      <4>1. Inside(d)
        BY <3>2, <2>2, <1>2 DEF Inside, Within
      <4>2. owner[key[d]] = d /\ key[d] \in Keys
        BY <4>1 DEF Owned, TypeOK
      <4>3. key[d] # key[c]
        BY <4>2, <1>1, NoneAssumption
      <4> QED
        BY <4>2, <4>3, <1>5 DEF TypeOK
    <3> QED
      BY <3>1, <3>2
  <2> QED
    BY <2>1, <2>2 DEF Owned, Inside
<1>7. Listed'
  <2> SUFFICES ASSUME NEW j \in Keys, NEW i \in DOMAIN waiters[j]
               PROVE  pc'[waiters[j][i]] = "waiting" /\ key[waiters[j][i]] = j
    BY <1>5 DEF Listed
  <2>1. pc[waiters[j][i]] = "waiting" /\ key[waiters[j][i]] = j
    BY DEF Listed
  <2>2. waiters[j][i] \in Callers /\ waiters[j][i] # c
    BY <2>1 DEF TypeOK, Enter, Trying
  <2> QED
    BY <2>1, <2>2, <1>2
<1>8. NoLostWakeup'
  <2> SUFFICES ASSUME NEW d \in Callers, pc'[d] = "waiting"
               PROVE  /\ owner'[key'[d]] \in Callers
                      /\ pc'[owner'[key'[d]]] \in Within
                      /\ \E i \in DOMAIN waiters'[key'[d]] :
                           waiters'[key'[d]][i] = d
    BY DEF NoLostWakeup, In, Inside
  <2>1. d # c
    BY <1>3 DEF Inside, Within
  <2>2. pc[d] = "waiting" /\ key[d] \in Keys
    BY <2>1, <1>2 DEF TypeOK
  <2>3. /\ owner[key[d]] \in Callers
        /\ Inside(owner[key[d]])
        /\ \E i \in DOMAIN waiters[key[d]] : waiters[key[d]][i] = d
    BY <2>2 DEF NoLostWakeup, In
  <2>4. key[d] # key[c]
    BY <2>3, <1>1, NoneAssumption
  <2>5. owner'[key'[d]] = owner[key[d]]
    BY <2>2, <2>4, <1>5 DEF TypeOK
  <2>6. owner[key[d]] # c
    BY <2>3 DEF Enter, Trying, Inside, Within
  <2>7. pc'[owner[key[d]]] \in Within
    BY <2>3, <2>6, <1>2 DEF Inside, Within
  <2> QED
    BY <2>3, <2>5, <2>7, <1>5
<1> QED
  BY <1>4, <1>6, <1>7, <1>8

(* The caller that leaves deletes its own entry and resumes all who wait   *)
(* for it: nobody is left waiting under that key.                          *)
LEMMA ExitKeeps ==
  ASSUME LockInv, NEW c \in Callers, Exit(c)
  PROVE  LockInv'
<1> USE DEF LockInv
<1> DEFINE k == key[c]
<1>1. k \in Keys /\ waiters[k] \in Seq(Callers) /\ Inside(c) /\ owner[k] = c
  BY DEF TypeOK, Exit, Inside, Within, Owned
<1>2. /\ key' = key
      /\ owner' = [owner EXCEPT ![k] = None]
      /\ waiters' = [waiters EXCEPT ![k] = <<>>]
  BY DEF Exit
<1>3. \A d \in Callers :
        pc'[d] = IF d = c THEN "returned"
                 ELSE IF In(d, waiters[k])
                 THEN "woken" ELSE pc[d]
  BY DEF Exit, Woken, In
<1>4. pc' \in [Callers -> Pcs]
  <2>1. pc' = [d \in Callers |-> pc'[d]]
    BY DEF Exit
  <2>2. \A d \in Callers : pc'[d] \in Pcs
    BY <1>3 DEF TypeOK, Pcs
  <2> QED
    BY <2>1, <2>2
<1>5. TypeOK'
  <2>1. Append(Woken(k), c) \in Seq(Callers)
    BY <1>1, AppendProperties DEF Woken
  <2>2. jobs' \in Seq(Callers) /\ posted' \in Nat
    BY <2>1, JobType DEF Exit
  <2> QED
    BY <1>2, <1>4, <2>2 DEF TypeOK
<1>6. \A d \in Callers :
        Inside(d) /\ d # c => pc'[d] = pc[d]
  <2> SUFFICES ASSUME NEW d \in Callers, Inside(d), d # c
               PROVE  pc'[d] = pc[d]
    OBVIOUS
  <2>1. ~ \E i \in DOMAIN waiters[k] : waiters[k][i] = d
    BY <1>1 DEF Listed, Inside, Within
  <2> QED
    BY <2>1, <1>3 DEF In
<1>7. Owned'
  <2>1. ASSUME NEW j \in Keys, owner'[j] # None
        PROVE  pc'[owner'[j]] \in Within /\ key'[owner'[j]] = j
    <3>1. j # k /\ owner'[j] = owner[j] /\ owner[j] \in Callers
      BY <2>1, <1>1, <1>2 DEF TypeOK
    <3>2. Inside(owner[j]) /\ key[owner[j]] = j
      BY <3>1, <2>1 DEF Owned
    <3>3. owner[j] # c
      BY <3>1, <3>2
    <3> QED
      BY <3>1, <3>2, <3>3, <1>2, <1>6 DEF Inside, Within
  <2>2. ASSUME NEW d \in Callers, Inside(d)'
        PROVE  owner'[key'[d]] = d
    <3>1. Inside(d) /\ d # c
      BY <2>2, <1>3 DEF Inside, Within
    <3>2. owner[key[d]] = d /\ key[d] \in Keys
      BY <3>1 DEF Owned, TypeOK
    <3>3. key[d] # k
      BY <3>1, <3>2, <1>1
    <3> QED
      BY <3>2, <3>3, <1>2 DEF TypeOK
  <2> QED
    BY <2>1, <2>2 DEF Owned, Inside
<1>8. Listed'
  <2> SUFFICES ASSUME NEW j \in Keys, NEW i \in DOMAIN waiters'[j]
               PROVE  pc'[waiters'[j][i]] = "waiting" /\ key[waiters'[j][i]] = j
    BY <1>2 DEF Listed
  <2>1. j # k /\ waiters'[j] = waiters[j]
    BY <1>1, <1>2 DEF TypeOK
  <2>2. pc[waiters[j][i]] = "waiting" /\ key[waiters[j][i]] = j
    BY <2>1 DEF Listed
  <2>3. waiters[j][i] \in Callers /\ waiters[j][i] # c
    BY <2>1, <2>2, <1>1 DEF TypeOK, Inside, Within
  <2>4. ~ \E n \in DOMAIN waiters[k] : waiters[k][n] = waiters[j][i]
    BY <2>1, <2>2, <1>1 DEF Listed
  <2> QED
    BY <2>1, <2>2, <2>3, <2>4, <1>3 DEF In
<1>9. NoLostWakeup'
  <2> SUFFICES ASSUME NEW d \in Callers, pc'[d] = "waiting"
               PROVE  /\ owner'[key'[d]] \in Callers
                      /\ pc'[owner'[key'[d]]] \in Within
                      /\ \E i \in DOMAIN waiters'[key'[d]] :
                           waiters'[key'[d]][i] = d
    BY DEF NoLostWakeup, In, Inside
  <2>1. /\ d # c /\ pc[d] = "waiting" /\ key[d] \in Keys
        /\ ~ \E i \in DOMAIN waiters[k] : waiters[k][i] = d
    BY <1>3 DEF TypeOK, In
  <2>2. /\ owner[key[d]] \in Callers
        /\ Inside(owner[key[d]])
        /\ \E i \in DOMAIN waiters[key[d]] : waiters[key[d]][i] = d
    BY <2>1 DEF NoLostWakeup, In
  <2>3. key[d] # k
    BY <2>1, <2>2
  <2>4. owner'[key'[d]] = owner[key[d]] /\ waiters'[key'[d]] = waiters[key[d]]
    BY <2>1, <2>3, <1>2 DEF TypeOK
  <2>5. owner[key[d]] # c
    <3>1. key[owner[key[d]]] = key[d]
      BY <2>1, <2>2, NoneAssumption DEF Owned
    <3> QED
      BY <3>1, <2>3
  <2>6. pc'[owner[key[d]]] \in Within
    BY <2>2, <2>5, <1>6 DEF Inside, Within
  <2> QED
    BY <2>2, <2>4, <2>6
<1> QED
  BY <1>5, <1>7, <1>8, <1>9

(* The remaining jobs leave the lock map and the waiters alone.            *)
LEMMA OtherJobsKeep ==
  ASSUME LockInv, NEW c \in Callers,
         Hop(c) \/ Done(c) \/ \E k \in Keys : CallAgain(c, k)
  PROVE  LockInv'
<1> USE DEF LockInv
<1>1. CASE Hop(c)
  <2>1. <<c>> \in Seq(Callers)
    OBVIOUS
  <2>2. jobs' \in Seq(Callers) /\ posted' \in Nat
    BY <1>1, <2>1, JobType DEF Hop
  <2> QED
    BY <1>1, <2>2 DEF TypeOK, Owned, Listed, NoLostWakeup, Inside, Within, Hop
<1>2. CASE Done(c)
  <2>1. <<>> \in Seq(Callers)
    OBVIOUS
  <2>2. jobs' \in Seq(Callers) /\ posted' \in Nat
    BY <1>2, <2>1, JobType DEF Done
  <2>3. TypeOK'
    BY <1>2, <2>2 DEF TypeOK, Done, Pcs
  <2>4. Owned'
    BY <1>2, NoneAssumption DEF TypeOK, Owned, Done, Inside, Within, Pcs
  <2>5. Listed'
    BY <1>2 DEF TypeOK, Listed, Done
  <2>6. NoLostWakeup'
    BY <1>2 DEF TypeOK, NoLostWakeup, In, Done, Inside, Within, Pcs
  <2> QED
    BY <2>3, <2>4, <2>5, <2>6
<1>3. CASE \E k \in Keys : CallAgain(c, k)
  <2> PICK k \in Keys : CallAgain(c, k)
    BY <1>3
  <2>1. TypeOK'
    BY DEF TypeOK, CallAgain, Pcs
  <2>2. Owned'
    BY NoneAssumption DEF TypeOK, Owned, CallAgain, Inside, Within, Pcs
  <2>3. Listed'
    BY DEF TypeOK, Listed, CallAgain
  <2>4. NoLostWakeup'
    BY DEF TypeOK, NoLostWakeup, In, CallAgain, Inside, Within, Pcs
  <2> QED
    BY <2>1, <2>2, <2>3, <2>4
<1> QED
  BY <1>1, <1>2, <1>3

(* LockInv is an inductive invariant of the lock. *)
THEOREM LockInvariant == Spec => []LockInv
<1>1. Init => LockInv
  BY NoneAssumption, BurstAssumption
     DEF Init, LockInv, TypeOK, Owned, Listed, NoLostWakeup, Inside, Within, Pcs
<1>2. LockInv /\ [Next]_vars => LockInv'
  <2> SUFFICES ASSUME LockInv, [Next]_vars PROVE LockInv'
    OBVIOUS
  <2>1. CASE UNCHANGED vars
    BY <2>1 DEF vars, LockInv, TypeOK, Owned, Listed, NoLostWakeup, Inside, Within
  <2>2. CASE Next
    <3> PICK c \in Callers : (\E k \in Keys : Call(c, k)) \/ Settle(c) \/ Job(c)
      BY <2>2 DEF Next
    <3> QED
      BY EventsKeep, WaitKeeps, EnterKeeps, ExitKeeps, OtherJobsKeep DEF Job
  <2> QED
    BY <2>1, <2>2
<1> QED
  BY <1>1, <1>2, PTL DEF Spec

(* No two tasks under the same key ever overlap. *)
THEOREM MutualExclusion == Spec => []Exclusive
<1>1. LockInv => Exclusive
  BY DEF LockInv, Owned, Exclusive
<1> QED
  BY <1>1, LockInvariant, PTL

(* Nobody ever waits for a promise that no one will resolve. *)
THEOREM NoWaiterForgotten == Spec => []NoLostWakeup
<1>1. LockInv => NoLostWakeup
  BY DEF LockInv
<1> QED
  BY <1>1, LockInvariant, PTL

-----------------------------------------------------------------------------
(* First come, first served, where tasks wait for I/O and an event queues  *)
(* one job.                                                                *)
OneByOne == Burst = 1 /\ ~Prompt

Distinct(s) == \A i, j \in DOMAIN s : s[i] = s[j] => i = j

(* The jobs are those of one key: the callers that one promise resumed,    *)
(* and behind them the caller that resolved it; or the job of one event.   *)
Queue(s, last) ==
  /\ s # <<>> /\ last = s[Len(s)] /\ Distinct(s)
  /\ pc[last] \in {"calling", "settling", "returned"}
  /\ Len(s) > 1 => pc[last] = "returned"
  /\ \A i \in 1..(Len(s) - 1) : pc[s[i]] = "woken" /\ key[s[i]] = key[last]

FifoInv ==
  /\ LockInv
  /\ posted \in {0, 1} /\ (posted = 1 => Len(jobs) = 1)
  /\ jobs # <<>> => Queue(jobs, jobs[Len(jobs)])
  /\ \A k \in Keys : Distinct(waiters[k])

LineOf(k) == waiters[k] \o Tries(k)
Lines == [k \in Keys |-> LineOf(k)]

-----------------------------------------------------------------------------
(* Who is about to test the map while there is no job, or one. *)
LEMMA NoJobTries ==
  ASSUME jobs = <<>>, NEW k
  PROVE  Tries(k) = <<>>
  BY DEF Tries

LEMMA OneJobTries ==
  ASSUME NEW c \in Callers, jobs = <<c>>, NEW k
  PROVE  Tries(k) = IF key[c] = k /\ Trying(c) THEN <<c>> ELSE <<>>
<1>1. Head(jobs) = c /\ Len(jobs) = 1 /\ jobs[1] = c /\ jobs # <<>>
  OBVIOUS
<1>2. SubSeq(jobs, 1, 0) = <<>>
  BY SubSeqEmpty
<1>3. 1 - 1 = 0
  OBVIOUS
<1>4. Tries(k) = IF key[c] # k THEN <<>> ELSE IF Trying(c) THEN jobs
                 ELSE SubSeq(jobs, 1, 1 - 1)
  BY <1>1 DEF Tries
<1> QED BY <1>2, <1>3, <1>4

(* Only callers that a promise resumed have a job behind them. *)
LEMMA OneJob ==
  ASSUME FifoInv, NEW c \in Callers, jobs # <<>>, c = Head(jobs), pc[c] # "woken"
  PROVE  jobs = <<c>>
<1>1. jobs \in Seq(Callers) /\ Len(jobs) \in Nat \ {0} /\ jobs[1] = c
  BY EmptySeq DEF FifoInv, LockInv, TypeOK
<1>2. Len(jobs) = 1
  <2>1. Queue(jobs, jobs[Len(jobs)])
    BY DEF FifoInv
  <2>2. CASE Len(jobs) > 1
    <3>1. 1 \in 1..(Len(jobs) - 1)
      BY <1>1, <2>2
    <3> QED BY <1>1, <2>1, <3>1 DEF Queue
  <2>3. \A n \in Nat \ {0} : n = 1 \/ n > 1
    OBVIOUS
  <2> QED BY <1>1, <2>2, <2>3
<1>3. <<c>> \in Seq(Callers) /\ Len(<<c>>) = 1 /\ <<c>>[1] = c
  OBVIOUS
<1> QED BY <1>1, <1>2, <1>3, SeqEqual

(* The first job is that of a caller which is about to test the map: it is *)
(* the first of the tries for its key, and the others stay in the queue.   *)
LEMMA HeadTries ==
  ASSUME FifoInv, NEW c \in Callers, jobs # <<>>, c = Head(jobs), Trying(c),
         jobs' = Tail(jobs), key' = key,
         \A d \in Callers \ {c} : pc'[d] = pc[d]
  PROVE  /\ Tries(key[c])' \in Seq(Callers)
         /\ Tries(key[c]) = <<c>> \o Tries(key[c])'
         /\ \A k \in Keys \ {key[c]} : Tries(k) = <<>> /\ Tries(k)' = <<>>
         /\ jobs' # <<>> => Queue(jobs, jobs[Len(jobs)])'
<1> DEFINE n == Len(jobs)
           k == key[c]
           last == jobs[n]
<1>1. jobs \in Seq(Callers) /\ n \in Nat \ {0} /\ jobs[1] = c
  BY EmptySeq DEF FifoInv, LockInv, TypeOK
<1>2. Queue(jobs, last)
  BY DEF FifoInv
<1>3. \A i \in 1..n : jobs[i] \in Callers
  BY <1>1, ElementOfSeq
<1>4. CASE n = 1
  <2>1. jobs = <<c>>
    <3>1. <<c>> \in Seq(Callers) /\ Len(<<c>>) = 1 /\ <<c>>[1] = c
      OBVIOUS
    <3> QED BY <1>1, <1>4, <3>1, SeqEqual
  <2>2. jobs' = <<>>
    BY <2>1
  <2>3. \A j \in Keys : Tries(j)' = <<>>
    BY <2>2 DEF Tries
  <2>4. k \in Keys
    BY DEF FifoInv, LockInv, TypeOK
  <2>5. \A j \in Keys : Tries(j) = IF k = j THEN <<c>> ELSE <<>>
    BY <2>1, OneJobTries
  <2>6. <<c>> \o <<>> = <<c>> /\ <<>> \in Seq(Callers)
    OBVIOUS
  <2> QED BY <2>2, <2>3, <2>4, <2>5, <2>6
<1>5. CASE n > 1
  <2>1. pc[last] = "returned" /\ last # c /\ last \in Callers /\ key[last] = k
    <3>1. 1 \in 1..(n - 1) /\ n \in 1..n
      BY <1>1, <1>5
    <3> QED BY <1>1, <1>2, <1>3, <1>5, <3>1 DEF Queue, Trying
  <2>2. /\ Tail(jobs) \in Seq(Callers) /\ Len(Tail(jobs)) = n - 1
        /\ \A i \in 1..(n - 1) : Tail(jobs)[i] = jobs[i + 1]
        /\ Tail(jobs) # <<>>
    BY <1>1, <1>5, HeadTailProperties
  <2>3. \A i \in 1..(n - 1) : jobs[i + 1] # c /\ jobs[i + 1] \in Callers
    <3> SUFFICES ASSUME NEW i \in 1..(n - 1)
                 PROVE  jobs[i + 1] # c /\ jobs[i + 1] \in Callers
      OBVIOUS
    <3>1. i + 1 \in 1..n /\ 1 \in 1..n /\ i + 1 # 1
      BY <1>1
    <3>2. DOMAIN jobs = 1..n
      BY <1>1, LenProperties
    <3> QED BY <1>1, <1>2, <1>3, <3>1, <3>2 DEF Queue, Distinct
  <2>4. Tail(jobs)[n - 1] = last
    BY <1>1, <1>5, <2>2
  <2>5. Queue(jobs, jobs[Len(jobs)])'
    <3>1. Distinct(Tail(jobs))
      <4> SUFFICES ASSUME NEW i \in 1..(n - 1), NEW j \in 1..(n - 1),
                          Tail(jobs)[i] = Tail(jobs)[j]
                   PROVE  i = j
        BY <2>2, LenProperties DEF Distinct
      <4>1. jobs[i + 1] = jobs[j + 1] /\ i + 1 \in 1..n /\ j + 1 \in 1..n
        BY <1>1, <2>2
      <4>2. i + 1 = j + 1
        BY <1>1, <1>2, <4>1, LenProperties DEF Queue, Distinct
      <4> QED BY <4>2
    <3>2. \A i \in 1..(n - 2) :
            pc'[Tail(jobs)[i]] = "woken" /\ key[Tail(jobs)[i]] = key[last]
      <4> SUFFICES ASSUME NEW i \in 1..(n - 2)
                   PROVE  /\ pc'[Tail(jobs)[i]] = "woken"
                          /\ key[Tail(jobs)[i]] = key[last]
        OBVIOUS
      <4>1. i \in 1..(n - 1) /\ i + 1 \in 1..(n - 1)
        BY <1>1
      <4> QED BY <1>2, <2>2, <2>3, <4>1 DEF Queue
    <3>3. pc'[last] = "returned"
      BY <2>1
    <3>4. n - 1 - 1 = n - 2
      BY <1>1
    <3> QED BY <2>2, <2>4, <3>1, <3>2, <3>3, <3>4 DEF Queue
  <2>6. \A j \in Keys \ {k} : Tries(j) = <<>>
    BY DEF Tries
  <2>7. key[Head(Tail(jobs))] = k
    <3>1. 1 \in 1..(n - 1)
      BY <1>1, <1>5
    <3>2. Head(Tail(jobs)) = jobs[2]
      BY <2>2, <3>1
    <3>3. CASE n = 2
      BY <2>1, <3>2, <3>3
    <3>4. CASE n > 2
      <4>1. 2 \in 1..(n - 1)
        BY <1>1, <3>4
      <4> QED BY <1>2, <2>1, <3>2, <4>1 DEF Queue
    <3>5. \A m \in Nat : m > 1 => m = 2 \/ m > 2
      OBVIOUS
    <3> QED BY <1>1, <1>5, <3>3, <3>4, <3>5
  <2>8. \A j \in Keys \ {k} : Tries(j)' = <<>>
    BY <2>7 DEF Tries
  <2>9. Tries(k) = SubSeq(jobs, 1, n - 1)
    BY <2>1 DEF Tries, Trying
  <2>10. Tries(k)' = SubSeq(Tail(jobs), 1, n - 2)
    <3>1. ~Trying(last)'
      BY <2>1 DEF Trying
    <3>2. n - 1 - 1 = n - 2
      BY <1>1
    <3> QED BY <2>2, <2>4, <2>7, <3>1, <3>2 DEF Tries
  <2>11. SubSeq(jobs, 1, n - 1) = <<c>> \o SubSeq(jobs, 2, n - 1)
    <3>1. 1 \in 1..n /\ n - 1 \in 1..n
      BY <1>1, <1>5
    <3>2. SubSeq(jobs, 1, n - 1) = <<jobs[1]>> \o SubSeq(jobs, 1 + 1, n - 1)
      BY <1>1, <3>1, SubSeqRecursiveFirst
    <3>3. 1 + 1 = 2
      OBVIOUS
    <3> QED BY <1>1, <3>2, <3>3
  <2>12. SubSeq(Tail(jobs), 1, n - 2) = SubSeq(jobs, 2, n - 1)
    <3>1. CASE n = 2
      BY <3>1, SubSeqEmpty
    <3>2. CASE n > 2
      <4>1. Tail(jobs) = SubSeq(jobs, 2, n)
        BY <1>1, TailIsSubSeq
      <4>2. 2 \in 1..n /\ n \in 1..n /\ 1 \in 1..(n - 2 + 1) /\ n - 2 \in 1..(n - 2 + 1)
        BY <1>1, <3>2
      <4>3. SubSeq(SubSeq(jobs, 2, n), 1, n - 2) = SubSeq(jobs, 2 + 1 - 1, 2 + (n - 2) - 1)
        BY <1>1, <4>2, SubSeqOfSubSeq
      <4>4. 2 + 1 - 1 = 2 /\ 2 + (n - 2) - 1 = n - 1
        BY <1>1
      <4> QED BY <4>1, <4>3, <4>4
    <3> QED BY <1>1, <1>5, <3>1, <3>2
  <2>13. SubSeq(Tail(jobs), 1, n - 2) \in Seq(Callers)
    <3>1. \A i \in 1..(n - 2) : Tail(jobs)[i] \in Callers
      BY <1>1, <2>2, ElementOfSeq
    <3> QED BY <1>1, <3>1, SubSeqProperties
  <2> QED BY <2>5, <2>6, <2>8, <2>9, <2>10, <2>11, <2>12, <2>13
<1> QED BY <1>1, <1>4, <1>5

-----------------------------------------------------------------------------
(* What the jobs do to the lines.                                          *)

(* A queue of one. *)
LEMMA QueueOfOne ==
  ASSUME NEW c \in Callers, jobs' = <<c>>,
         pc'[c] \in {"calling", "settling", "returned"}
  PROVE  jobs' # <<>> => Queue(jobs, jobs[Len(jobs)])'
<1>1. Len(<<c>>) = 1 /\ <<c>>[1] = c /\ DOMAIN <<c>> = {1}
  OBVIOUS
<1>2. 1..(1 - 1) = {}
  OBVIOUS
<1> QED BY <1>1, <1>2 DEF Queue, Distinct

(* No event is delivered while there is a job. *)
LEMMA EventsWait ==
  ASSUME OneByOne, FifoInv, NEW c \in Callers, Post(c)
  PROVE  jobs = <<>> /\ jobs' = <<c>> /\ posted' = 1
<1>1. posted = 0 /\ Len(jobs) = 0
  BY DEF OneByOne, FifoInv, Post
<1>2. jobs = <<>>
  BY <1>1, EmptySeq DEF FifoInv, LockInv, TypeOK
<1> QED BY <1>1, <1>2 DEF Post

(* A caller that calls goes to the end of the line of its key. *)
LEMMA JoinsLine ==
  ASSUME FifoInv, NEW c \in Callers, NEW k \in Keys,
         jobs = <<>> \/ jobs = <<c>>, jobs' = <<c>>,
         pc[c] \in {"idle", "returned"}, pc'[c] = "calling", key'[c] = k,
         waiters' = waiters, owner' = owner
  PROVE  Fifo!Join(c, k)
<1>1. \A j \in Keys : Tries(j) = <<>>
  BY NoJobTries, OneJobTries DEF Trying
<1>2. \A j \in Keys : Tries(j)' = IF k = j THEN <<c>> ELSE <<>>
  <2>1. Head(jobs') = c /\ jobs' # <<>> /\ Len(jobs') = 1 /\ jobs'[1] = c
    OBVIOUS
  <2> QED BY <2>1 DEF Tries, Trying
<1>3. \A j \in Keys : waiters[j] \in Seq(Callers) /\ LineOf(j) = waiters[j]
  <2>1. \A j \in Keys : waiters[j] \in Seq(Callers)
    BY DEF FifoInv, LockInv, TypeOK
  <2>2. \A j \in Keys : waiters[j] \o <<>> = waiters[j]
    BY <2>1, ConcatEmptySeq
  <2> QED BY <1>1, <2>1, <2>2 DEF LineOf
<1>4. \A j \in Keys : LineOf(j)' = IF k = j THEN Append(LineOf(j), c) ELSE LineOf(j)
  <2> SUFFICES ASSUME NEW j \in Keys
               PROVE  LineOf(j)' = IF k = j THEN Append(LineOf(j), c) ELSE LineOf(j)
    OBVIOUS
  <2>1. CASE k = j
    BY <1>2, <1>3, <2>1, AppendIsConcat DEF LineOf
  <2>2. CASE k # j
    BY <1>2, <1>3, <2>2, ConcatEmptySeq DEF LineOf
  <2> QED BY <2>1, <2>2
<1>5. \A j \in Keys : owner[j] # c
  <2> SUFFICES ASSUME NEW j \in Keys, owner[j] = c  PROVE FALSE
    OBVIOUS
  <2>1. owner[j] # None
    BY NoneAssumption
  <2>2. Inside(owner[j])
    BY <2>1 DEF FifoInv, LockInv, Owned
  <2> QED BY <2>2 DEF Inside, Within
<1>6. \A j \in Keys : \A i \in DOMAIN LineOf(j) : LineOf(j)[i] # c
  BY <1>3 DEF FifoInv, LockInv, Listed
<1>7. Lines' = [Lines EXCEPT ![k] = Append(Lines[k], c)]
  BY <1>4 DEF Lines
<1>8. \A j \in Keys : Lines[j] = LineOf(j)
  BY DEF Lines
<1>9. \A j \in Keys : owner[j] # c /\ \A i \in DOMAIN Lines[j] : Lines[j][i] # c
  BY <1>5, <1>6, <1>8
<1> QED BY <1>7, <1>9 DEF Fifo!Join, Lines, LineOf

LEMMA CallInLine ==
  ASSUME OneByOne, FifoInv, LockInv', NEW c \in Callers, NEW k \in Keys,
         Call(c, k) \/ CallAgain(c, k)
  PROVE  FifoInv' /\ Fifo!Join(c, k)
<1>1. /\ jobs = <<>> \/ jobs = <<c>>
      /\ jobs' = <<c>> /\ posted' \in {0, 1}
      /\ pc[c] \in {"idle", "returned"} /\ pc'[c] = "calling" /\ key'[c] = k
      /\ waiters' = waiters /\ owner' = owner
  <2>1. CASE Call(c, k)
    BY <2>1, EventsWait DEF Call, FifoInv, LockInv, TypeOK
  <2>2. CASE CallAgain(c, k)
    <3>1. jobs = <<c>>
      BY <2>2, OneJob DEF CallAgain
    <3> QED BY <2>2, <3>1 DEF CallAgain, FifoInv, LockInv, TypeOK
  <2> QED BY <2>1, <2>2
<1>2. Fifo!Join(c, k)
  BY <1>1, JoinsLine
<1>3. Len(jobs') = 1
  BY <1>1
<1> QED BY <1>1, <1>2, <1>3, QueueOfOne DEF FifoInv

LEMMA SettleInLine ==
  ASSUME OneByOne, FifoInv, LockInv', NEW c \in Callers, Settle(c)
  PROVE  FifoInv' /\ Lines' = Lines /\ owner' = owner
<1>1. /\ jobs = <<>> /\ jobs' = <<c>> /\ posted' = 1 /\ pc'[c] = "settling"
      /\ key' = key /\ waiters' = waiters /\ owner' = owner
  BY EventsWait DEF Settle, FifoInv, LockInv, TypeOK
<1>2. \A j : Tries(j) = <<>>
  BY <1>1, NoJobTries
<1>3. \A j : Tries(j)' = <<>>
  <2>1. /\ Head(jobs') = c /\ jobs' # <<>> /\ Len(jobs') = 1 /\ jobs'[1] = c
        /\ 1 - 1 = 0 /\ SubSeq(jobs', 1, 0) = <<>>
    BY <1>1, SubSeqEmpty
  <2> QED BY <1>1, <2>1 DEF Tries, Trying
<1>4. Len(jobs') = 1
  BY <1>1
<1>5. Lines' = Lines
  BY <1>1, <1>2, <1>3 DEF Lines, LineOf
<1> QED BY <1>1, <1>4, <1>5, QueueOfOne DEF FifoInv

LEMMA DoneInLine ==
  ASSUME OneByOne, FifoInv, LockInv', NEW c \in Callers, Done(c)
  PROVE  FifoInv' /\ Lines' = Lines /\ owner' = owner
<1>1. jobs = <<c>> /\ pc[c] = "returned"
  BY OneJob DEF Done, RunJob
<1>2. jobs' = <<>> /\ posted' = 0 /\ waiters' = waiters /\ owner' = owner
  BY <1>1 DEF Done, RunJob
<1>3. \A j : Tries(j) = <<>> /\ Tries(j)' = <<>>
  <2>1. \A j : Tries(j) = <<>>
    BY <1>1, OneJobTries DEF Trying
  <2> QED BY <1>2, <2>1 DEF Tries
<1>4. Lines' = Lines
  BY <1>2, <1>3 DEF Lines, LineOf
<1> QED BY <1>2, <1>4 DEF FifoInv

(* Who finds the key held waits where it stood: the line is unchanged. *)
LEMMA WaitInLine ==
  ASSUME OneByOne, FifoInv, LockInv', NEW c \in Callers, Wait(c)
  PROVE  FifoInv' /\ Lines' = Lines /\ owner' = owner
<1> DEFINE k == key[c]
<1>1. /\ Trying(c) /\ jobs # <<>> /\ c = Head(jobs) /\ posted' = 0
      /\ key' = key /\ owner' = owner
      /\ waiters' = [waiters EXCEPT ![k] = Append(waiters[k], c)]
      /\ pc' = [pc EXCEPT ![c] = "waiting"]
  BY DEF Wait, RunJob, Queued
<1>2. jobs' = Tail(jobs)
  <2>1. Tail(jobs) \in Seq(Callers) /\ jobs' = Tail(jobs) \o <<>>
    BY <1>1, HeadTailProperties DEF Wait, RunJob, FifoInv, LockInv, TypeOK
  <2> QED BY <2>1, ConcatEmptySeq
<1>3. \A d \in Callers \ {c} : pc'[d] = pc[d]
  BY <1>1 DEF FifoInv, LockInv, TypeOK
<1>4. /\ Tries(k)' \in Seq(Callers)
      /\ Tries(k) = <<c>> \o Tries(k)'
      /\ \A j \in Keys \ {k} : Tries(j) = <<>> /\ Tries(j)' = <<>>
      /\ jobs' # <<>> => Queue(jobs, jobs[Len(jobs)])'
  BY <1>1, <1>2, <1>3, HeadTries
<1>5. k \in Keys /\ waiters[k] \in Seq(Callers) /\ <<c>> \in Seq(Callers)
  BY DEF FifoInv, LockInv, TypeOK
<1>6. \A j \in Keys : LineOf(j)' = LineOf(j)
  <2> SUFFICES ASSUME NEW j \in Keys  PROVE LineOf(j)' = LineOf(j)
    OBVIOUS
  <2>1. CASE j = k
    <3>1. waiters'[k] = waiters[k] \o <<c>>
      BY <1>1, <1>5, AppendIsConcat DEF FifoInv, LockInv, TypeOK
    <3>2. \A s, t \in Seq(Callers) : (s \o <<c>>) \o t = s \o (<<c>> \o t)
      <4> SUFFICES ASSUME NEW s \in Seq(Callers), NEW t \in Seq(Callers)
                   PROVE  (s \o <<c>>) \o t = s \o (<<c>> \o t)
        OBVIOUS
      <4>1. <<c>> \in Seq(Callers)
        OBVIOUS
      <4> QED BY <4>1, ConcatAssociative
    <3>3. (waiters[k] \o <<c>>) \o Tries(k)' = waiters[k] \o (<<c>> \o Tries(k)')
      BY <1>4, <1>5, <3>2
    <3> QED BY <1>1, <1>4, <2>1, <3>1, <3>3 DEF LineOf
  <2>2. CASE j # k
    BY <1>1, <1>4, <2>2 DEF LineOf, FifoInv, LockInv, TypeOK
  <2> QED BY <2>1, <2>2
<1>7. Lines' = Lines
  BY <1>6 DEF Lines
<1>8. \A j \in Keys : Distinct(waiters'[j])
  <2>1. \A i \in DOMAIN waiters[k] : waiters[k][i] # c
    BY <1>1, <1>5 DEF Trying, FifoInv, LockInv, Listed
  <2>2. Distinct(Append(waiters[k], c))
    <3>1. Distinct(waiters[k])
      BY <1>5 DEF FifoInv
    <3> QED BY <1>5, <2>1, <3>1, AppendProperties, LenProperties DEF Distinct
  <2> QED BY <1>1, <1>5, <2>2 DEF FifoInv, LockInv, TypeOK
<1> QED BY <1>1, <1>4, <1>7, <1>8 DEF FifoInv

(* Who enters was the first of its line: nobody waits where no entry is.   *)
LEMMA EnterInLine ==
  ASSUME OneByOne, FifoInv, LockInv', NEW c \in Callers, Enter(c)
  PROVE  FifoInv' /\ Fifo!Grant(key[c])
<1> DEFINE k == key[c]
<1>1. /\ Trying(c) /\ jobs # <<>> /\ c = Head(jobs) /\ posted' = 0
      /\ key' = key /\ waiters' = waiters
      /\ owner[k] = None /\ owner' = [owner EXCEPT ![k] = c]
      /\ pc' = [pc EXCEPT ![c] = "working"]
  BY DEF Enter, RunJob, Held, OneByOne
<1>2. jobs' = Tail(jobs)
  <2>1. Tail(jobs) \in Seq(Callers) /\ jobs' = Tail(jobs) \o <<>>
    BY <1>1, HeadTailProperties DEF Enter, RunJob, OneByOne, FifoInv, LockInv, TypeOK
  <2> QED BY <2>1, ConcatEmptySeq
<1>3. \A d \in Callers \ {c} : pc'[d] = pc[d]
  BY <1>1 DEF FifoInv, LockInv, TypeOK
<1>4. /\ Tries(k)' \in Seq(Callers)
      /\ Tries(k) = <<c>> \o Tries(k)'
      /\ \A j \in Keys \ {k} : Tries(j) = <<>> /\ Tries(j)' = <<>>
      /\ jobs' # <<>> => Queue(jobs, jobs[Len(jobs)])'
  BY <1>1, <1>2, <1>3, HeadTries
<1>5. k \in Keys /\ waiters[k] \in Seq(Callers)
  BY DEF FifoInv, LockInv, TypeOK
<1>6. waiters[k] = <<>>
  <2>1. ASSUME waiters[k] # <<>>  PROVE FALSE
    <3>1. 1 \in DOMAIN waiters[k] /\ waiters[k][1] \in Callers
      BY <1>5, <2>1, EmptySeq, LenProperties
    <3>2. pc[waiters[k][1]] = "waiting" /\ key[waiters[k][1]] = k
      BY <1>5, <3>1 DEF FifoInv, LockInv, Listed
    <3> QED BY <1>1, <3>1, <3>2, NoneAssumption DEF FifoInv, LockInv, NoLostWakeup
  <2> QED BY <2>1
<1>7. LineOf(k) = <<c>> \o Tries(k)' /\ LineOf(k)' = Tries(k)'
  <2>1. <<c>> \o Tries(k)' \in Seq(Callers)
    BY <1>4, ConcatProperties
  <2> QED BY <1>1, <1>4, <1>6, <2>1, ConcatEmptySeq DEF LineOf
<1>8. LineOf(k) # <<>> /\ Head(LineOf(k)) = c /\ Tail(LineOf(k)) = Tries(k)'
  <2>1. \A t \in Seq(Callers) : /\ <<c>> \o t # <<>> /\ Head(<<c>> \o t) = c
                                /\ Tail(<<c>> \o t) = t
    OBVIOUS
  <2> QED BY <1>4, <1>7, <2>1
<1>9. \A j \in Keys \ {k} : LineOf(j)' = LineOf(j)
  BY <1>1, <1>4 DEF LineOf
<1>10. /\ Lines' = [Lines EXCEPT ![k] = Tail(Lines[k])]
       /\ Lines[k] # <<>> /\ Head(Lines[k]) = c
  <2>1. \A j \in Keys : Lines[j] = LineOf(j)
    BY DEF Lines
  <2>2. Lines[k] # <<>> /\ Head(Lines[k]) = c /\ Tail(Lines[k]) = LineOf(k)'
    BY <1>5, <1>7, <1>8, <2>1
  <2>3. \A j \in Keys : LineOf(j)' = IF j = k THEN Tail(Lines[k]) ELSE Lines[j]
    BY <1>1, <1>9, <2>1, <2>2
  <2>4. Lines' = [j \in Keys |-> IF j = k THEN Tail(Lines[k]) ELSE Lines[j]]
    BY <2>3 DEF Lines
  <2>5. [Lines EXCEPT ![k] = Tail(Lines[k])]
          = [j \in Keys |-> IF j = k THEN Tail(Lines[k]) ELSE Lines[j]]
    BY <1>5 DEF Lines
  <2> QED BY <2>2, <2>4, <2>5
<1>11. Fifo!Grant(k)
  BY <1>1, <1>10 DEF Fifo!Grant, Lines, LineOf
<1> QED BY <1>1, <1>4, <1>11 DEF FifoInv

(* Who leaves resumes all who wait, in their order and before anyone else. *)
LEMMA ExitInLine ==
  ASSUME OneByOne, FifoInv, LockInv', NEW c \in Callers, Exit(c)
  PROVE  FifoInv' /\ Fifo!Release(key[c])
<1> DEFINE k == key[c]
           w == waiters[k]
<1>1. jobs = <<c>>
  BY OneJob DEF Exit, RunJob
<1>2. k \in Keys /\ w \in Seq(Callers) /\ Len(w) \in Nat /\ DOMAIN w = 1..Len(w)
  BY LenProperties DEF FifoInv, LockInv, TypeOK
<1>3. /\ key' = key /\ posted' = 0 /\ pc[c] = "settling"
      /\ owner' = [owner EXCEPT ![k] = None]
      /\ waiters' = [waiters EXCEPT ![k] = <<>>]
      /\ pc' = [d \in Callers |-> IF d = c THEN "returned"
                                  ELSE IF In(d, w) THEN "woken" ELSE pc[d]]
  BY DEF Exit, RunJob, Woken
<1>4. jobs' = Append(w, c)
  <2>1. Append(w, c) \in Seq(Callers)
    BY <1>2, AppendProperties
  <2>2. jobs' = <<>> \o Append(w, c)
    BY <1>1 DEF Exit, RunJob, Woken
  <2> QED BY <2>1, <2>2, ConcatEmptySeq
<1>5. \A i \in 1..Len(w) : /\ w[i] \in Callers /\ w[i] # c /\ key[w[i]] = k
                           /\ pc'[w[i]] = "woken"
  <2> SUFFICES ASSUME NEW i \in 1..Len(w)
               PROVE  /\ w[i] \in Callers /\ w[i] # c /\ key[w[i]] = k
                      /\ pc'[w[i]] = "woken"
    OBVIOUS
  <2>1. w[i] \in Callers /\ pc[w[i]] = "waiting" /\ key[w[i]] = k
    BY <1>2, ElementOfSeq DEF FifoInv, LockInv, Listed
  <2> QED BY <1>2, <1>3, <2>1 DEF In
<1>6. /\ Append(w, c) \in Seq(Callers) /\ Append(w, c) # <<>>
      /\ Len(Append(w, c)) = Len(w) + 1 /\ Append(w, c)[Len(w) + 1] = c
      /\ DOMAIN Append(w, c) = 1..(Len(w) + 1)
      /\ \A i \in 1..Len(w) : Append(w, c)[i] = w[i]
  BY <1>2, AppendProperties, LenProperties
<1>7. Queue(jobs, jobs[Len(jobs)])'
  <2>1. Distinct(Append(w, c))
    <3>1. Distinct(w)
      BY <1>2 DEF FifoInv
    <3> SUFFICES ASSUME NEW i \in 1..(Len(w) + 1), NEW j \in 1..(Len(w) + 1),
                        Append(w, c)[i] = Append(w, c)[j]
                 PROVE  i = j
      BY <1>6 DEF Distinct
    <3>2. CASE i \in 1..Len(w) /\ j \in 1..Len(w)
      BY <1>2, <1>6, <3>1, <3>2 DEF Distinct
    <3>3. CASE i = Len(w) + 1 \/ j = Len(w) + 1
      BY <1>2, <1>5, <1>6, <3>3
    <3> QED BY <1>2, <3>2, <3>3
  <2>2. Len(w) + 1 - 1 = Len(w)
    BY <1>2
  <2>3. pc'[c] = "returned"
    BY <1>3
  <2> QED BY <1>3, <1>4, <1>5, <1>6, <2>1, <2>2, <2>3 DEF Queue
<1>8. \A j \in Keys : Tries(j) = <<>>
  BY <1>1, <1>3, OneJobTries DEF Trying
<1>9. key[Head(Append(w, c))] = k
  BY <1>2, <1>5, <1>6, EmptySeq
<1>10. Tries(k)' = w
  <2>1. ~Trying(c)'
    BY <1>3 DEF Trying
  <2>2. SubSeq(Append(w, c), 1, Len(w)) = w
    BY <1>2, <1>6, SubSeqProperties, SeqEqual
  <2>3. Len(w) + 1 - 1 = Len(w)
    BY <1>2
  <2>4. Len(jobs') = Len(w) + 1 /\ jobs'[Len(jobs')] = c /\ jobs' # <<>>
        /\ key'[Head(jobs')] = k
    BY <1>3, <1>4, <1>6, <1>9
  <2>5. Tries(k)' = SubSeq(jobs', 1, Len(jobs') - 1)
    BY <1>3, <2>1, <2>4 DEF Tries
  <2> QED BY <1>4, <2>2, <2>3, <2>4, <2>5
<1>11. \A j \in Keys \ {k} : Tries(j)' = <<>>
  BY <1>3, <1>4, <1>9 DEF Tries
<1>12. \A j \in Keys : LineOf(j)' = LineOf(j)
  <2> SUFFICES ASSUME NEW j \in Keys  PROVE LineOf(j)' = LineOf(j)
    OBVIOUS
  <2>1. CASE j = k
    <3>1. waiters'[k] = <<>>
      BY <1>2, <1>3 DEF FifoInv, LockInv, TypeOK
    <3>2. w \o <<>> = w /\ <<>> \o w = w
      BY <1>2, ConcatEmptySeq
    <3>3. LineOf(k) = w \o <<>>
      BY <1>2, <1>8 DEF LineOf
    <3>4. LineOf(j)' = waiters'[k] \o Tries(k)'
      BY <1>3, <2>1 DEF LineOf
    <3> QED BY <1>10, <2>1, <3>1, <3>2, <3>3, <3>4
  <2>2. CASE j # k
    BY <1>3, <1>8, <1>11, <2>2 DEF LineOf, FifoInv, LockInv, TypeOK
  <2> QED BY <2>1, <2>2
<1>13. owner[k] = c
  BY <1>3 DEF FifoInv, LockInv, Owned, Inside, Within
<1>14. Lines' = Lines
  BY <1>12 DEF Lines
<1>15. Fifo!Release(k)
  BY <1>3, <1>13, <1>14, NoneAssumption DEF Fifo!Release, Lines, LineOf
<1>16. \A j \in Keys : Distinct(waiters'[j])
  BY <1>3 DEF FifoInv, LockInv, TypeOK, Distinct
<1> QED BY <1>3, <1>7, <1>15, <1>16 DEF FifoInv

LEMMA FifoStep ==
  ASSUME OneByOne, FifoInv, LockInv', [Next]_vars
  PROVE  FifoInv' /\ [Fifo!Next]_(Fifo!lock)
<1>1. Fifo!lock = <<Lines, owner>> /\ Fifo!lock' = <<Lines', owner'>>
  BY DEF Fifo!lock, Lines, LineOf
<1>2. CASE UNCHANGED vars
  <2>1. Lines' = Lines /\ owner' = owner
    BY <1>2 DEF vars, Lines, LineOf, Tries, Trying
  <2>2. FifoInv'
    BY <1>2 DEF vars, FifoInv, Queue
  <2> QED BY <1>1, <2>1, <2>2
<1>3. ASSUME Lines' = Lines, owner' = owner  PROVE [Fifo!Next]_(Fifo!lock)
  BY <1>1, <1>3
<1>4. CASE Next
  <2>1. PICK c \in Callers : (\E k \in Keys : Call(c, k)) \/ Settle(c) \/ Job(c)
    BY <1>4 DEF Next
  <2>2. key[c] \in Keys
    BY DEF FifoInv, LockInv, TypeOK
  <2>3. CASE \E k \in Keys : Call(c, k) \/ CallAgain(c, k)
    <3>1. PICK k \in Keys : Call(c, k) \/ CallAgain(c, k)
      BY <2>3
    <3>2. FifoInv' /\ Fifo!Join(c, k)
      BY <3>1, CallInLine
    <3> QED BY <3>2 DEF Fifo!Next
  <2>4. CASE Settle(c) \/ Done(c) \/ Wait(c)
    BY <1>3, <2>4, SettleInLine, DoneInLine, WaitInLine
  <2>5. CASE Enter(c)
    <3>1. FifoInv' /\ Fifo!Grant(key[c])
      BY <2>5, EnterInLine
    <3>2. \E k \in Keys : Fifo!Grant(k)
      BY <2>2, <3>1, Zenon DEF Fifo!Grant
    <3>3. Fifo!Next
      BY <3>2 DEF Fifo!Next
    <3> QED BY <3>1, <3>3
  <2>6. CASE Exit(c)
    <3>1. FifoInv' /\ Fifo!Release(key[c])
      BY <2>6, ExitInLine
    <3> QED BY <2>2, <3>1 DEF Fifo!Next
  <2>7. ~Hop(c)
    BY DEF Hop, OneByOne
  <2> QED BY <2>1, <2>3, <2>4, <2>5, <2>6, <2>7 DEF Job
<1> QED BY <1>2, <1>4

(* Where tasks wait for I/O and an event queues one job, acquire serves    *)
(* the callers of a key one at a time in the order of their calls: the     *)
(* lock implements FifoLock, for any number of callers and keys.           *)
THEOREM FirstComeFirstServed == Burst = 1 /\ ~Prompt => (Spec => FifoSpec)
<1> SUFFICES ASSUME OneByOne  PROVE Spec => FifoSpec
  BY DEF OneByOne
<1>1. Init => Fifo!Init
  <2> SUFFICES ASSUME Init  PROVE Fifo!Init
    OBVIOUS
  <2>1. \A k \in Keys : waiters[k] \o Tries(k) = <<>>
    <3>1. \A k \in Keys : Tries(k) = <<>> /\ waiters[k] = <<>>
      BY NoJobTries DEF Init
    <3>2. <<>> \o <<>> = <<>>
      OBVIOUS
    <3> QED BY <3>1, <3>2
  <2> QED BY <2>1 DEF Init, Fifo!Init
<1>2. Init /\ LockInv => FifoInv
  BY DEF Init, FifoInv, Distinct
<1>3. FifoInv /\ LockInv' /\ [Next]_vars => FifoInv' /\ [Fifo!Next]_(Fifo!lock)
  BY FifoStep
<1> QED BY <1>1, <1>2, <1>3, LockInvariant, PTL DEF Spec, FifoSpec, Fifo!Spec

-----------------------------------------------------------------------------
(* Lease.                                                                  *)
(* Clocks read in the past: a call started by now, nothing expires later   *)
(* than a ttl from now, and while a call runs what its owner was granted   *)
(* ends no later than what the call would write.                           *)
Clocks ==
  /\ row.expires <= now + Ttl
  /\ \A o \in Owners :
       /\ calls[o].start <= now
       /\ granted[o] <= now + Ttl
       /\ calls[o].at # "idle" => granted[o] <= calls[o].start + Ttl
       /\ At(o, "decide") => calls[o].seen.expires <= now + Ttl

(* The row a call has read, if it is the caller's own and not yet expired, *)
(* is still the row: nobody else may replace it before it expires.         *)
SeenStands ==
  \A o \in Owners :
    At(o, "decide") /\ calls[o].seen.owner = o /\ calls[o].seen.expires > now
      => row = calls[o].seen

LeaseInv == LeaseTypeOK /\ Clocks /\ SeenStands /\ HolderInTable

-----------------------------------------------------------------------------
(* The row becomes o's own where it was free, o's, or expired when o's     *)
(* call started, so no other owner holds the lease or has seen it active.  *)
LEMMA WriteIsSafe ==
  ASSUME LeaseInv, NEW o \in Owners, NEW step \in {"insert", "update"},
         At(o, step),
         row = NoRow \/ row.owner = o \/ row.expires < calls[o].start
  PROVE  /\ Written(o) \in Row
         /\ Written(o).owner = o
         /\ Written(o).expires = calls[o].start + Ttl
         /\ Written(o).expires <= now + Ttl
         /\ granted[o] <= Written(o).expires
         /\ \A p \in Owners \ {o} :
              /\ ~Holds(p)
              /\ ~(/\ At(p, "decide") /\ calls[p].seen.owner = p
                   /\ calls[p].seen.expires > now)
<1> USE DEF LeaseInv
<1>1. calls[o].start \in Nat /\ now \in Nat /\ Ttl \in Nat
  BY TimeAssumption DEF LeaseTypeOK, LeaseCall
<1>2. Written(o) \in Row /\ Written(o).owner = o
      /\ Written(o).expires = calls[o].start + Ttl
  BY <1>1 DEF Written, Row
<1>3. calls[o].start <= now /\ granted[o] <= calls[o].start + Ttl
  BY DEF Clocks, At
<1>4. ASSUME NEW p \in Owners \ {o}
      PROVE  ~(row.owner = p /\ row.expires > now)
  BY <1>1, <1>3, OwnerAssumption DEF NoRow, LeaseTypeOK, Row
<1>5. ASSUME NEW p \in Owners \ {o}
      PROVE  ~Holds(p)
  <2>1. granted[p] \in Nat /\ row.expires \in Nat
    BY DEF LeaseTypeOK, Row
  <2> QED
    BY <1>1, <1>4, <2>1 DEF HolderInTable, Holds
<1>6. ASSUME NEW p \in Owners \ {o}
      PROVE  ~(/\ At(p, "decide") /\ calls[p].seen.owner = p
               /\ calls[p].seen.expires > now)
  BY <1>4 DEF SeenStands
<1> QED
  BY <1>1, <1>2, <1>3, <1>5, <1>6

(* What a written row does to the invariant, whether or not the owner gets *)
(* the answer.                                                             *)
LEMMA WriteKeeps ==
  ASSUME LeaseInv, NEW o \in Owners, NEW step \in {"insert", "update"},
         At(o, step),
         row = NoRow \/ row.owner = o \/ row.expires < calls[o].start,
         row' = Written(o), now' = now,
         calls' \in [Owners -> LeaseCall],
         \A p \in Owners \ {o} : calls'[p] = calls[p],
         calls'[o].at # "decide",
         calls'[o].start \in {calls[o].start, 0},
         calls'[o].at # "idle" => calls'[o].start = calls[o].start,
         \/ granted' = granted
         \/ granted' = [granted EXCEPT ![o] = Written(o).expires]
  PROVE  LeaseInv'
<1> USE DEF LeaseInv
<1>1. /\ Written(o) \in Row
      /\ Written(o).owner = o
      /\ Written(o).expires = calls[o].start + Ttl
      /\ Written(o).expires <= now + Ttl
      /\ granted[o] <= Written(o).expires
      /\ \A p \in Owners \ {o} :
           /\ ~Holds(p)
           /\ ~(/\ At(p, "decide") /\ calls[p].seen.owner = p
                /\ calls[p].seen.expires > now)
  BY WriteIsSafe
<1>2. /\ now \in Nat /\ Ttl \in Nat /\ Written(o).expires \in Nat
      /\ \A p \in Owners : granted[p] \in Nat /\ calls[p].start \in Nat
  BY <1>1, TimeAssumption DEF LeaseTypeOK, LeaseCall, Row
<1>3. /\ granted'[o] \in {granted[o], Written(o).expires}
      /\ \A p \in Owners \ {o} : granted'[p] = granted[p]
  BY DEF LeaseTypeOK
<1>4. LeaseTypeOK'
  BY <1>1, <1>2 DEF LeaseTypeOK
<1>5. Clocks'
  BY <1>1, <1>2, <1>3 DEF Clocks, At
<1>6. SeenStands'
  BY <1>1, <1>3 DEF SeenStands, At
<1>7. HolderInTable'
  BY <1>1, <1>2, <1>3 DEF HolderInTable, Holds
<1> QED
  BY <1>4, <1>5, <1>6, <1>7

(* The missing row is typed like a row. *)
LEMMA NoRowIsRow == NoRow \in Row
  BY DEF NoRow, Row

(* A call moves on and the row stays.                                      *)
LEMMA CallKeeps ==
  ASSUME LeaseInv, NEW o \in Owners,
         Acquire(o) \/ Select(o) \/ Decide(o) \/ Crash(o)
  PROVE  LeaseInv'
<1> USE DEF LeaseInv
<1>1. now \in Nat /\ Ttl \in Nat
  BY TimeAssumption DEF LeaseTypeOK
<1>2. CASE Acquire(o)
  <2>1. /\ row' = row /\ now' = now /\ granted' = granted
        /\ calls' \in [Owners -> LeaseCall]
        /\ \A p \in Owners \ {o} : calls'[p] = calls[p]
        /\ calls'[o].at = "insert" /\ calls'[o].start = now
    BY <1>1, <1>2, NoRowIsRow DEF Acquire, NotGranted, LeaseTypeOK, LeaseCall, Idle
  <2> QED
    BY <1>1, <2>1 DEF LeaseTypeOK, Clocks, At, SeenStands, HolderInTable, Holds
<1>3. CASE Select(o)
  <2>1. PICK c \in LeaseCall :
          /\ calls' = [calls EXCEPT ![o] = c]
          /\ c.start = calls[o].start /\ calls[o].at # "idle"
          /\ c.at = "decide" => c.seen = row
    <3>1. CASE calls' = [calls EXCEPT ![o].at = "decide", ![o].seen = row]
      <4> DEFINE c == [calls[o] EXCEPT !.at = "decide", !.seen = row]
      <4>1. c \in LeaseCall /\ c.start = calls[o].start /\ c.seen = row
        BY DEF LeaseTypeOK, LeaseCall
      <4>2. calls' = [calls EXCEPT ![o] = c]
        BY <3>1 DEF LeaseTypeOK, LeaseCall
      <4> QED
        BY <1>3, <4>1, <4>2 DEF Select, At
    <3>2. CASE Goto(o, "update")
      <4> DEFINE c == [calls[o] EXCEPT !.at = "update"]
      <4>1. c \in LeaseCall /\ c.start = calls[o].start /\ c.at = "update"
        BY DEF LeaseTypeOK, LeaseCall
      <4>2. calls' = [calls EXCEPT ![o] = c]
        BY <3>2 DEF Goto, LeaseTypeOK, LeaseCall
      <4> QED
        BY <1>3, <4>1, <4>2 DEF Select, At
    <3> QED
      BY <1>3, <3>1, <3>2 DEF Select
  <2>2. row' = row /\ now' = now /\ granted' = granted
    BY <1>3 DEF Select, NotGranted
  <2>3. LeaseTypeOK'
    BY <2>1, <2>2 DEF LeaseTypeOK
  <2>4. Clocks'
    BY <2>1, <2>2 DEF Clocks, At, LeaseTypeOK
  <2>5. SeenStands'
    BY <2>1, <2>2 DEF SeenStands, At, LeaseTypeOK
  <2>6. HolderInTable'
    BY <2>2 DEF HolderInTable, Holds
  <2> QED
    BY <2>3, <2>4, <2>5, <2>6
<1>4. CASE Decide(o)
  <2>1. row' = row /\ now' = now
    BY <1>4 DEF Decide
  <2>2. CASE Active(o)
    <3>1. /\ calls' = [calls EXCEPT ![o] = Idle]
          /\ granted' = [granted EXCEPT ![o] = calls[o].seen.expires]
      BY <1>4, <2>2 DEF Decide, Return, Grant
    <3>2. row = calls[o].seen /\ row.owner = o
      BY <1>4, <2>2 DEF Decide, Active, SeenStands
    <3>3. LeaseTypeOK'
      BY <2>1, <3>1, <3>2 DEF LeaseTypeOK, LeaseCall, Row, Idle, NoRow
    <3>4. Clocks'
      BY <1>1, <2>1, <3>1, <3>2 DEF Clocks, At, Idle, LeaseTypeOK
    <3>5. SeenStands'
      BY <2>1, <3>1 DEF SeenStands, At, Idle, LeaseTypeOK
    <3>6. HolderInTable'
      BY <2>1, <3>1, <3>2 DEF HolderInTable, Holds, LeaseTypeOK, Row
    <3> QED
      BY <3>3, <3>4, <3>5, <3>6
  <2>3. CASE ~Active(o)
    <3>1. granted' = granted /\ calls' = [calls EXCEPT ![o].at = "update"]
      BY <1>4, <2>3 DEF Decide, Goto, NotGranted
    <3> QED
      BY <1>4, <2>1, <3>1
         DEF Decide, LeaseTypeOK, LeaseCall, Clocks, At, SeenStands, HolderInTable, Holds
  <2> QED
    BY <2>2, <2>3
<1>5. CASE Crash(o)
  BY <1>1, <1>5
     DEF Crash, Return, Grant, LeaseTypeOK, LeaseCall, Row, Idle, NoRow, Clocks, At,
         SeenStands, HolderInTable, Holds
<1> QED
  BY <1>2, <1>3, <1>4, <1>5

(* The three queries that write, answered or not.                          *)
LEMMA QueryKeeps ==
  ASSUME LeaseInv, NEW o \in Owners, Insert(o) \/ Update(o) \/ Fail(o)
  PROVE  LeaseInv'
<1> USE DEF LeaseInv
<1>1. /\ [calls EXCEPT ![o].at = "select"] \in [Owners -> LeaseCall]
      /\ [calls EXCEPT ![o] = Idle] \in [Owners -> LeaseCall]
  BY DEF LeaseTypeOK, LeaseCall, Idle, Row, NoRow
<1>2. ASSUME NEW step \in {"insert", "update"}, At(o, step), row' = row,
             now' = now, granted' = granted,
             \/ calls' = [calls EXCEPT ![o].at = "select"]
             \/ calls' = [calls EXCEPT ![o] = Idle]
      PROVE  LeaseInv'
  BY <1>1, <1>2 DEF LeaseTypeOK, LeaseCall, Clocks, At, Idle, SeenStands, HolderInTable, Holds
<1>3. CASE Insert(o)
  <2>1. /\ At(o, "insert") /\ calls' = [calls EXCEPT ![o].at = "select"]
        /\ now' = now /\ granted' = granted
        /\ row' = row \/ (row = NoRow /\ row' = Written(o))
    BY <1>3 DEF Insert, Inserted, Goto, NotGranted
  <2>2. CASE row' = row
    BY <2>1, <2>2, <1>2
  <2>3. CASE row = NoRow /\ row' = Written(o)
    <3>1. /\ calls' \in [Owners -> LeaseCall] /\ calls'[o].at = "select"
          /\ calls'[o].start = calls[o].start
          /\ \A p \in Owners \ {o} : calls'[p] = calls[p]
      BY <1>1, <2>1 DEF LeaseTypeOK, LeaseCall
    <3> QED
      BY <2>1, <2>3, <3>1, WriteKeeps
  <2> QED
    BY <2>1, <2>2, <2>3
<1>4. ASSUME calls' = [calls EXCEPT ![o] = Idle]
      PROVE  /\ calls' \in [Owners -> LeaseCall] /\ calls'[o].at = "idle"
             /\ calls'[o].start = 0
             /\ \A p \in Owners \ {o} : calls'[p] = calls[p]
  BY <1>1, <1>4 DEF LeaseTypeOK, Idle
<1>5. CASE Update(o)
  <2>1. At(o, "update") /\ calls' = [calls EXCEPT ![o] = Idle] /\ now' = now
    BY <1>5 DEF Update, Return
  <2>2. CASE Reclaimable(o)
    <3>1. /\ row' = Written(o)
          /\ granted' = [granted EXCEPT ![o] = Written(o).expires]
          /\ row.owner = o \/ row.expires < calls[o].start
      BY <1>5, <2>2 DEF Update, Reclaimable, Grant
    <3> QED
      BY <2>1, <3>1, <1>4, WriteKeeps
  <2>3. CASE ~Reclaimable(o)
    BY <1>5, <2>1, <2>3, <1>2 DEF Update, NotGranted
  <2> QED
    BY <2>2, <2>3
<1>6. CASE Fail(o)
  <2>1. /\ At(o, "insert") \/ At(o, "update")
        /\ calls' = [calls EXCEPT ![o] = Idle] /\ now' = now /\ granted' = granted
        /\ \/ row' = row
           \/ /\ row' = Written(o)
              /\ row = NoRow \/ row.owner = o \/ row.expires < calls[o].start
    BY <1>6 DEF Fail, Return, NotGranted, Inserted, Reclaimable
  <2>2. CASE row' = row
    BY <2>1, <2>2, <1>2
  <2>3. CASE row' # row
    BY <2>1, <2>3, <1>4, WriteKeeps
  <2> QED
    BY <2>2, <2>3
<1> QED
  BY <1>3, <1>5, <1>6

(* A release is by the owner of the row, or changes nothing.               *)
LEMMA ReleaseKeeps ==
  ASSUME LeaseInv, NEW o \in Owners, Release(o)
  PROVE  LeaseInv'
<1> USE DEF LeaseInv
<1>1. /\ At(o, "idle") /\ now' = now /\ calls' = calls
      /\ granted' = [granted EXCEPT ![o] = 0]
      /\ row' = row \/ (row.owner = o /\ row' = NoRow)
  BY DEF Release, OwnRow, Grant
<1>2. now \in Nat /\ Ttl \in Nat
  BY TimeAssumption DEF LeaseTypeOK
<1>3. LeaseTypeOK'
  BY <1>1 DEF LeaseTypeOK, Row, NoRow
<1>4. Clocks'
  BY <1>1, <1>2 DEF Clocks, At, NoRow, LeaseTypeOK, LeaseCall
<1>5. SeenStands'
  BY <1>1 DEF SeenStands, At
<1>6. HolderInTable'
  BY <1>1, <1>2 DEF HolderInTable, Holds, LeaseTypeOK
<1> QED
  BY <1>3, <1>4, <1>5, <1>6

(* Time only ends leases.                                                  *)
LEMMA TickKeeps ==
  ASSUME LeaseInv, Tick
  PROVE  LeaseInv'
<1>1. now \in Nat /\ Ttl \in Nat
  BY TimeAssumption DEF LeaseInv, LeaseTypeOK
<1> QED
  BY <1>1 DEF LeaseInv, Tick, LeaseTypeOK, LeaseCall, Row, Clocks, At, SeenStands,
              HolderInTable, Holds

(* LeaseInv is an inductive invariant.                                     *)
THEOREM LeaseInvariant == LeaseSpec => []LeaseInv
<1>1. LeaseInit => LeaseInv
  BY TimeAssumption
     DEF LeaseInit, LeaseInv, LeaseTypeOK, LeaseCall, Row, NoRow, Idle, Clocks, At, SeenStands,
         HolderInTable, Holds
<1>2. LeaseInv /\ [LeaseNext]_leaseVars => LeaseInv'
  <2> SUFFICES ASSUME LeaseInv, [LeaseNext]_leaseVars PROVE LeaseInv'
    OBVIOUS
  <2>1. CASE UNCHANGED leaseVars
    BY <2>1 DEF leaseVars, LeaseInv, LeaseTypeOK, Clocks, At, SeenStands, HolderInTable, Holds
  <2>2. CASE LeaseNext
    BY <2>2, CallKeeps, QueryKeeps, ReleaseKeeps, TickKeeps DEF LeaseNext
  <2> QED
    BY <2>1, <2>2
<1> QED
  BY <1>1, <1>2, PTL DEF LeaseSpec

(* What a holder believes is in the table.                                 *)
THEOREM HolderAlwaysInTable == LeaseSpec => []HolderInTable
<1>1. LeaseInv => HolderInTable
  BY DEF LeaseInv
<1> QED
  BY <1>1, LeaseInvariant, PTL

(* Two controllers never both believe to hold the lease.                   *)
THEOREM OneHolderAlways == LeaseSpec => []OneHolder
<1>1. HolderInTable => OneHolder
  BY DEF HolderInTable, OneHolder
<1> QED
  BY <1>1, HolderAlwaysInTable, PTL
=============================================================================
