----------------------------- MODULE KeyedLock ------------------------------
(***************************************************************************)
(* The in-process keyed lock of the controller: AsyncLockManager.acquire   *)
(* (src/src/runtime/repository-lock.ts) and the withLock methods of        *)
(* TaskStore (with files) and PRRepairStore, which are the same code.      *)
(*                                                                         *)
(* The lock is a map from keys to promises.  Nothing here is atomic by     *)
(* itself: what makes it work is the order in which JavaScript runs jobs.  *)
(* A resolved promise queues a job for each caller that awaits it, in the  *)
(* order they began to; queued jobs run one after the other, and only when *)
(* none is left does the event loop deliver the next events, each of which *)
(* queues a job: a client calls, or the I/O of a locked task has ended.    *)
(***************************************************************************)
EXTENDS Naturals, Sequences

CONSTANTS
  Callers,   \* async functions that call acquire, one call at a time
  Keys,
  None,      \* no caller: the key is not in the map
  Prompt,    \* TRUE: a locked task may end without waiting for any I/O
  Burst      \* how many jobs the events of one turn queue before one runs

ASSUME NoneAssumption == None \notin Callers
ASSUME PromptAssumption == Prompt \in BOOLEAN
ASSUME BurstAssumption == Burst \in Nat \ {0}

VARIABLES
  pc,       \* what each caller is doing
  key,      \* the key of its call
  owner,    \* the entry of the lock map: whose promise is under the key
  waiters,  \* who awaits that promise, in the order they began to
  jobs,     \* the queued jobs, each one the next stretch of a caller
  posted    \* jobs queued by events since the last job ran

vars == <<pc, key, owner, waiters, jobs, posted>>

(* idle; calling: about to test the map; waiting: awaits a promise; woken: *)
(* resumed from that await; working: its task awaits I/O; settling: its    *)
(* task ends among the queued jobs; returned: its caller goes on.          *)
Pcs == {"idle", "calling", "waiting", "woken", "working", "settling", "returned"}

Within == {"working", "settling"}
Inside(c) == pc[c] \in Within
In(c, callers) == \E i \in DOMAIN callers : callers[i] = c

Trying(c) == pc[c] \in {"calling", "woken"}

Init ==
  /\ pc = [c \in Callers |-> "idle"]
  /\ key \in [Callers -> Keys]
  /\ owner = [k \in Keys |-> None]
  /\ waiters = [k \in Keys |-> <<>>]
  /\ jobs = <<>>
  /\ posted = 0

-----------------------------------------------------------------------------
(* Events: delivered when no job is left, at most Burst before one runs.   *)
Post(c) ==
  /\ Len(jobs) = posted
  /\ posted < Burst
  /\ posted' = posted + 1
  /\ jobs' = Append(jobs, c)

Call(c, k) ==
  /\ pc[c] = "idle"
  /\ Post(c)
  /\ pc' = [pc EXCEPT ![c] = "calling"]
  /\ key' = [key EXCEPT ![c] = k]
  /\ UNCHANGED <<owner, waiters>>

Settle(c) ==
  /\ pc[c] = "working"
  /\ Post(c)
  /\ pc' = [pc EXCEPT ![c] = "settling"]
  /\ UNCHANGED <<key, owner, waiters>>

-----------------------------------------------------------------------------
(* Jobs.  This one runs now, more are queued behind those there are.       *)
RunJob(c, more) ==
  /\ jobs # <<>>
  /\ c = Head(jobs)
  /\ jobs' = Tail(jobs) \o more
  /\ posted' = 0

(* Mutant: if instead of while, a resumed caller does not look again.      *)
HeldWhenCalled(c) == pc[c] = "calling" /\ owner[key[c]] # None
Held(c) == owner[key[c]] # None

(* Mutant: the last to come is the first to be served. *)
Pushed(c) == <<c>> \o waiters[key[c]]
Queued(c) == Append(waiters[key[c]], c)

Wait(c) ==
  /\ Trying(c)
  /\ Held(c)
  /\ RunJob(c, <<>>)
  /\ pc' = [pc EXCEPT ![c] = "waiting"]
  /\ waiters' = [waiters EXCEPT ![key[c]] = Queued(c)]
  /\ UNCHANGED <<key, owner>>

(* The lock is taken and the task runs up to its first await. *)
Enter(c) ==
  /\ Trying(c)
  /\ ~Held(c)
  /\ owner' = [owner EXCEPT ![key[c]] = c]
  /\ \/ /\ RunJob(c, <<>>)
        /\ pc' = [pc EXCEPT ![c] = "working"]
     \/ /\ Prompt
        /\ RunJob(c, <<c>>)
        /\ pc' = [pc EXCEPT ![c] = "settling"]
  /\ UNCHANGED <<key, waiters>>

(* A task that awaits no I/O takes any number of queued jobs. *)
Hop(c) ==
  /\ Prompt
  /\ pc[c] = "settling"
  /\ RunJob(c, <<c>>)
  /\ UNCHANGED <<pc, key, owner, waiters>>

(* Mutant: only the first of those who wait is resumed. *)
FirstWoken(k) == IF waiters[k] = <<>> THEN <<>> ELSE <<Head(waiters[k])>>
Woken(k) == waiters[k]

(* finally: the entry is deleted, its promise resolved; the caller's own   *)
(* continuation is queued behind everyone the promise resumes.             *)
Exit(c) ==
  /\ pc[c] = "settling"
  /\ RunJob(c, Append(Woken(key[c]), c))
  /\ owner' = [owner EXCEPT ![key[c]] = None]
  /\ waiters' = [waiters EXCEPT ![key[c]] = <<>>]
  /\ pc' = [d \in Callers |-> IF d = c THEN "returned"
                             ELSE IF In(d, Woken(key[c])) THEN "woken"
                             ELSE pc[d]]
  /\ UNCHANGED key

(* The caller goes on: it is done, or it calls again in the same job.      *)
Done(c) ==
  /\ pc[c] = "returned"
  /\ RunJob(c, <<>>)
  /\ pc' = [pc EXCEPT ![c] = "idle"]
  /\ UNCHANGED <<key, owner, waiters>>

CallAgain(c, k) ==
  /\ pc[c] = "returned"
  /\ jobs # <<>> /\ c = Head(jobs)
  /\ pc' = [pc EXCEPT ![c] = "calling"]
  /\ key' = [key EXCEPT ![c] = k]
  /\ UNCHANGED <<owner, waiters, jobs, posted>>

Job(c) == \/ Wait(c) \/ Enter(c) \/ Hop(c) \/ Exit(c) \/ Done(c)
          \/ \E k \in Keys : CallAgain(c, k)

Next == \E c \in Callers : (\E k \in Keys : Call(c, k)) \/ Settle(c) \/ Job(c)

(* Queued jobs run.  I/O ends: every sandbox command and every query has a *)
(* timeout, and the event loop delivers every event that is there, so one  *)
(* that is deliverable again and again is delivered (strong fairness).     *)
Fairness ==
  /\ WF_vars(\E c \in Callers : Job(c))
  /\ \A c \in Callers : SF_vars(Settle(c))

Spec == Init /\ [][Next]_vars
FairSpec == Spec /\ Fairness

-----------------------------------------------------------------------------
TypeOK ==
  /\ pc \in [Callers -> Pcs]
  /\ key \in [Callers -> Keys]
  /\ owner \in [Keys -> Callers \cup {None}]
  /\ waiters \in [Keys -> Seq(Callers)]
  /\ jobs \in Seq(Callers)
  /\ posted \in Nat

(* Two tasks under the same key never overlap, whatever the order of jobs: *)
(* a resumed caller tests the map again, and nothing runs between its test *)
(* and its entry.                                                          *)
Exclusive ==
  \A c, d \in Callers : Inside(c) /\ Inside(d) /\ key[c] = key[d] => c = d

(* Nobody awaits a promise that no one will resolve: the awaited entry is  *)
(* in the map, its owner is inside, and the caller is among its waiters.   *)
NoLostWakeup ==
  \A c \in Callers : pc[c] = "waiting" =>
    /\ owner[key[c]] \in Callers
    /\ Inside(owner[key[c]])
    /\ In(c, waiters[key[c]])

(* Where every task waits for I/O and an event queues one job, the jobs    *)
(* are those of one key: either one job, or all whom a promise resumed and *)
(* behind them the caller that resolved it.  So this is the sequence of    *)
(* the callers that are about to test the map for k.                       *)
Tries(k) ==
  IF jobs = <<>> \/ key[Head(jobs)] # k THEN <<>>
  ELSE IF Trying(jobs[Len(jobs)]) THEN jobs
  ELSE SubSeq(jobs, 1, Len(jobs) - 1)

(* There, the lock is the first-come, first-served lock of FifoLock.       *)
Fifo == INSTANCE FifoLock
          WITH line <- [k \in Keys |-> waiters[k] \o Tries(k)],
               holder <- owner
FifoSpec == Fifo!Spec

(* There, every call gets the lock. *)
EveryCallEnters == \A c \in Callers : Trying(c) ~> Inside(c)
=============================================================================
