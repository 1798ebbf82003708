------------------------------- MODULE Lease --------------------------------
(***************************************************************************)
(* The lease that lets one of several controllers run the hourly clean-up  *)
(* job: PostgresLeaseManager (src/src/persistence/postgres/leases.ts) on   *)
(* one row of the table leases, used by CleanupService.                    *)
(*                                                                         *)
(* acquireLease is three queries with awaits in between.  It reads the     *)
(* clock when it starts and again after the second query; all owners are   *)
(* taken to read the same clock.  A query that throws makes acquireLease   *)
(* answer false, whether or not the database has executed it.              *)
(***************************************************************************)
EXTENDS Naturals

CONSTANTS
  Owners,    \* the controllers, each a LeaseManager with its own ownerId
  NoOwner,   \* no owner: there is no row
  Ttl,       \* ttlMs of every call
  MaxTime    \* bound of the instance: where the clock stops

ASSUME OwnerAssumption == NoOwner \notin Owners
ASSUME TimeAssumption == Ttl \in Nat \ {0} /\ MaxTime \in Nat

VARIABLES
  now,      \* the clock
  row,      \* the row of the lease
  calls,    \* the acquireLease call each owner has in flight
  granted   \* until when each owner was told to hold the lease

leaseVars == <<now, row, calls, granted>>

Row == [owner : Owners \cup {NoOwner}, expires : Nat]
NoRow == [owner |-> NoOwner, expires |-> 0]

(* start: the clock at the beginning; seen: the row the SELECT returned.   *)
LeaseCall == [at : {"idle", "insert", "select", "decide", "update"},
         start : Nat, seen : Row]
Idle == [at |-> "idle", start |-> 0, seen |-> NoRow]

LeaseInit ==
  /\ now = 0
  /\ row = NoRow
  /\ calls = [o \in Owners |-> Idle]
  /\ granted = [o \in Owners |-> 0]

At(o, step) == calls[o].at = step
Goto(o, step) == calls' = [calls EXCEPT ![o].at = step]
Return(o) == calls' = [calls EXCEPT ![o] = Idle]

(* The answer true: the caller believes to hold the lease until time.      *)
Grant(o, time) == granted' = [granted EXCEPT ![o] = time]
NotGranted == UNCHANGED granted

Written(o) == [owner |-> o, expires |-> calls[o].start + Ttl]

-----------------------------------------------------------------------------
Acquire(o) ==
  /\ At(o, "idle")
  /\ calls' = [calls EXCEPT ![o] = [Idle EXCEPT !.at = "insert", !.start = now]]
  /\ UNCHANGED <<now, row>> /\ NotGranted

(* INSERT ... ON CONFLICT DO NOTHING *)
Inserted(o) == IF row = NoRow THEN Written(o) ELSE row

Insert(o) ==
  /\ At(o, "insert")
  /\ row' = Inserted(o)
  /\ Goto(o, "select")
  /\ UNCHANGED now /\ NotGranted

(* isLeaseActive: the row is read, then the clock.  Its own failure counts *)
(* as a negative answer and does not end acquireLease.                     *)
Select(o) ==
  /\ At(o, "select")
  /\ \/ calls' = [calls EXCEPT ![o].at = "decide", ![o].seen = row]
     \/ Goto(o, "update")
  /\ UNCHANGED <<now, row>> /\ NotGranted

Active(o) == calls[o].seen.owner = o /\ calls[o].seen.expires > now

Decide(o) ==
  /\ At(o, "decide")
  /\ IF Active(o)
     THEN Return(o) /\ Grant(o, calls[o].seen.expires)
     ELSE Goto(o, "update") /\ NotGranted
  /\ UNCHANGED <<now, row>>

(* UPDATE ... WHERE expires_at < now OR owner_id = me, with the clock of   *)
(* the start.  Mutant: the expiry is not looked at.                        *)
ReclaimAny(o) == row # NoRow
Reclaimable(o) ==
  row # NoRow /\ (row.expires < calls[o].start \/ row.owner = o)

Update(o) ==
  /\ At(o, "update")
  /\ IF Reclaimable(o)
     THEN row' = Written(o) /\ Grant(o, Written(o).expires)
     ELSE UNCHANGED row /\ NotGranted
  /\ Return(o)
  /\ UNCHANGED now

(* The INSERT or the UPDATE throws, executed or not: the answer is false.  *)
Fail(o) ==
  /\ \/ At(o, "insert") /\ row' \in {row, Inserted(o)}
     \/ /\ At(o, "update")
        /\ row' \in {row} \cup (IF Reclaimable(o) THEN {Written(o)} ELSE {})
  /\ Return(o)
  /\ UNCHANGED now /\ NotGranted

(* releaseLease deletes the row if it is still one's own; a failure of the *)
(* DELETE is swallowed.  Mutant: it deletes whatever row there is.         *)
AnyRow(o) == TRUE
OwnRow(o) == row.owner = o

Release(o) ==
  /\ At(o, "idle")
  /\ \/ row' = IF OwnRow(o) THEN NoRow ELSE row
     \/ UNCHANGED row
  /\ Grant(o, 0)
  /\ UNCHANGED <<now, calls>>

(* The controller stops; the row stays. *)
Crash(o) ==
  /\ Return(o)
  /\ Grant(o, 0)
  /\ UNCHANGED <<now, row>>

Tick ==
  /\ now < MaxTime
  /\ now' = now + 1
  /\ UNCHANGED <<row, calls, granted>>

LeaseNext ==
  \/ \E o \in Owners : \/ Acquire(o) \/ Insert(o) \/ Select(o) \/ Decide(o)
                       \/ Update(o) \/ Fail(o) \/ Release(o) \/ Crash(o)
  \/ Tick

LeaseSpec == LeaseInit /\ [][LeaseNext]_leaseVars

-----------------------------------------------------------------------------
LeaseTypeOK ==
  /\ now \in Nat
  /\ row \in Row
  /\ calls \in [Owners -> LeaseCall]
  /\ granted \in [Owners -> Nat]

Holds(o) == granted[o] > now

(* Two controllers never both believe to hold the lease, although one may  *)
(* decide on a row it read earlier, write an expiry counted from a clock   *)
(* it read before two queries, and have the answer to a write lost.        *)
OneHolder == \A o, p \in Owners : Holds(o) /\ Holds(p) => o = p

(* What a holder believes is in the table: nobody else can take the lease  *)
(* before it expires, and its own writes never shorten it.                 *)
HolderInTable ==
  \A o \in Owners : Holds(o) => row.owner = o /\ row.expires >= granted[o]
=============================================================================
