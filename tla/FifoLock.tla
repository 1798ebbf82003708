------------------------------ MODULE FifoLock ------------------------------
(***************************************************************************)
(* What callers may expect of a keyed lock where jobs are not queued in    *)
(* bursts: per key one holder, and the callers served in the order of      *)
(* their calls.  The detailed lock is in module KeyedLock.                 *)
(***************************************************************************)
EXTENDS Sequences

CONSTANTS Callers, Keys, None

VARIABLES line,    \* per key, who has called and not yet been served
          holder   \* per key, who is inside, or None

lock == <<line, holder>>

Init == /\ line = [k \in Keys |-> <<>>]
        /\ holder = [k \in Keys |-> None]

Join(c, k) ==
  /\ \A j \in Keys : holder[j] # c /\ \A i \in DOMAIN line[j] : line[j][i] # c
  /\ line' = [line EXCEPT ![k] = Append(line[k], c)]
  /\ UNCHANGED holder

Grant(k) ==
  /\ holder[k] = None
  /\ line[k] # <<>>
  /\ holder' = [holder EXCEPT ![k] = Head(line[k])]
  /\ line' = [line EXCEPT ![k] = Tail(line[k])]

Release(k) ==
  /\ holder[k] # None
  /\ holder' = [holder EXCEPT ![k] = None]
  /\ UNCHANGED line

(* Whose turn it is leaves at once: a turn without any await. *)
Pass(k) ==
  /\ holder[k] = None
  /\ line[k] # <<>>
  /\ line' = [line EXCEPT ![k] = Tail(line[k])]
  /\ UNCHANGED holder

Next == \E k \in Keys :
          (\E c \in Callers : Join(c, k)) \/ Grant(k) \/ Pass(k) \/ Release(k)

Spec == Init /\ [][Next]_lock
=============================================================================
