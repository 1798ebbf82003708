-------------------------- MODULE TerminalsProofs ---------------------------
(***************************************************************************)
(* For any number of calls, terminals and bytes of output: no worker and   *)
(* no PTY is left running that nobody can end, a closed terminal is        *)
(* forgotten, and what a client reads follows on.                          *)
(***************************************************************************)
EXTENDS Terminals, FiniteSetTheorems, SequenceTheorems, TLAPS

-----------------------------------------------------------------------------
(* Who may be under way.  While startWorkspace runs, nobody has been told  *)
(* the id: its caller is alone, and no terminal was ever opened.           *)
Starting == {"start:create", "start:clone", "start:pty", "start:undo"}

Untouched == terms = {} /\ ~shut /\ pty = "none" /\ ~killing

Alone == \A c, d \in Calls : calls[c] \in Starting /\ calls[d] # "idle" => c = d

StartedAs(c) ==
  /\ calls[c] = "start:create" => state = "CREATING" /\ ~noted /\ worker = "none"
  /\ calls[c] = "start:clone" => state = "BOOTSTRAPPING" /\ noted
  /\ calls[c] = "start:pty" => state = "READY"
  /\ calls[c] = "start:undo" => state = "FAILED"
  /\ calls[c] \in Starting => Untouched

Fresh ==
  state = "none" =>
    worker = "none" /\ ~noted /\ Untouched /\ \A c \in Calls : calls[c] = "idle"

(* A worker that runs is of a workspace that is ready, or a call is under  *)
(* way that will make it so or end it; a PTY likewise.                     *)
WorkerHeld ==
  worker = "live" /\ ~ignored =>
    \/ state = "READY"
    \/ \E c \in Calls : calls[c] \in {"start:clone", "start:undo", "destroy"}

PtyHeld == pty = "live" /\ ~ignored => 1 \in terms \/ killing

PhaseOK ==
  /\ state \in States /\ noted \in BOOLEAN /\ worker \in {"none", "live", "gone"}
  /\ shut \in BOOLEAN /\ pty \in {"none", "live", "dead"} /\ killing \in BOOLEAN
  /\ ignored \in BOOLEAN /\ calls \in [Calls -> Steps]
  /\ terms \subseteq 1..MaxOpened /\ opened \in 0..MaxOpened

HeldInv ==
  /\ PhaseOK /\ Alone /\ Fresh /\ WorkerHeld /\ PtyHeld /\ ClosedIsForgotten
  /\ \A c \in Calls : StartedAs(c)

phase == <<workspace, terminals, ignored, calls>>

LEMMA PhaseUnchanged ==
  ASSUME HeldInv, UNCHANGED phase
  PROVE  HeldInv'
<1> USE DEF phase, workspace, terminals
<1>1. PhaseOK' /\ Alone' /\ Fresh'
  BY DEF HeldInv, PhaseOK, Alone, Fresh, Untouched
<1>2. WorkerHeld' /\ PtyHeld' /\ ClosedIsForgotten'
  BY DEF HeldInv, WorkerHeld, PtyHeld, ClosedIsForgotten
<1>3. \A c \in Calls : StartedAs(c)'
  BY DEF HeldInv, StartedAs, Untouched
<1> QED BY <1>1, <1>2, <1>3 DEF HeldInv

(* While the id is known nobody is starting the workspace.                 *)
LEMMA KnownThen ==
  ASSUME HeldInv, Known
  PROVE  \A c \in Calls : calls[c] \notin Starting
BY DEF HeldInv, Known, StartedAs, Starting

(* startWorkspace: the steps of its call.                                   *)
LEMMA StartKeeps ==
  ASSUME HeldInv, NEW c \in Calls, Start(c)
  PROVE  HeldInv'
<1>1. /\ calls' = [calls EXCEPT ![c] = "start:create"] /\ state' = "CREATING"
      /\ UNCHANGED <<noted, worker, terms, shut, opened, pty, killing, ignored>>
      /\ Untouched /\ worker = "none" /\ ~noted /\ \A d \in Calls : calls[d] = "idle"
  BY DEF Start, Go, terminals, HeldInv, Fresh
<1>2. PhaseOK'
  BY <1>1 DEF HeldInv, PhaseOK, States, Steps
<1>3. Alone' /\ Fresh'
  BY <1>1 DEF HeldInv, PhaseOK, Alone, Starting, Fresh, StartedAs, Untouched
<1>4. WorkerHeld'
  BY <1>1 DEF HeldInv, PhaseOK, WorkerHeld, StartedAs, Starting, Alone
<1>5. PtyHeld' /\ ClosedIsForgotten'
  BY <1>1 DEF HeldInv, PhaseOK, PtyHeld, ClosedIsForgotten, StartedAs, Untouched, Starting
<1>6. \A d \in Calls : StartedAs(d)'
  BY <1>1 DEF HeldInv, PhaseOK, StartedAs, Untouched, Starting, Alone
<1> QED BY <1>2, <1>3, <1>4, <1>5, <1>6 DEF HeldInv

LEMMA CreatedKeeps ==
  ASSUME HeldInv, NEW c \in Calls, WorkerCreated(c)
  PROVE  HeldInv'
<1>1. /\ calls' = [calls EXCEPT ![c] = "start:clone"] /\ calls[c] = "start:create"
      /\ state' = "BOOTSTRAPPING" /\ worker' = "live" /\ noted' = TRUE
      /\ UNCHANGED <<terms, shut, opened, pty, killing, ignored>>
  BY DEF WorkerCreated, Go, Note, terminals
<1>2. PhaseOK'
  BY <1>1 DEF HeldInv, PhaseOK, States, Steps
<1>3. Alone' /\ Fresh'
  BY <1>1 DEF HeldInv, PhaseOK, Alone, Starting, Fresh, StartedAs, Untouched
<1>4. WorkerHeld'
  BY <1>1 DEF HeldInv, PhaseOK, WorkerHeld, StartedAs, Starting, Alone
<1>5. PtyHeld' /\ ClosedIsForgotten'
  BY <1>1 DEF HeldInv, PhaseOK, PtyHeld, ClosedIsForgotten, StartedAs, Untouched, Starting
<1>6. \A d \in Calls : StartedAs(d)'
  BY <1>1 DEF HeldInv, PhaseOK, StartedAs, Untouched, Starting, Alone
<1> QED BY <1>2, <1>3, <1>4, <1>5, <1>6 DEF HeldInv

LEMMA ClonedKeeps ==
  ASSUME HeldInv, NEW c \in Calls, Cloned(c)
  PROVE  HeldInv'
<1>1. /\ calls[c] = "start:clone" /\ state' = "READY"
      /\ \/ calls' = [calls EXCEPT ![c] = "idle"]
         \/ calls' = [calls EXCEPT ![c] = "start:pty"]
      /\ UNCHANGED <<noted, worker, terms, shut, opened, pty, killing, ignored>>
  BY DEF Cloned, Go, terminals
<1>2. PhaseOK'
  BY <1>1 DEF HeldInv, PhaseOK, States, Steps
<1>3. Alone' /\ Fresh'
  BY <1>1 DEF HeldInv, PhaseOK, Alone, Starting, Fresh, StartedAs, Untouched
<1>4. WorkerHeld'
  BY <1>1 DEF HeldInv, PhaseOK, WorkerHeld, StartedAs, Starting, Alone
<1>5. PtyHeld' /\ ClosedIsForgotten'
  BY <1>1 DEF HeldInv, PhaseOK, PtyHeld, ClosedIsForgotten, StartedAs, Untouched, Starting
<1>6. \A d \in Calls : StartedAs(d)'
  BY <1>1 DEF HeldInv, PhaseOK, StartedAs, Untouched, Starting, Alone
<1> QED BY <1>2, <1>3, <1>4, <1>5, <1>6 DEF HeldInv

LEMMA PtyKeeps ==
  ASSUME HeldInv, NEW c \in Calls, PtyCreated(c)
  PROVE  HeldInv'
<1>1. /\ calls[c] = "start:pty" /\ calls' = [calls EXCEPT ![c] = "idle"]
      /\ terms' = terms \cup {1} /\ 1 \in 1..MaxOpened /\ opened' \in 0..MaxOpened
      /\ pty' \in {"live", "none"}
      /\ UNCHANGED <<state, noted, worker, shut, killing, ignored>>
  BY BoundAssumption DEF PtyCreated, Go, workspace
<1>2. PhaseOK'
  BY <1>1 DEF HeldInv, PhaseOK, States, Steps
<1>3. Alone' /\ Fresh'
  BY <1>1 DEF HeldInv, PhaseOK, Alone, Starting, Fresh, StartedAs, Untouched
<1>4. WorkerHeld'
  BY <1>1 DEF HeldInv, PhaseOK, WorkerHeld, StartedAs, Starting, Alone
<1>5. PtyHeld' /\ ClosedIsForgotten'
  BY <1>1 DEF HeldInv, PhaseOK, PtyHeld, ClosedIsForgotten, StartedAs, Untouched, Starting
<1>6. \A d \in Calls : StartedAs(d)'
  BY <1>1 DEF HeldInv, PhaseOK, StartedAs, Untouched, Starting, Alone
<1> QED BY <1>2, <1>3, <1>4, <1>5, <1>6 DEF HeldInv

LEMMA FailsKeeps ==
  ASSUME HeldInv, NEW c \in Calls, StartFails(c)
  PROVE  HeldInv'
<1>1. /\ calls[c] \in {"start:create", "start:clone"} /\ state' = "FAILED" /\ Untouched
      /\ \/ noted /\ calls' = [calls EXCEPT ![c] = "start:undo"] /\ UNCHANGED <<terms, shut, killing>>
         \/ /\ ~noted /\ calls' = [calls EXCEPT ![c] = "idle"]
            /\ terms' = {} /\ shut' = shut /\ killing' = killing
      /\ UNCHANGED <<noted, worker, opened, pty, ignored>>
  BY DEF StartFails, CloseAll, HeldInv, StartedAs, Starting, Untouched, PhaseOK
<1>2. PhaseOK'
  BY <1>1 DEF HeldInv, PhaseOK, States, Steps
<1>3. Alone' /\ Fresh'
  BY <1>1 DEF HeldInv, PhaseOK, Alone, Starting, Fresh, StartedAs, Untouched
<1>4. WorkerHeld'
  BY <1>1 DEF HeldInv, PhaseOK, WorkerHeld, StartedAs, Starting, Alone
<1>5. PtyHeld' /\ ClosedIsForgotten'
  BY <1>1 DEF HeldInv, PhaseOK, PtyHeld, ClosedIsForgotten, StartedAs, Untouched, Starting
<1>6. \A d \in Calls : StartedAs(d)'
  BY <1>1 DEF HeldInv, PhaseOK, StartedAs, Untouched, Starting, Alone
<1> QED BY <1>2, <1>3, <1>4, <1>5, <1>6 DEF HeldInv

LEMMA UndoneKeeps ==
  ASSUME HeldInv, NEW c \in Calls, RolledBack(c)
  PROVE  HeldInv'
<1>1. /\ calls[c] = "start:undo" /\ calls' = [calls EXCEPT ![c] = "idle"]
      /\ state = "FAILED" /\ Untouched
      /\ \/ worker' = "gone" /\ ignored' = ignored
         \/ ignored' = TRUE /\ worker' = worker
      /\ UNCHANGED <<state, noted, opened, terms, shut, killing, pty>>
  BY DEF RolledBack, Go, DestroySession, CloseAll, HeldInv, StartedAs, Starting, Untouched, PhaseOK
<1>2. PhaseOK'
  BY <1>1 DEF HeldInv, PhaseOK, States, Steps
<1>3. Alone' /\ Fresh'
  BY <1>1 DEF HeldInv, PhaseOK, Alone, Starting, Fresh, StartedAs, Untouched
<1>4. WorkerHeld'
  BY <1>1 DEF HeldInv, PhaseOK, WorkerHeld, StartedAs, Starting, Alone
<1>5. PtyHeld' /\ ClosedIsForgotten'
  BY <1>1 DEF HeldInv, PhaseOK, PtyHeld, ClosedIsForgotten, StartedAs, Untouched, Starting
<1>6. \A d \in Calls : StartedAs(d)'
  BY <1>1 DEF HeldInv, PhaseOK, StartedAs, Untouched, Starting, Alone
<1> QED BY <1>2, <1>3, <1>4, <1>5, <1>6 DEF HeldInv

(* destroyWorkspace: whoever waits for destroySession will end the worker.  *)
LEMMA DestroyKeeps ==
  ASSUME HeldInv, NEW c \in Calls, Destroy(c)
  PROVE  HeldInv'
<1>1. /\ calls[c] = "idle" /\ calls' = [calls EXCEPT ![c] = "destroy"]
      /\ state' = "DESTROYING" /\ \A d \in Calls : calls[d] \notin Starting
      /\ terms' = {} /\ killing' = (killing \/ (1 \in terms /\ pty = "live"))
      /\ shut' = (shut \/ 1 \in terms)
      /\ UNCHANGED <<noted, worker, opened, pty, ignored>>
  BY KnownThen DEF Destroy, Go, CloseAll
<1>2. PhaseOK'
  BY <1>1 DEF HeldInv, PhaseOK, States, Steps
<1>3. Alone' /\ Fresh'
  BY <1>1 DEF HeldInv, PhaseOK, Alone, Starting, Fresh, StartedAs, Untouched
<1>4. WorkerHeld'
  BY <1>1 DEF HeldInv, PhaseOK, WorkerHeld, StartedAs, Starting, Alone
<1>5. PtyHeld' /\ ClosedIsForgotten'
  BY <1>1 DEF HeldInv, PhaseOK, PtyHeld, ClosedIsForgotten, StartedAs, Untouched, Starting
<1>6. \A d \in Calls : StartedAs(d)'
  BY <1>1 DEF HeldInv, PhaseOK, StartedAs, Untouched, Starting, Alone
<1> QED BY <1>2, <1>3, <1>4, <1>5, <1>6 DEF HeldInv

LEMMA DestroyedKeeps ==
  ASSUME HeldInv, NEW c \in Calls, Destroyed(c)
  PROVE  HeldInv'
<1>1. /\ calls[c] = "destroy" /\ calls' = [calls EXCEPT ![c] = "idle"]
      /\ state' = "DESTROYED" /\ \A d \in Calls : calls[d] \notin Starting
      /\ \/ /\ worker' = "gone" /\ ignored' = ignored
            /\ pty' = IF pty = "live" THEN "dead" ELSE pty
         \/ ignored' = TRUE /\ UNCHANGED <<worker, pty>>
      /\ UNCHANGED <<noted, terms, shut, opened, killing>>
  BY DEF Destroyed, Go, DestroySession, HeldInv, Alone, PhaseOK, Starting
<1>2. PhaseOK'
  BY <1>1 DEF HeldInv, PhaseOK, States, Steps
<1>3. Alone' /\ Fresh'
  BY <1>1 DEF HeldInv, PhaseOK, Alone, Starting, Fresh, StartedAs, Untouched
<1>4. WorkerHeld'
  BY <1>1 DEF HeldInv, PhaseOK, WorkerHeld, StartedAs, Starting, Alone
<1>5. PtyHeld' /\ ClosedIsForgotten'
  BY <1>1 DEF HeldInv, PhaseOK, PtyHeld, ClosedIsForgotten, StartedAs, Untouched, Starting
<1>6. \A d \in Calls : StartedAs(d)'
  BY <1>1 DEF HeldInv, PhaseOK, StartedAs, Untouched, Starting, Alone
<1> QED BY <1>2, <1>3, <1>4, <1>5, <1>6 DEF HeldInv

(* terminal_close.                                                         *)
LEMMA CloseKeeps ==
  ASSUME HeldInv, NEW c \in Calls, NEW t, CloseTerminal(c, t)
  PROVE  HeldInv'
<1>1. /\ state # "none" /\ \A d \in Calls : calls[d] \notin Starting
      /\ \/ /\ calls[c] = "idle" /\ calls' = [calls EXCEPT ![c] = "close"]
            /\ shut' = TRUE /\ UNCHANGED terms
         \/ /\ t # 1 \/ pty = "none"
            /\ terms' = terms \ {t} /\ UNCHANGED <<shut, calls>>
      /\ UNCHANGED <<state, noted, worker, opened, pty, killing, ignored>>
  BY KnownThen DEF CloseTerminal, Known, Go, workspace
<1>2. PhaseOK'
  BY <1>1 DEF HeldInv, PhaseOK, States, Steps
<1>3. Alone' /\ Fresh'
  BY <1>1 DEF HeldInv, PhaseOK, Alone, Starting, Fresh, StartedAs, Untouched
<1>4. WorkerHeld'
  BY <1>1 DEF HeldInv, PhaseOK, WorkerHeld, StartedAs, Starting, Alone
<1>5. PtyHeld' /\ ClosedIsForgotten'
  BY <1>1 DEF HeldInv, PhaseOK, PtyHeld, ClosedIsForgotten, StartedAs, Untouched, Starting
<1>6. \A d \in Calls : StartedAs(d)'
  BY <1>1 DEF HeldInv, PhaseOK, StartedAs, Untouched, Starting, Alone
<1> QED BY <1>2, <1>3, <1>4, <1>5, <1>6 DEF HeldInv

LEMMA CloseDone ==
  ASSUME HeldInv, NEW c \in Calls, TerminalClosed(c)
  PROVE  HeldInv'
<1>1. /\ calls[c] = "close" /\ calls' = [calls EXCEPT ![c] = "idle"]
      /\ terms' = terms \ {1} /\ \A d \in Calls : calls[d] \notin Starting
      /\ \/ pty' = "dead" /\ UNCHANGED ignored
         \/ ignored' = TRUE /\ UNCHANGED pty
      /\ UNCHANGED <<state, noted, worker, shut, opened, killing>>
  BY DEF TerminalClosed, Go, DropTerminal, workspace, HeldInv, Alone, PhaseOK, Starting
<1>2. PhaseOK'
  BY <1>1 DEF HeldInv, PhaseOK, States, Steps
<1>3. Alone' /\ Fresh'
  BY <1>1 DEF HeldInv, PhaseOK, Alone, Starting, Fresh, StartedAs, Untouched
<1>4. WorkerHeld'
  BY <1>1 DEF HeldInv, PhaseOK, WorkerHeld, StartedAs, Starting, Alone
<1>5. PtyHeld' /\ ClosedIsForgotten'
  BY <1>1 DEF HeldInv, PhaseOK, PtyHeld, ClosedIsForgotten, StartedAs, Untouched, Starting
<1>6. \A d \in Calls : StartedAs(d)'
  BY <1>1 DEF HeldInv, PhaseOK, StartedAs, Untouched, Starting, Alone
<1> QED BY <1>2, <1>3, <1>4, <1>5, <1>6 DEF HeldInv

(* Terminals that are opened, and PTYs that are killed in the background.  *)
LEMMA OthersKeep ==
  ASSUME HeldInv, Killed \/ OpenTerminal \/ Output \/ Read
  PROVE  HeldInv'
<1>1. CASE Killed
  <2>1. /\ killing' = FALSE
        /\ \/ pty' = "dead" /\ ignored' = ignored
           \/ pty' = pty /\ ignored' = TRUE
        /\ killing
        /\ UNCHANGED <<state, noted, worker, terms, shut, opened, calls>>
    BY <1>1 DEF Killed, workspace
  <2>2. PhaseOK' /\ Alone' /\ Fresh'
    BY <2>1 DEF HeldInv, PhaseOK, Alone, Fresh, Untouched
  <2>3. WorkerHeld' /\ PtyHeld' /\ ClosedIsForgotten'
    BY <2>1 DEF HeldInv, WorkerHeld, PtyHeld, ClosedIsForgotten, PhaseOK
  <2>4. \A c \in Calls : StartedAs(c)'
    BY <2>1 DEF HeldInv, StartedAs, Untouched
  <2> QED BY <2>2, <2>3, <2>4 DEF HeldInv
<1>2. CASE OpenTerminal
  <2>1. /\ opened' \in 2..MaxOpened /\ terms' = terms \cup {opened'}
        /\ state # "none" /\ \A c \in Calls : calls[c] \notin Starting
        /\ UNCHANGED <<state, noted, worker, shut, pty, killing, ignored, calls>>
    BY <1>2, KnownThen, BoundAssumption DEF OpenTerminal, workspace, Known, HeldInv, PhaseOK
  <2>2. opened' \in 1..MaxOpened /\ opened' # 1 /\ opened' \in 0..MaxOpened
    BY <2>1, BoundAssumption
  <2>3. PhaseOK' /\ Alone' /\ Fresh'
    BY <2>1, <2>2 DEF HeldInv, PhaseOK, Alone, Fresh
  <2>4. WorkerHeld' /\ PtyHeld' /\ ClosedIsForgotten'
    BY <2>1, <2>2 DEF HeldInv, WorkerHeld, PtyHeld, ClosedIsForgotten
  <2>5. \A c \in Calls : StartedAs(c)'
    BY <2>1 DEF HeldInv, StartedAs, Starting
  <2> QED BY <2>3, <2>4, <2>5 DEF HeldInv
<1>3. CASE Output \/ Read
  <2>1. UNCHANGED phase
    BY <1>3 DEF Output, Read, phase
  <2> QED BY <2>1, PhaseUnchanged
<1> QED BY <1>1, <1>2, <1>3

LEMMA HeldInvHolds == Spec => []HeldInv
<1>1. Init => HeldInv
  <2> SUFFICES ASSUME Init PROVE HeldInv
    OBVIOUS
  <2>1. PhaseOK
    <3>1. calls \in [Calls -> Steps]
      BY DEF Init, Steps
    <3>2. terms \subseteq 1..MaxOpened /\ opened \in 0..MaxOpened
      BY BoundAssumption DEF Init
    <3> QED BY <3>1, <3>2 DEF Init, PhaseOK, States
  <2>2. \A c \in Calls : calls[c] = "idle"
    BY DEF Init
  <2>3. Alone /\ Fresh /\ \A c \in Calls : StartedAs(c)
    BY <2>2 DEF Init, Alone, Fresh, StartedAs, Untouched, Starting
  <2>4. WorkerHeld /\ PtyHeld /\ ClosedIsForgotten
    BY DEF Init, WorkerHeld, PtyHeld, ClosedIsForgotten
  <2> QED BY <2>1, <2>3, <2>4 DEF HeldInv
<1>2. HeldInv /\ [Next]_vars => HeldInv'
  <2> SUFFICES ASSUME HeldInv, [Next]_vars PROVE HeldInv'
    OBVIOUS
  <2>1. CASE UNCHANGED vars
    BY <2>1, PhaseUnchanged DEF vars, phase
  <2> QED BY <2>1, StartKeeps, CreatedKeeps, ClonedKeeps, PtyKeeps, FailsKeeps, UndoneKeeps,
             DestroyKeeps, DestroyedKeeps, CloseKeeps, CloseDone, OthersKeep DEF Next
<1> QED BY <1>1, <1>2, PTL DEF Spec

(* When nothing is under way and no error was swallowed, a worker that     *)
(* runs is that of a workspace that is ready and a PTY that runs that of a *)
(* terminal in the map, whatever failed in startWorkspace and however      *)
(* destroyWorkspace and terminal_close overlapped.                         *)
THEOREM NobodyStranded == Spec => []NothingStranded
<1>1. HeldInv => NothingStranded
  <2> SUFFICES ASSUME HeldInv, Quiet, ~ignored PROVE NothingStranded
    BY DEF NothingStranded
  <2>1. \A c \in Calls : calls[c] = "idle"
    BY DEF Quiet
  <2> QED BY <2>1 DEF HeldInv, WorkerHeld, PtyHeld, Quiet, NothingStranded
<1> QED BY <1>1, HeldInvHolds, PTL

(* A terminal in state closed is on its way out of the map: the call that  *)
(* closed it still waits for its PTY.                                      *)
THEOREM ClosedLeaves == Spec => []ClosedIsForgotten
<1>1. HeldInv => ClosedIsForgotten
  BY DEF HeldInv
<1> QED BY <1>1, HeldInvHolds, PTL

-----------------------------------------------------------------------------
(* PtyBuffer.  What it keeps is the end of the output, and it drops        *)
(* nothing until it is full.                                               *)
KeepsTheEnd ==
  /\ min + Len(buffer) = Len(text) /\ Len(buffer) <= Capacity
  /\ \A i \in 1..Len(buffer) : buffer[i] = text[min + i]
  /\ min > 0 => Len(buffer) = Capacity

BufferOK == buffer \in Seq(Byte) /\ min \in Nat /\ text \in Seq(Byte)
ClientOK == cursor \in Nat \cup {Nowhere} /\ due \in Nat /\ cut \in Nat

BufferInv == BufferOK /\ KeepsTheEnd

LEMMA PlaceInChunk ==
  ASSUME NEW dropped \in Nat, NEW kept \in Nat, NEW n \in Nat, NEW i \in Nat, n + i > kept
  PROVE  /\ ~((dropped + n) + i <= dropped + kept)
         /\ (dropped + n) + i - (dropped + kept) = n + i - kept
OBVIOUS

LEMMA AppendKeeps ==
  ASSUME BufferInv, NEW chunk \in Seq(Byte), Append1(chunk)
  PROVE  BufferInv' /\ Len(text') = Len(text) + Len(chunk)
<1> DEFINE new == buffer \o chunk
           n == Overflow(new)
<1>1. /\ buffer \in Seq(Byte) /\ text \in Seq(Byte) /\ min \in Nat
      /\ min + Len(buffer) = Len(text) /\ Len(buffer) <= Capacity /\ Capacity \in Nat
      /\ \A i \in 1..Len(buffer) : buffer[i] = text[min + i]
      /\ min > 0 => Len(buffer) = Capacity
  BY LimitAssumption DEF BufferInv, BufferOK, KeepsTheEnd
<1>2. /\ new \in Seq(Byte) /\ Len(new) = Len(buffer) + Len(chunk)
      /\ \A i \in 1..Len(new) :
           new[i] = IF i <= Len(buffer) THEN buffer[i] ELSE chunk[i - Len(buffer)]
  BY <1>1, ConcatProperties
<1>3. /\ text' \in Seq(Byte) /\ Len(text') = Len(text) + Len(chunk)
      /\ \A i \in 1..Len(text') :
           text'[i] = IF i <= Len(text) THEN text[i] ELSE chunk[i - Len(text)]
  BY <1>1, ConcatProperties DEF Append1
<1>4. /\ n \in 0..Len(new) /\ Len(new) - n <= Capacity
      /\ n > 0 => Len(new) - n = Capacity
      /\ n = 0 => Len(new) <= Capacity
  BY <1>1, <1>2 DEF Overflow
<1>5. buffer' = SubSeq(new, n + 1, Len(new)) /\ min' = min + n
  BY DEF Append1, MinAfter
<1> HIDE DEF new, n
<1>6. /\ buffer' \in Seq(Byte) /\ Len(buffer') = Len(new) - n
      /\ \A i \in 1..Len(buffer') : buffer'[i] = new[n + i]
  BY <1>2, <1>4, <1>5, SubSeqProperties
<1>7. /\ Len(buffer) \in Nat /\ Len(text) \in Nat /\ Len(chunk) \in Nat /\ n \in Nat
      /\ min' \in Nat /\ min' + Len(buffer') = Len(text') /\ Len(buffer') <= Capacity
  <2>1. Len(buffer) \in Nat /\ Len(text) \in Nat /\ Len(chunk) \in Nat
    BY <1>1, LenProperties
  <2>2. Len(new) = Len(buffer) + Len(chunk) /\ Len(text') = Len(text) + Len(chunk)
    BY <1>2, <1>3
  <2>3. n \in Nat /\ n <= Len(new) /\ Len(new) - n <= Capacity
    BY <1>4, <2>1, <2>2
  <2>4. min \in Nat /\ min + Len(buffer) = Len(text) /\ min' = min + n
    BY <1>1, <1>5
  <2>5. Len(buffer') = Len(new) - n
    BY <1>6
  <2> QED BY <2>1, <2>2, <2>3, <2>4, <2>5
<1>8. min' > 0 => Len(buffer') = Capacity
  BY <1>1, <1>2, <1>4, <1>5, <1>6
<1>9. ASSUME NEW i \in 1..Len(buffer'), NEW place, place = min' + i
      PROVE  buffer'[i] = text'[place]
  <2>1. /\ i \in Nat /\ n \in Nat /\ n + i \in 1..Len(new) /\ buffer'[i] = new[n + i]
        /\ place \in 1..Len(text') /\ place = min + (n + i) /\ place = (min + n) + i
    BY <1>1, <1>2, <1>3, <1>4, <1>5, <1>6, <1>7, <1>9
  <2>2. CASE n + i <= Len(buffer)
    <3>1. new[n + i] = text[place]
      <4>1. n + i \in 1..Len(buffer)
        BY <1>7, <2>1, <2>2
      <4>2. buffer[n + i] = text[min + (n + i)]
        BY <1>1, <4>1
      <4>3. new[n + i] = buffer[n + i]
        BY <1>2, <2>1, <2>2
      <4> QED BY <2>1, <4>2, <4>3
    <3>2. place <= Len(text)
      BY <1>1, <2>1, <2>2
    <3> QED BY <1>3, <2>1, <3>1, <3>2
  <2>3. CASE ~(n + i <= Len(buffer))
    <3>1. new[n + i] = chunk[n + i - Len(buffer)]
      BY <1>2, <2>1, <2>3
    <3>2. ~(place <= Len(text)) /\ place - Len(text) = n + i - Len(buffer)
      <4>1. Len(text) = min + Len(buffer) /\ min \in Nat /\ n + i > Len(buffer)
        BY <1>1, <1>7, <2>1, <2>3
      <4> QED BY <1>7, <2>1, <4>1, PlaceInChunk
    <3> QED BY <1>3, <2>1, <3>1, <3>2
  <2> QED BY <2>2, <2>3
<1> QED BY <1>3, <1>6, <1>7, <1>8, <1>9 DEF BufferInv, BufferOK, KeepsTheEnd

(* A read starts within what is kept, and what it takes is there.          *)
LEMMA StrayCount ==
  ASSUME NEW bytes \in Seq(Byte)
  PROVE  Cardinality(Stray(bytes)) \in Nat
<1>1. DOMAIN bytes = 1..Len(bytes) /\ Len(bytes) \in Nat
  OBVIOUS
<1>2. IsFiniteSet(1..Len(bytes))
  BY <1>1, FS_Interval
<1>3. Stray(bytes) \subseteq 1..Len(bytes)
  BY <1>1 DEF Stray
<1>4. IsFiniteSet(Stray(bytes))
  BY <1>2, <1>3, FS_Subset
<1> QED BY <1>4, FS_CardinalityType

ReadInv == BufferInv /\ ClientOK /\ ReadsFollowOn

LEMMA ReadKeeps ==
  ASSUME ReadInv, Read
  PROVE  ReadInv'
<1> DEFINE from == IF cursor = Nowhere THEN min ELSE cursor
           start == IF from < min THEN min ELSE from
           end == IF start - min + MaxBytes < Len(buffer)
                  THEN start - min + MaxBytes ELSE Len(buffer)
           bytes == SubSeq(buffer, start - min + 1, end)
<1>1. /\ min \in Nat /\ Len(text) \in Nat /\ Len(buffer) \in Nat
      /\ min + Len(buffer) = Len(text) /\ UNCHANGED <<buffer, min, text>>
      /\ buffer \in Seq(Byte) /\ text \in Seq(Byte)
  BY LenProperties DEF ReadInv, BufferInv, BufferOK, KeepsTheEnd, Read, output
<1>2. start \in Nat /\ start >= min
  BY <1>1 DEF ReadInv, ClientOK
<1>3. \/ /\ start >= Len(text)
         /\ cursor' = Len(text) /\ due' = Len(text) /\ cut' = 0
      \/ /\ ~(start >= Len(text))
         /\ cursor' = NextCursor(start, bytes) /\ due' = start + Len(bytes)
         /\ cut' = Cardinality(Stray(bytes))
  BY DEF Read
<1> HIDE DEF start
<1>4. CASE start >= Len(text)
  <2>1. cursor' = Len(text) /\ due' = Len(text) /\ cut' = 0
    BY <1>3, <1>4
  <2> QED BY <1>1, <2>1 DEF ReadInv, BufferInv, BufferOK, KeepsTheEnd, ClientOK, ReadsFollowOn
<1>5. CASE ~(start >= Len(text))
  <2>1. /\ start - min \in Nat /\ start - min < Len(buffer)
        /\ MaxBytes \in Nat \ {0}
    BY <1>1, <1>2, <1>5, LimitAssumption
  <2>2. end \in 1..Len(buffer) /\ start - min + 1 <= end
    BY <1>1, <2>1
  <2> HIDE DEF end
  <2>3. bytes \in Seq(Byte) /\ Len(bytes) = end - (start - min)
    <3>1. \A i \in (start - min + 1)..end : buffer[i] \in Byte
      <4>1. \A i \in (start - min + 1)..end : i \in 1..Len(buffer)
        BY <1>1, <2>1, <2>2
      <4> QED BY <1>1, <4>1
    <3>2. start - min + 1 \in Int /\ end \in Int
      BY <2>1, <2>2
    <3> QED BY <2>1, <2>2, <3>1, <3>2, SubSeqProperties
  <2> HIDE DEF bytes
  <2>4. Len(bytes) \in Nat /\ start + Len(bytes) <= Len(text)
    BY <1>1, <1>2, <2>1, <2>2, <2>3
  <2>5. Cardinality(Stray(bytes)) \in Nat
    BY <2>3, StrayCount
  <2>6. /\ cursor' = start + (Len(bytes) + 2 * cut') /\ due' = start + Len(bytes)
        /\ cut' \in Nat
    BY <1>3, <1>5, <2>5 DEF NextCursor, Decoded
  <2>7. /\ cursor' \in Nat /\ due' \in Nat /\ due' <= Len(text) /\ due' <= cursor'
        /\ cursor' <= due' + 2 * cut'
    BY <1>2, <2>4, <2>6
  <2> QED BY <1>1, <2>6, <2>7
          DEF ReadInv, BufferInv, BufferOK, KeepsTheEnd, ClientOK, ReadsFollowOn
<1> QED BY <1>4, <1>5

LEMMA OutputKeeps ==
  ASSUME ReadInv, Output
  PROVE  ReadInv'
<1>1. PICK chunk \in Seq(Byte) : Append1(chunk)
  <2>1. \A chunk \in Piece \cup Chunk : chunk \in Seq(Byte)
    <3>1. <<"a">> \in Seq(Byte) /\ <<"h">> \in Seq(Byte) /\ <<"t">> \in Seq(Byte)
          /\ <<"h", "t">> \in Seq(Byte)
      BY DEF Byte
    <3>2. Piece \cup Chunk \subseteq {<<"a">>, <<"h">>, <<"t">>, <<"h", "t">>}
      BY DEF Piece, Byte, Chunk
    <3> QED BY <3>1, <3>2
  <2> QED BY <2>1 DEF Output
<1>2. BufferInv' /\ Len(text') = Len(text) + Len(chunk)
  BY <1>1, AppendKeeps DEF ReadInv
<1>3. UNCHANGED <<cursor, due, cut>>
  BY DEF Output, client
<1>4. Len(text) \in Nat /\ Len(chunk) \in Nat /\ Len(text') \in Nat
  BY <1>2, LenProperties DEF ReadInv, BufferInv, BufferOK
<1>5. ReadsFollowOn'
  BY <1>2, <1>3, <1>4 DEF ReadInv, ClientOK, ReadsFollowOn
<1> QED BY <1>2, <1>3, <1>5 DEF ReadInv, ClientOK

LEMMA ReadInvHolds == Spec => []ReadInv
<1>1. Init => ReadInv
  BY LimitAssumption
     DEF Init, ReadInv, BufferInv, BufferOK, KeepsTheEnd, ClientOK, ReadsFollowOn
<1>2. ReadInv /\ [Next]_vars => ReadInv'
  <2> SUFFICES ASSUME ReadInv, [Next]_vars PROVE ReadInv'
    OBVIOUS
  <2>1. CASE Output
    BY <2>1, OutputKeeps
  <2>2. CASE Read
    BY <2>2, ReadKeeps
  <2>3. CASE UNCHANGED <<output, client>>
    BY <2>3 DEF output, client, ReadInv, BufferInv, BufferOK, KeepsTheEnd, ClientOK,
       ReadsFollowOn
  <2>4. ASSUME NEW c \in Calls,
               \/ Start(c) \/ WorkerCreated(c) \/ Cloned(c) \/ PtyCreated(c)
               \/ StartFails(c) \/ RolledBack(c) \/ Destroy(c) \/ Destroyed(c)
               \/ (\E t \in 1..MaxOpened : CloseTerminal(c, t)) \/ TerminalClosed(c)
        PROVE  UNCHANGED <<output, client>>
    BY <2>4 DEF Start, WorkerCreated, Cloned, PtyCreated, StartFails, RolledBack, Destroy,
       Destroyed, CloseTerminal, TerminalClosed
  <2>5. CASE Killed \/ OpenTerminal
    BY <2>3, <2>5 DEF Killed, OpenTerminal
  <2>6. CASE UNCHANGED vars
    BY <2>3, <2>6 DEF vars
  <2> QED BY <2>1, <2>2, <2>3, <2>4, <2>5, <2>6 DEF Next
<1> QED BY <1>1, <1>2, PTL DEF Spec

(* A client that follows the cursors of readTerminal is given no byte      *)
(* twice, is never ahead of the output, and is moved past output only by a *)
(* read that cut characters, by at most two bytes for each byte it cut.    *)
THEOREM FollowingReads == Spec => []ReadsFollowOn
<1>1. ReadInv => ReadsFollowOn
  BY DEF ReadInv
<1> QED BY <1>1, ReadInvHolds, PTL

(* PtyBuffer keeps the end of all the output, byte by byte, and drops a    *)
(* byte only when it is full.                                              *)
THEOREM BufferIsTheEnd == Spec => []KeepsTheEnd
<1>1. ReadInv => KeepsTheEnd
  BY DEF ReadInv, BufferInv
<1> QED BY <1>1, ReadInvHolds, PTL

(* The types of all that is kept of a workspace and its terminals.         *)
THEOREM TypeCorrect == Spec => []TypeOK
<1>1. HeldInv /\ ReadInv => TypeOK
  BY DEF HeldInv, PhaseOK, ReadInv, BufferInv, BufferOK, ClientOK, TypeOK
<1> QED BY <1>1, HeldInvHolds, ReadInvHolds, PTL
=============================================================================
