------------------------ MODULE WorkerSessionsProofs ------------------------
(***************************************************************************)
(* Proofs about WorkerSessions: its types, the bound on active sessions    *)
(* that the gate does give (for every number of sessions, calls and passes *)
(* and every maximum), that only a restart forgets a sandbox where         *)
(* requests do not fail, and that with files no session comes back but by  *)
(* a restart on an older file.                                             *)
(***************************************************************************)
EXTENDS WorkerSessions, FiniteSetTheorems, TLAPS

(* An actor that is past choosing a session has one.                       *)
About == {"save", "running", "writing", "destroy", "mark", "expire", "gone"}
Expiring(a) == act[a].at \in {"persist", "rename"} /\ act[a].next = "expire"
Placed == \A a \in Actors :
  act[a].at \in About \/ Expiring(a) => act[a].session \in Sessions
Typed == TypeOK /\ Placed

LEMMA IdleIsAct ==
  /\ Idle \in Act /\ Idle.at = "idle" /\ Idle.next = "ran"
  /\ Idle.todo = {} /\ Idle.snap = NoRows /\ NoRows \in Rows
BY DEF Idle, Act, Rows, NoRows, RowStates

(* Where an actor goes on to after an update.                              *)
Nexts == {"saved", "ran", "each", "expire"}
LEMMA OnwardIs ==
  ASSUME act \in [Actors -> Act], NEW a \in Actors, NEW next \in Nexts
  PROVE  /\ Onward(a, next) \in Act
         /\ Onward(a, next).at \in {"idle", "each", "expire"}
         /\ Onward(a, next).at = "expire" <=> next = "expire"
         /\ next = "expire" => Onward(a, next).session = act[a].session
         /\ Onward(a, next).todo \in {act[a].todo, {}}
         /\ Onward(a, next).snap = NoRows
         /\ Onward(a, next).next = "ran"
<1>1. act[a] \in Act
  OBVIOUS
<1>2. CASE next = "each"
  <2>1. Onward(a, next) = [act[a] EXCEPT !.at = "each", !.session = NoSession,
                                         !.snap = NoRows, !.next = "ran"]
    BY <1>2 DEF Onward
  <2> QED
    BY <1>1, <1>2, <2>1, IdleIsAct DEF Act
<1>3. CASE next = "expire"
  <2>1. Onward(a, next) = [act[a] EXCEPT !.at = "expire", !.snap = NoRows,
                                         !.next = "ran"]
    BY <1>3 DEF Onward
  <2> QED
    BY <1>1, <1>3, <2>1, IdleIsAct DEF Act
<1>4. CASE next \in {"saved", "ran"}
  BY <1>4, IdleIsAct DEF Onward
<1> QED
  BY <1>2, <1>3, <1>4 DEF Nexts

(* What an update comes to: the actor goes on or is about to persist.      *)
LEMMA UpdateIs ==
  ASSUME act \in [Actors -> Act], NEW a \in Actors, NEW state, NEW next \in Nexts,
         Update(a, state, next)
  PROVE  \E r \in Act :
           /\ act' = [act EXCEPT ![a] = r]
           /\ r.at \in IF UseDb THEN {"idle", "each", "expire"} ELSE {"persist"}
           /\ r.at = "expire" => next = "expire"
           /\ r.at = "persist" => r.next = next
           /\ next = "expire" => r.session = act[a].session
           /\ r.todo \in {act[a].todo, {}}
           /\ r.snap \in {act[a].snap, NoRows}
<1>1. CASE UseDb
  BY <1>1, OnwardIs DEF Update, GoOn
<1>2. CASE ~UseDb
  <2> DEFINE s == IF next = "each" THEN NoSession ELSE act[a].session
             r == [act[a] EXCEPT !.at = "persist", !.next = next, !.session = s]
  <2>1. act' = [act EXCEPT ![a] = r]
    BY <1>2 DEF Update
  <2>2. s \in Sessions \cup {NoSession} /\ (next = "expire" => s = act[a].session)
    BY DEF Act
  <2> HIDE DEF s
  <2>3. /\ r \in Act /\ r.at = "persist" /\ r.next = next /\ r.session = s
        /\ r.todo = act[a].todo /\ r.snap = act[a].snap
    BY <2>2 DEF Act, Nexts
  <2> HIDE DEF r
  <2> QED
    BY <1>2, <2>1, <2>2, <2>3
<1> QED
  BY <1>1, <1>2

(* A record that names a session where it must keeps the types.            *)
LEMMA RecordTyped ==
  ASSUME Typed, NEW a \in Actors, NEW r \in Act, act' = [act EXCEPT ![a] = r],
         \/ r.at \in About
         \/ r.at \in {"persist", "rename"} /\ r.next = "expire"
         => r.session \in Sessions
  PROVE  act' \in [Actors -> Act] /\ Placed'
<1>1. act'[a] = r /\ \A b \in Actors \ {a} : act'[b] = act[b]
  BY DEF Typed, TypeOK
<1>2. act' \in [Actors -> Act]
  BY DEF Typed, TypeOK
<1>3. Placed'
  BY <1>1 DEF Typed, Placed, Expiring
<1> QED
  BY <1>2, <1>3

(* An actor that moves on keeps the rest of its record.                    *)
LEMMA GotoTyped ==
  ASSUME Typed, NEW a \in Actors,
         NEW step \in {"gateWait", "gateList", "spawn", "mark"},
         step = "mark" => act[a].session \in Sessions,
         Goto(a, step)
  PROVE  act' \in [Actors -> Act] /\ Placed'
<1> DEFINE r == [act[a] EXCEPT !.at = step]
<1>1. r \in Act /\ r.at = step /\ r.session = act[a].session
  BY DEF Typed, TypeOK, Act
<1>2. act' = [act EXCEPT ![a] = r]
  BY DEF Goto, Typed, TypeOK
<1> HIDE DEF r
<1> QED
  BY <1>1, <1>2, RecordTyped DEF About

LEMMA GoOnTyped ==
  ASSUME Typed, NEW a \in Actors, NEW next \in Nexts, GoOn(a, next),
         next = "expire" => act[a].session \in Sessions
  PROVE  act' \in [Actors -> Act] /\ Placed'
<1> DEFINE r == Onward(a, next)
<1>1. act' = [act EXCEPT ![a] = r]
  BY DEF GoOn
<1>2. /\ r \in Act /\ r.at \in {"idle", "each", "expire"}
      /\ r.at = "expire" => r.session \in Sessions
  BY OnwardIs DEF Typed, TypeOK
<1> HIDE DEF r
<1> QED
  BY <1>1, <1>2, RecordTyped DEF About

LEMMA UpdateTyped ==
  ASSUME Typed, NEW a \in Actors, NEW state \in RowStates, NEW next \in Nexts,
         Update(a, state, next), act[a].session \in Sessions
  PROVE  Typed'
<1>1. PICK r \in Act :
        /\ act' = [act EXCEPT ![a] = r]
        /\ r.at \in IF UseDb THEN {"idle", "each", "expire"} ELSE {"persist"}
        /\ r.at = "expire" => next = "expire"
        /\ r.at = "persist" => r.next = next
        /\ next = "expire" => r.session = act[a].session
  BY UpdateIs DEF Typed, TypeOK
<1>2. act' \in [Actors -> Act] /\ Placed'
  BY <1>1, RecordTyped DEF About
<1>3. row' \in Rows /\ UNCHANGED <<file, box, overdue, gate>>
  BY DEF Update, Typed, TypeOK, Rows
<1> QED
  BY <1>2, <1>3 DEF Typed, TypeOK, file

(* An actor's record becomes another, and the rest keeps its type.         *)
LEMMA StepTyped ==
  ASSUME Typed, NEW a \in Actors, NEW r \in Act, act' = [act EXCEPT ![a] = r],
         \/ r.at \in About
         \/ r.at \in {"persist", "rename"} /\ r.next = "expire"
         => r.session \in Sessions,
         row' \in Rows, file' = file,
         box' \in [Sessions -> BoxStates], overdue' = overdue, gate' \in BOOLEAN
  PROVE  Typed'
BY RecordTyped DEF Typed, TypeOK, file

LEMMA KilledTyped ==
  ASSUME Typed, NEW s, Killed(s) PROVE box' \in [Sessions -> BoxStates]
BY DEF Typed, TypeOK, Killed, BoxStates

LEMMA CallTyped ==
  ASSUME Typed, NEW c \in Calls, CallStep(c) PROVE Typed'
<1>1. /\ c \in Actors /\ act[c] \in Act /\ row \in Rows /\ ActiveRows \subseteq Sessions
      /\ box \in [Sessions -> BoxStates] /\ gate \in BOOLEAN
  BY DEF Actors, Typed, TypeOK, ActiveRows
<1>2. act[c].at \in About => act[c].session \in Sessions
  BY <1>1 DEF Typed, Placed
<1>3. CASE GateEnter(c) \/ GateWake(c) \/ GateList(c) \/ GateFails(c)
  <2>1. row' = row /\ file' = file /\ box' = box /\ overdue' = overdue
        /\ gate' \in BOOLEAN
    BY <1>3 DEF GateEnter, GateWake, GateList, GateFails
  <2>2. \/ Return(c)
        \/ Goto(c, "gateWait") \/ Goto(c, "gateList") \/ Goto(c, "spawn")
    BY <1>3 DEF GateEnter, GateWake, GateList, GateFails
  <2>3. CASE Return(c)
    BY <1>1, <2>1, <2>3, IdleIsAct, StepTyped DEF Return, About
  <2>4. CASE ~Return(c)
    BY <1>1, <2>1, <2>2, <2>4, GotoTyped DEF Typed, TypeOK, file
  <2> QED
    BY <2>3, <2>4
<1>4. CASE SpawnFails(c) \/ PrepareFails(c) \/ RunFails(c)
  <2>1. Return(c) /\ UNCHANGED <<row, file, overdue, gate>>
    BY <1>4 DEF SpawnFails, PrepareFails, RunFails
  <2>2. box' \in [Sessions -> BoxStates]
    BY <1>1, <1>4, KilledTyped DEF SpawnFails, PrepareFails, RunFails
  <2> QED
    BY <1>1, <2>1, <2>2, IdleIsAct, StepTyped DEF Return, About
<1>5. CASE Save(c)
  BY <1>1, <1>2, <1>5, UpdateTyped DEF Save, At, About, Nexts, RowStates
<1>6. CASE RunRead(c)
  <2>1. act[c].session \in Sessions /\ UNCHANGED <<row, file, box, overdue, gate>>
    BY <1>2, <1>6 DEF RunRead, At, About
  <2>2. CASE UseDb
    <3> DEFINE r == [act[c] EXCEPT !.at = "writing", !.copy = row[act[c].session]]
    <3>1. row[act[c].session] \in RowStates
      BY <1>1, <2>1 DEF Rows
    <3>2. r \in Act /\ r.at = "writing" /\ r.session = act[c].session
      BY <1>1, <3>1 DEF Act
    <3>3. act' = [act EXCEPT ![c] = r]
      BY <1>6, <2>2 DEF RunRead
    <3> HIDE DEF r
    <3> QED
      BY <1>1, <2>1, <3>2, <3>3, StepTyped
  <2>3. CASE ~UseDb
    <3> DEFINE r == [Idle EXCEPT !.at = "persist"]
    <3>1. act' = [act EXCEPT ![c] = r]
      BY <1>6, <2>3 DEF RunRead
    <3>2. r \in Act /\ r.at = "persist" /\ r.next = "ran"
      BY IdleIsAct DEF Act
    <3> HIDE DEF r
    <3> QED
      BY <1>1, <2>1, <3>1, <3>2, StepTyped DEF About
  <2> QED
    BY <2>2, <2>3
<1>7. CASE RunWrite(c)
  <2>1. row' \in Rows
    BY <1>1, <1>7 DEF RunWrite, Rows, Act
  <2> QED
    BY <1>1, <1>7, <2>1, IdleIsAct, StepTyped DEF RunWrite, Return, About
<1>8. CASE DestroyAll(c)
  <2> DEFINE r == [Idle EXCEPT !.at = "each", !.todo = ActiveRows]
  <2>1. r \in Act /\ r.at = "each"
    BY <1>1, IdleIsAct DEF Act
  <2>2. act' = [act EXCEPT ![c] = r]
    BY <1>8 DEF DestroyAll
  <2> HIDE DEF r
  <2> QED
    BY <1>1, <1>8, <2>1, <2>2, StepTyped DEF DestroyAll, About
<1>9. ASSUME NEW s \in Sessions,
             Spawn(c, s) \/ RunStart(c, s) \/ DestroyNext(c, s) \/ DestroyOne(c, s)
      PROVE  Typed'
  <2>1. PICK r \in Act : act' = [act EXCEPT ![c] = r] /\ r.session = s /\ r.at \in About
    <3>1. CASE Spawn(c, s) \/ RunStart(c, s)
      <4>1. PICK step \in {"save", "running"} : GotoWith(c, step, s)
        BY <3>1 DEF Spawn, RunStart
      <4> DEFINE r == [act[c] EXCEPT !.at = step, !.session = s]
      <4>2. act' = [act EXCEPT ![c] = r]
        BY <4>1 DEF GotoWith
      <4>3. r \in Act /\ r.session = s /\ r.at = step
        BY <1>1 DEF Act
      <4> HIDE DEF r
      <4> QED
        BY <4>2, <4>3 DEF About
    <3>2. CASE DestroyNext(c, s)
      <4> DEFINE r == [act[c] EXCEPT !.at = "destroy", !.session = s, !.todo = @ \ {s}]
      <4>1. act' = [act EXCEPT ![c] = r]
        BY <3>2 DEF DestroyNext
      <4>2. r \in Act /\ r.session = s /\ r.at = "destroy"
        BY <1>1 DEF Act
      <4> HIDE DEF r
      <4> QED
        BY <4>1, <4>2 DEF About
    <3>3. CASE DestroyOne(c, s)
      <4> DEFINE r == [Idle EXCEPT !.at = "destroy", !.session = s]
      <4>1. act' = [act EXCEPT ![c] = r]
        BY <3>3 DEF DestroyOne
      <4>2. r \in Act /\ r.session = s /\ r.at = "destroy"
        BY IdleIsAct DEF Act
      <4> HIDE DEF r
      <4> QED
        BY <4>1, <4>2 DEF About
    <3> QED
      BY <1>9, <3>1, <3>2, <3>3
  <2>2. UNCHANGED <<row, file, overdue, gate>> /\ box' \in [Sessions -> BoxStates]
    BY <1>1, <1>9 DEF Spawn, RunStart, DestroyNext, DestroyOne, BoxStates
  <2> QED
    BY <1>1, <2>1, <2>2, StepTyped
<1> QED
  BY <1>3, <1>4, <1>5, <1>6, <1>7, <1>8, <1>9 DEF CallStep

LEMMA PassTyped ==
  ASSUME Typed, NEW p \in Passes, PassStep(p) PROVE Typed'
<1>1. /\ p \in Actors /\ act[p] \in Act /\ row \in Rows /\ ActiveRows \subseteq Sessions
      /\ box \in [Sessions -> BoxStates] /\ gate \in BOOLEAN
  BY DEF Actors, Typed, TypeOK, ActiveRows
<1>2. CASE PassStart(p)
  <2> DEFINE r == [Idle EXCEPT !.at = "each", !.todo = ActiveRows,
                              !.late = ActiveRows \cap overdue]
  <2>1. r \in Act /\ r.at = "each"
    BY <1>1, IdleIsAct DEF Act
  <2>2. act' = [act EXCEPT ![p] = r]
    BY <1>2 DEF PassStart
  <2> HIDE DEF r
  <2> QED
    BY <1>1, <1>2, <2>1, <2>2, StepTyped DEF PassStart, About
<1>3. CASE Expire(p) \/ MarkGone(p)
  <2>1. act[p].session \in Sessions
    BY <1>1, <1>3 DEF Expire, MarkGone, At, About, Typed, Placed
  <2> QED
    BY <1>1, <1>3, <2>1, UpdateTyped DEF Expire, MarkGone, Nexts, RowStates
<1>4. ASSUME NEW s \in Sessions, PassLate(p, s) \/ PassProbe(p, s) PROVE Typed'
  <2>1. UNCHANGED <<row, file, box, overdue, gate>>
    BY <1>4 DEF PassLate, PassProbe
  <2>2. CASE PassLate(p, s)
    <3> DEFINE r == [act[p] EXCEPT !.at = "destroy", !.session = s,
                                  !.todo = @ \ {s}, !.late = @ \ {s}]
    <3>1. act' = [act EXCEPT ![p] = r]
      BY <2>2 DEF PassLate
    <3>2. r \in Act /\ r.session = s
      BY <1>1 DEF Act
    <3> HIDE DEF r
    <3> QED
      BY <1>1, <2>1, <3>1, <3>2, StepTyped
  <2>3. CASE PassProbe(p, s) /\ act' = [act EXCEPT ![p].todo = @ \ {s}]
    <3> DEFINE r == [act[p] EXCEPT !.todo = @ \ {s}]
    <3>1. act' = [act EXCEPT ![p] = r]
      BY <2>3
    <3>2. r \in Act /\ r.at = "each"
      BY <1>1, <2>3 DEF Act, PassProbe, At
    <3> HIDE DEF r
    <3> QED
      BY <1>1, <2>1, <3>1, <3>2, StepTyped DEF About
  <2>4. CASE act' = [act EXCEPT ![p].at = "gone", ![p].session = s,
                                ![p].todo = @ \ {s}]
    <3> DEFINE r == [act[p] EXCEPT !.at = "gone", !.session = s, !.todo = @ \ {s}]
    <3>1. act' = [act EXCEPT ![p] = r]
      BY <2>4
    <3>2. r \in Act /\ r.session = s
      BY <1>1 DEF Act
    <3> HIDE DEF r
    <3> QED
      BY <1>1, <2>1, <3>1, <3>2, StepTyped
  <2> QED
    BY <1>4, <2>2, <2>3, <2>4 DEF PassProbe
<1> QED
  BY <1>2, <1>3, <1>4 DEF PassStep

LEMMA AnyTyped ==
  ASSUME Typed, NEW a \in Actors, AnyStep(a) PROVE Typed'
<1>1. /\ act[a] \in Act /\ row \in Rows /\ saved \in Rows /\ crossed \in BOOLEAN
      /\ box \in [Sessions -> BoxStates] /\ gate \in BOOLEAN /\ overdue \subseteq Sessions
  BY DEF Typed, TypeOK
<1>2. act[a].at \in About => act[a].session \in Sessions
  BY DEF Typed, Placed
<1>3. CASE Finish(a) \/ DestroyFails(a)
  BY <1>1, <1>3, IdleIsAct, StepTyped DEF Finish, DestroyFails, Return, About
<1>4. CASE WriteFails(a)
  <2>1. box' \in [Sessions -> BoxStates] /\ crossed' \in BOOLEAN
    BY <1>1, <1>4, KilledTyped, FlagsAssumption DEF WriteFails
  <2>2. act' \in [Actors -> Act] /\ Placed'
    BY <1>4, IdleIsAct, RecordTyped DEF WriteFails, Return, About
  <2> QED
    BY <1>1, <1>4, <2>1, <2>2 DEF WriteFails, Typed, TypeOK
<1>5. CASE Spared(a)
  <2>1. act' \in [Actors -> Act] /\ Placed'
    BY <1>2, <1>5, GoOnTyped DEF Spared, Destroyed, Nexts, At, About
  <2> QED
    BY <1>1, <1>5, <2>1 DEF Spared, Typed, TypeOK, file
<1>6. CASE Mark(a)
  BY <1>2, <1>6, UpdateTyped DEF Mark, Destroyed, Nexts, At, About, RowStates
<1>7. CASE Kill(a)
  <2>1. act' \in [Actors -> Act] /\ Placed'
    BY <1>2, <1>7, GotoTyped DEF Kill, At, About
  <2>2. box' \in [Sessions -> BoxStates]
    BY <1>7, KilledTyped DEF Kill
  <2> QED
    BY <1>1, <1>7, <2>1, <2>2 DEF Kill, Typed, TypeOK, file
<1>8. CASE Snapshot(a)
  <2> DEFINE r == [act[a] EXCEPT !.at = "rename", !.snap = row]
  <2>1. act' = [act EXCEPT ![a] = r]
    BY <1>8 DEF Snapshot
  <2>2. r \in Act /\ r.at = "rename" /\ r.next = act[a].next /\ r.session = act[a].session
    BY <1>1 DEF Act
  <2> HIDE DEF r
  <2>3. r.next = "expire" => r.session \in Sessions
    BY <1>8, <2>2 DEF Snapshot, At, Typed, Placed, Expiring
  <2>4. act' \in [Actors -> Act] /\ Placed'
    BY <2>1, <2>2, <2>3, RecordTyped DEF About
  <2>5. crossed' \in BOOLEAN
    BY <1>1, <1>8 DEF Snapshot
  <2> QED
    BY <1>1, <1>8, <2>4, <2>5 DEF Snapshot, Typed, TypeOK
<1>9. CASE Rename(a)
  <2>1. act[a].next \in Nexts /\ act[a].snap \in Rows
    BY <1>1 DEF Act, Nexts
  <2>2. act' \in [Actors -> Act] /\ Placed'
    BY <1>9, <2>1, GoOnTyped DEF Rename, At, Typed, Placed, Expiring
  <2>3. saved' \in Rows
    BY <1>9, <2>1, IdleIsAct DEF Rename
  <2> QED
    BY <1>1, <1>9, <2>2, <2>3 DEF Rename, Typed, TypeOK
<1> QED
  BY <1>3, <1>4, <1>5, <1>6, <1>7, <1>8, <1>9 DEF AnyStep

LEMMA OtherTyped ==
  ASSUME Typed,
         \/ UNCHANGED vars
         \/ Restart
         \/ \E s \in Sessions : Overdue(s) \/ Die(s)
  PROVE  Typed'
BY IdleIsAct DEF Typed, TypeOK, Placed, Expiring, vars, file, Restart, Overdue, Die,
                 At, About, RowStates, BoxStates

(* Every variable keeps its type. *)
THEOREM TypeCorrect == Spec => []Typed
<1>1. Init => Typed
  BY IdleIsAct DEF Init, Typed, TypeOK, Placed, Expiring, RowStates, BoxStates, About
<1>2. Typed /\ [Next]_vars => Typed'
  <2> SUFFICES ASSUME Typed, [Next]_vars PROVE Typed'
    OBVIOUS
  <2>1. Calls \subseteq Actors /\ Passes \subseteq Actors
    BY DEF Actors
  <2> QED
    BY <2>1, CallTyped, PassTyped, AnyTyped, OtherTyped DEF Next
<1> QED
  BY <1>1, <1>2, PTL DEF Spec

-----------------------------------------------------------------------------
(* Only a restart forgets a sandbox.  The invariant adds where a dead      *)
(* sandbox is known to be one: behind every row that left "active", in the *)
(* registry, in its file and in a snapshot on the way there, at every      *)
(* actor about to write such a row, and behind a copy runCommand took.     *)
Left == {"expired", "destroyed"}
DeadRows ==
  /\ \A s \in Sessions : row[s] \in Left => box[s] = "dead"
  /\ \A s \in Sessions : saved[s] \in Left => box[s] = "dead"
  /\ \A a \in Actors : \A s \in Sessions : act[a].snap[s] \in Left => box[s] = "dead"
Dooming(a) == act[a].at \in {"mark", "expire", "gone"} \/ Expiring(a)
DeadMarks == \A a \in Actors : Dooming(a) => box[act[a].session] = "dead"
RunRows == \A a \in Actors :
  act[a].at \in {"running", "writing"} => row[act[a].session] # "none"
Copies == \A a \in Actors : act[a].at = "writing" =>
  /\ act[a].copy # "none"
  /\ act[a].copy \in Left => box[act[a].session] = "dead"
OrphanInv == Typed /\ DeadRows /\ DeadMarks /\ RunRows /\ Copies

NoNewOrphan == \A s \in Sessions : Orphan(s)' => Orphan(s)

(* What every action comes to: one actor's record changes, dead sandboxes  *)
(* stay dead, and the new record and the new rows satisfy the invariant.   *)
LEMMA StepKeeps ==
  ASSUME OrphanInv, Typed', NEW a \in Actors, NEW r, act' = [act EXCEPT ![a] = r],
         \A s \in Sessions :
           /\ box[s] = "dead" => box'[s] = "dead"
           /\ box'[s] = "running" => box[s] = "running"
           /\ row[s] # "none" => row'[s] # "none"
           /\ row'[s] \in Left => box'[s] = "dead"
           /\ saved'[s] \in Left => box'[s] = "dead"
           /\ r.snap[s] \in Left => box'[s] = "dead"
           /\ box'[s] = "running" /\ row[s] = "active" => row'[s] = "active",
         \/ act[a].at # "save"
         \/ row'[act[a].session] = "active"
         \/ box'[act[a].session] = "dead",
         \/ r.at \in {"mark", "expire", "gone"}
         \/ r.at \in {"persist", "rename"} /\ r.next = "expire"
         => box'[r.session] = "dead",
         r.at \in {"running", "writing"} => row'[r.session] # "none",
         r.at = "writing" =>
           /\ r.copy # "none"
           /\ r.copy \in Left => box'[r.session] = "dead"
  PROVE  OrphanInv' /\ NoNewOrphan
<1> USE DEF OrphanInv, Left
<1>1. act'[a] = r /\ \A b \in Actors \ {a} : act'[b] = act[b]
  BY DEF Typed, TypeOK
<1>2. \A b \in Actors : act[b].at \in About \/ Expiring(b) => act[b].session \in Sessions
  BY DEF Typed, Placed
<1>3. NoNewOrphan
  <2> SUFFICES ASSUME NEW s \in Sessions, Orphan(s)', ~Orphan(s)  PROVE FALSE
    BY DEF NoNewOrphan
  <2>1. box'[s] = "running" /\ row'[s] # "active" /\ box[s] = "running" /\ row[s] # "active"
    BY DEF Orphan
  <2>2. PICK c \in Calls : act[c].at = "save" /\ act[c].session = s
    BY <2>1 DEF Orphan, At
  <2>3. c # a
    BY <2>1, <2>2
  <2>4. c \in Actors /\ act'[c] = act[c]
    BY <1>1, <2>3 DEF Actors
  <2> QED
    BY <2>2, <2>4 DEF Orphan, At
<1>4. DeadRows'
  <2>1. ASSUME NEW b \in Actors, NEW s \in Sessions, act'[b].snap[s] \in Left
        PROVE  box'[s] = "dead"
    BY <1>1, <2>1 DEF DeadRows
  <2> QED
    BY <2>1 DEF DeadRows
<1>5. DeadMarks'
  <2> SUFFICES ASSUME NEW b \in Actors, Dooming(b)'  PROVE box'[act'[b].session] = "dead"
    BY DEF DeadMarks
  <2>1. CASE b = a
    BY <1>1, <2>1 DEF Dooming, Expiring
  <2>2. CASE b # a
    <3>1. act'[b] = act[b] /\ Dooming(b)
      BY <1>1, <2>2 DEF Dooming, Expiring
    <3>2. box[act[b].session] = "dead" /\ act[b].session \in Sessions
      BY <1>2, <3>1 DEF DeadMarks, Dooming, About
    <3> QED
      BY <3>1, <3>2
  <2> QED
    BY <2>1, <2>2
<1>6. RunRows'
  BY <1>1, <1>2 DEF RunRows, About
<1>7. Copies'
  BY <1>1, <1>2 DEF Copies, About
<1> QED
  BY <1>3, <1>4, <1>5, <1>6, <1>7

(* A step that touches neither rows nor sandboxes.                         *)
LEMMA QuietKeeps ==
  ASSUME OrphanInv, Typed', NEW a \in Actors, NEW r, act' = [act EXCEPT ![a] = r],
         row' = row, saved' = saved, box' = box, act[a].at # "save",
         r.snap \in {act[a].snap, NoRows},
         \/ r.at \in {"idle", "gateWait", "gateList", "spawn", "each", "destroy"}
         \/ r.at = "persist" /\ r.next # "expire"
  PROVE  OrphanInv' /\ NoNewOrphan
<1>1. \A s \in Sessions : /\ row'[s] \in Left => box'[s] = "dead"
                          /\ saved'[s] \in Left => box'[s] = "dead"
                          /\ r.snap[s] \in Left => box'[s] = "dead"
  BY DEF OrphanInv, DeadRows, Left, NoRows
<1> QED
  BY <1>1, StepKeeps

(* Its record is replaced by the idle one.                                 *)
LEMMA ReturnKeeps ==
  ASSUME OrphanInv, Typed', NEW a \in Actors, Return(a),
         row' = row, saved' = saved, box' = box, act[a].at # "save"
  PROVE  OrphanInv' /\ NoNewOrphan
BY IdleIsAct, QuietKeeps DEF Return

(* It moves on along its steps.                                            *)
LEMMA GotoKeeps ==
  ASSUME OrphanInv, Typed', NEW a \in Actors,
         NEW step \in {"gateWait", "gateList", "spawn"}, Goto(a, step),
         row' = row, saved' = saved, box' = box, act[a].at # "save"
  PROVE  OrphanInv' /\ NoNewOrphan
<1> DEFINE r == [act[a] EXCEPT !.at = step]
<1>1. act' = [act EXCEPT ![a] = r] /\ r.at = step /\ r.snap = act[a].snap
  BY DEF Goto, OrphanInv, Typed, TypeOK, Act
<1> HIDE DEF r
<1> QED
  BY <1>1, QuietKeeps

(* It writes a row that is no longer active, of a sandbox that is dead, or *)
(* goes on without one.                                                    *)
LEMMA GoesOnKeeps ==
  ASSUME OrphanInv, Typed', NEW a \in Actors, NEW next \in {"each", "expire"},
         GoOn(a, next), box' = box, act[a].at # "save",
         next = "expire" => box[act[a].session] = "dead",
         row' = row,
         saved' = saved \/ saved' = NoRows \/ saved' = act[a].snap
  PROVE  OrphanInv' /\ NoNewOrphan
<1> DEFINE r == Onward(a, next)
<1>1. /\ act' = [act EXCEPT ![a] = r] /\ r.snap = NoRows
      /\ r.at \in {"idle", "each", "expire"}
      /\ r.at = "expire" => next = "expire" /\ r.session = act[a].session
  BY OnwardIs DEF GoOn, OrphanInv, Typed, TypeOK, Nexts
<1> HIDE DEF r
<1>2. \A s \in Sessions : /\ row'[s] \in Left => box'[s] = "dead"
                          /\ saved'[s] \in Left => box'[s] = "dead"
                          /\ r.snap[s] \in Left => box'[s] = "dead"
  BY <1>1 DEF OrphanInv, DeadRows, Left, NoRows
<1> QED
  BY <1>1, <1>2, StepKeeps

LEMMA UpdateKeeps ==
  ASSUME OrphanInv, Typed', NEW a \in Actors, NEW state \in Left \cup {"active"},
         NEW next \in Nexts, Update(a, state, next), act[a].session \in Sessions,
         state # "active" => box[act[a].session] = "dead" /\ act[a].at # "save",
         next = "expire" => box[act[a].session] = "dead"
  PROVE  OrphanInv' /\ NoNewOrphan
<1>1. PICK r \in Act :
        /\ act' = [act EXCEPT ![a] = r]
        /\ r.at \in IF UseDb THEN {"idle", "each", "expire"} ELSE {"persist"}
        /\ r.at = "expire" => next = "expire"
        /\ r.at = "persist" => r.next = next
        /\ next = "expire" => r.session = act[a].session
        /\ r.snap \in {act[a].snap, NoRows}
  BY UpdateIs DEF OrphanInv, Typed, TypeOK
<1>2. /\ row' = [row EXCEPT ![act[a].session] = state]
      /\ saved' = saved /\ box' = box
  BY DEF Update, file
<1>3. \A s \in Sessions : /\ saved'[s] \in Left => box'[s] = "dead"
                          /\ r.snap[s] \in Left => box'[s] = "dead"
  BY <1>1, <1>2 DEF OrphanInv, DeadRows, Left, NoRows
<1>4. \A s \in Sessions :
        /\ row[s] # "none" => row'[s] # "none"
        /\ row'[s] \in Left => box'[s] = "dead"
        /\ box'[s] = "running" /\ row[s] = "active" => row'[s] = "active"
  BY <1>2 DEF OrphanInv, DeadRows, Left, Typed, TypeOK, Rows
<1>5. act[a].at = "save" => row'[act[a].session] = "active"
  BY <1>2 DEF OrphanInv, Typed, TypeOK, Rows
<1>6. \/ r.at \in {"mark", "expire", "gone"}
      \/ r.at \in {"persist", "rename"} /\ r.next = "expire"
      => box'[r.session] = "dead"
  BY <1>1, <1>2
<1>7. r.at \notin {"running", "writing"}
  BY <1>1
<1>8. \A s \in Sessions : /\ box[s] = "dead" => box'[s] = "dead"
                          /\ box'[s] = "running" => box[s] = "running"
  BY <1>2
<1> QED
  BY <1>1, <1>3, <1>4, <1>5, <1>6, <1>7, <1>8, StepKeeps

LEMMA CallKeeps ==
  ASSUME Reliable, OrphanInv, Typed', NEW c \in Calls, CallStep(c)
  PROVE  OrphanInv' /\ NoNewOrphan
<1>1. /\ c \in Actors /\ act \in [Actors -> Act] /\ row \in [Sessions -> RowStates]
      /\ box \in [Sessions -> BoxStates] /\ act[c] \in Act
  BY DEF Actors, OrphanInv, Typed, TypeOK, Rows
<1>2. act[c].at \in About => act[c].session \in Sessions
  BY <1>1 DEF OrphanInv, Typed, Placed
<1>3. \A s \in Sessions : /\ row[s] \in Left => box[s] = "dead"
                          /\ saved[s] \in Left => box[s] = "dead"
                          /\ act[c].snap[s] \in Left => box[s] = "dead"
                          /\ NoRows[s] \notin Left
  BY <1>1 DEF OrphanInv, DeadRows, Left, NoRows
<1>4. CASE GateEnter(c) \/ GateWake(c) \/ GateList(c) \/ GateFails(c)
  <2>1. row' = row /\ saved' = saved /\ box' = box /\ act[c].at # "save"
    BY <1>4 DEF GateEnter, GateWake, GateList, GateFails, At, file
  <2>2. \/ Return(c)
        \/ Goto(c, "gateWait") \/ Goto(c, "gateList") \/ Goto(c, "spawn")
    BY <1>4 DEF GateEnter, GateWake, GateList, GateFails
  <2> QED
    BY <1>1, <2>1, <2>2, GotoKeeps, ReturnKeeps
<1>5. CASE SpawnFails(c) \/ RunFails(c)
  BY <1>5 DEF SpawnFails, RunFails
<1>6. CASE Save(c)
  BY <1>1, <1>2, <1>6, UpdateKeeps DEF Save, At, About, Nexts
<1>7. CASE PrepareFails(c)
  <2>1. /\ row' = row /\ saved' = saved
        /\ box' = [box EXCEPT ![act[c].session] = "dead"]
        /\ act[c].session \in Sessions
    BY <1>2, <1>7 DEF PrepareFails, Killed, At, About, file
  <2>2. \A s \in Sessions :
          /\ box[s] = "dead" => box'[s] = "dead"
          /\ box'[s] = "running" => box[s] = "running"
          /\ row'[s] \in Left => box'[s] = "dead"
          /\ saved'[s] \in Left => box'[s] = "dead"
          /\ Idle.snap[s] \in Left => box'[s] = "dead"
    BY <1>1, <1>3, <2>1, IdleIsAct
  <2>3. box'[act[c].session] = "dead"
    BY <1>1, <2>1
  <2> QED
    BY <1>1, <1>7, <2>1, <2>2, <2>3, IdleIsAct, StepKeeps DEF PrepareFails, Return
<1>8. CASE RunRead(c)
  <2>0. row' = row /\ saved' = saved /\ box' = box /\ act[c].at = "running"
    BY <1>8 DEF RunRead, At, file
  <2>1. CASE UseDb
    <3> DEFINE r == [act[c] EXCEPT !.at = "writing",
                                  !.copy = row[act[c].session]]
    <3>1. act' = [act EXCEPT ![c] = r]
      BY <1>1, <1>8, <2>1 DEF RunRead, At
    <3>2. r.at = "writing" /\ r.session = act[c].session
          /\ r.copy = row[act[c].session] /\ r.snap = act[c].snap
      BY <1>1 DEF Act
    <3>3. row[act[c].session] # "none" /\ act[c].session \in Sessions
      BY <1>1, <1>2, <2>0 DEF OrphanInv, RunRows, About
    <3> HIDE DEF r
    <3> QED
      BY <1>1, <1>3, <2>0, <3>1, <3>2, <3>3, StepKeeps
  <2>2. CASE ~UseDb
    <3> DEFINE r == [Idle EXCEPT !.at = "persist"]
    <3>1. act' = [act EXCEPT ![c] = r]
      BY <1>8, <2>2 DEF RunRead
    <3>2. r.at = "persist" /\ r.next = "ran" /\ r.snap = NoRows
      BY IdleIsAct DEF Act
    <3> HIDE DEF r
    <3> QED
      BY <1>1, <2>0, <3>1, <3>2, QuietKeeps
  <2> QED
    BY <2>1, <2>2
<1>9. CASE RunWrite(c)
  <2>1. /\ act[c].at = "writing" /\ act[c].session \in Sessions
        /\ act[c].copy # "none"
        /\ act[c].copy \in Left => box[act[c].session] = "dead"
        /\ act[c].copy \in RowStates
    BY <1>1, <1>2, <1>9 DEF RunWrite, At, About, OrphanInv, Copies, Act
  <2>2. row' = [row EXCEPT ![act[c].session] = act[c].copy] /\ box' = box
        /\ saved' = saved
    BY <1>9 DEF RunWrite, file
  <2>3. \A s \in Sessions :
          /\ row[s] # "none" => row'[s] # "none"
          /\ row'[s] \in Left => box'[s] = "dead"
          /\ box'[s] = "running" /\ row[s] = "active" => row'[s] = "active"
    BY <1>1, <1>3, <2>1, <2>2 DEF Left, RowStates
  <2>4. \A s \in Sessions : /\ saved'[s] \in Left => box'[s] = "dead"
                            /\ Idle.snap[s] \in Left => box'[s] = "dead"
    BY <1>3, <2>2, IdleIsAct
  <2>5. act' = [act EXCEPT ![c] = Idle] /\ act[c].at # "save"
    BY <1>9, <2>1 DEF RunWrite, Return
  <2> QED
    BY <1>1, <2>2, <2>3, <2>4, <2>5, IdleIsAct, StepKeeps
<1>10. CASE DestroyAll(c)
  <2> DEFINE r == [Idle EXCEPT !.at = "each", !.todo = ActiveRows]
  <2>1. r.at = "each" /\ r.snap = NoRows
    BY DEF Idle
  <2> HIDE DEF r
  <2>2. act' = [act EXCEPT ![c] = r] /\ row' = row /\ saved' = saved /\ box' = box
        /\ act[c].at = "idle"
    BY <1>10 DEF DestroyAll, At, r, file
  <2> QED
    BY <1>1, <2>1, <2>2, QuietKeeps
<1>11. ASSUME NEW s \in Sessions, Spawn(c, s) PROVE OrphanInv' /\ NoNewOrphan
  <2> USE DEF OrphanInv
  <2>1. /\ act[c].at = "spawn" /\ box[s] = "none" /\ row' = row /\ saved' = saved
        /\ box' = [box EXCEPT ![s] = "running"]
    BY <1>11 DEF Spawn, At, file
  <2>2. /\ act'[c].at = "save" /\ act'[c].session = s /\ act'[c].snap = act[c].snap
        /\ \A b \in Actors \ {c} : act'[b] = act[b]
    BY <1>1, <1>11 DEF Spawn, GotoWith, Act
  <2>3. \A t \in Sessions : box[t] = "dead" => box'[t] = "dead"
    BY <1>1, <2>1
  <2>4. \A a \in Actors : act[a].at \in About \/ Expiring(a) => act[a].session \in Sessions
    BY DEF Typed, Placed
  <2>5. NoNewOrphan
    <3> SUFFICES ASSUME NEW t \in Sessions, Orphan(t)', ~Orphan(t) PROVE FALSE
      BY DEF NoNewOrphan
    <3>1. CASE t = s
      BY <2>2, <3>1 DEF Orphan, At
    <3>2. CASE t # s
      <4>1. box[t] = "running" /\ row[t] # "active"
        BY <1>1, <2>1, <3>2 DEF Orphan
      <4>2. PICK d \in Calls : act[d].at = "save" /\ act[d].session = t
        BY <4>1 DEF Orphan, At
      <4>3. act'[d] = act[d]
        BY <2>1, <2>2, <4>2 DEF Actors
      <4> QED
        BY <4>2, <4>3 DEF Orphan, At
    <3> QED
      BY <3>1, <3>2
  <2>6. DeadRows'
    <3>1. ASSUME NEW b \in Actors PROVE act'[b].snap = act[b].snap
      BY <2>2
    <3> QED
      BY <2>1, <2>3, <3>1 DEF DeadRows, Left
  <2>7. DeadMarks'
    BY <2>2, <2>3, <2>4 DEF DeadMarks, Dooming, Expiring, About
  <2>8. RunRows' /\ Copies'
    BY <2>1, <2>2, <2>3, <2>4 DEF RunRows, Copies, About, Left
  <2> QED
    BY <2>5, <2>6, <2>7, <2>8
<1>12. ASSUME NEW s \in Sessions, RunStart(c, s) PROVE OrphanInv' /\ NoNewOrphan
  <2> DEFINE r == [act[c] EXCEPT !.at = "running", !.session = s]
  <2>1. r.at = "running" /\ r.session = s /\ r.snap = act[c].snap
    BY <1>1 DEF Act
  <2>2. /\ act' = [act EXCEPT ![c] = r] /\ saved' = saved
        /\ row' = row /\ box' = box /\ act[c].at = "idle" /\ row[s] = "active"
    BY <1>1, <1>12 DEF RunStart, At, GotoWith, file
  <2> HIDE DEF r
  <2> QED
    BY <1>1, <1>3, <2>1, <2>2, StepKeeps
<1>13. ASSUME NEW s \in Sessions, DestroyOne(c, s) \/ DestroyNext(c, s)
       PROVE  OrphanInv' /\ NoNewOrphan
  <2>1. PICK r : /\ act' = [act EXCEPT ![c] = r] /\ r.at = "destroy"
                 /\ r.snap \in {NoRows, act[c].snap}
    <3>1. CASE DestroyOne(c, s)
      <4> DEFINE r == [Idle EXCEPT !.at = "destroy", !.session = s]
      <4>1. act' = [act EXCEPT ![c] = r] /\ r.at = "destroy" /\ r.snap = NoRows
        BY <3>1 DEF DestroyOne, Idle
      <4> QED
        BY <4>1
    <3>2. CASE DestroyNext(c, s)
      <4> DEFINE r == [act[c] EXCEPT !.at = "destroy", !.session = s,
                                    !.todo = @ \ {s}]
      <4>1. act' = [act EXCEPT ![c] = r]
        BY <3>2 DEF DestroyNext
      <4>2. r.at = "destroy" /\ r.snap = act[c].snap
        BY <1>1 DEF Act
      <4> QED
        BY <4>1, <4>2
    <3> QED
      BY <1>13, <3>1, <3>2
  <2>2. row' = row /\ saved' = saved /\ box' = box /\ act[c].at # "save"
    BY <1>13 DEF DestroyOne, DestroyNext, At, file
  <2> QED
    BY <1>1, <2>1, <2>2, QuietKeeps
<1> QED
  BY <1>4, <1>5, <1>6, <1>7, <1>8, <1>9, <1>10, <1>11, <1>12, <1>13 DEF CallStep

LEMMA AnyKeeps ==
  ASSUME Reliable, OrphanInv, Typed', NEW a \in Actors, AnyStep(a)
  PROVE  OrphanInv' /\ NoNewOrphan
<1>1. act \in [Actors -> Act] /\ row \in [Sessions -> RowStates]
      /\ box \in [Sessions -> BoxStates] /\ act[a] \in Act
  BY DEF OrphanInv, Typed, TypeOK, Rows
<1>2. act[a].at \in About => act[a].session \in Sessions
  BY DEF OrphanInv, Typed, Placed
<1>3. \A s \in Sessions : /\ row[s] \in Left => box[s] = "dead"
                          /\ saved[s] \in Left => box[s] = "dead"
                          /\ act[a].snap[s] \in Left => box[s] = "dead"
  BY DEF OrphanInv, DeadRows, Left
<1>4. CASE Finish(a) \/ DestroyFails(a) \/ WriteFails(a)
  BY <1>4, ReturnKeeps DEF Finish, DestroyFails, WriteFails, QueryFails, At, file
<1>5. CASE Kill(a)
  <2> DEFINE r == [act[a] EXCEPT !.at = "mark"]
  <2>1. /\ act' = [act EXCEPT ![a] = r] /\ row' = row /\ saved' = saved
        /\ box' = [box EXCEPT ![act[a].session] = "dead"]
        /\ act[a].at = "destroy" /\ act[a].session \in Sessions
    BY <1>1, <1>2, <1>5 DEF Kill, Killed, Goto, At, About, file
  <2>2. r.at = "mark" /\ r.session = act[a].session /\ r.snap = act[a].snap
    BY <1>1 DEF Act
  <2> HIDE DEF r
  <2>3. \A s \in Sessions :
          /\ box[s] = "dead" => box'[s] = "dead"
          /\ box'[s] = "running" => box[s] = "running"
          /\ row'[s] \in Left => box'[s] = "dead"
          /\ saved'[s] \in Left => box'[s] = "dead"
          /\ r.snap[s] \in Left => box'[s] = "dead"
    BY <1>1, <1>3, <2>1, <2>2
  <2>4. box'[act[a].session] = "dead"
    BY <1>1, <2>1
  <2> QED
    BY <2>1, <2>2, <2>3, <2>4, StepKeeps
<1>6. CASE Spared(a)
  <2>1. /\ GoOn(a, Destroyed(a)) /\ Destroyed(a) \in {"each", "expire"}
        /\ row' = row /\ saved' = saved /\ box' = box /\ act[a].at = "destroy"
    BY <1>6 DEF Spared, Destroyed, At, file
  <2>2. box[act[a].session] = "dead"
    BY <1>2, <1>3, <1>6 DEF Spared, At, About, Left
  <2> QED
    BY <2>1, <2>2, GoesOnKeeps
<1>7. CASE Mark(a)
  <2>1. /\ Update(a, "destroyed", Destroyed(a)) /\ Destroyed(a) \in Nexts
        /\ act[a].at = "mark"
    BY <1>7 DEF Mark, Destroyed, At, Nexts
  <2>2. box[act[a].session] = "dead" /\ act[a].session \in Sessions
    BY <1>2, <2>1 DEF OrphanInv, DeadMarks, Dooming, About
  <2> QED
    BY <2>1, <2>2, UpdateKeeps DEF Left
<1>8. CASE Snapshot(a)
  <2> DEFINE r == [act[a] EXCEPT !.at = "rename", !.snap = row]
  <2>1. act' = [act EXCEPT ![a] = r] /\ row' = row /\ saved' = saved /\ box' = box
        /\ act[a].at = "persist"
    BY <1>8 DEF Snapshot, At
  <2>2. /\ r.at = "rename" /\ r.next = act[a].next /\ r.session = act[a].session
        /\ r.snap = row
    BY <1>1 DEF Act
  <2> HIDE DEF r
  <2>3. r.next = "expire" => box[r.session] = "dead"
    BY <2>1, <2>2 DEF OrphanInv, DeadMarks, Dooming, Expiring
  <2> QED
    BY <1>3, <2>1, <2>2, <2>3, StepKeeps
<1>9. CASE Rename(a)
  <2>1. /\ GoOn(a, act[a].next) /\ row' = row /\ box' = box /\ act[a].at = "rename"
        /\ saved' = act[a].snap \/ saved' = NoRows
    BY <1>9 DEF Rename, At
  <2>2. CASE act[a].next \in {"each", "expire"}
    <3>1. act[a].next = "expire" => box[act[a].session] = "dead"
      BY <2>1 DEF OrphanInv, DeadMarks, Dooming, Expiring
    <3> QED
      BY <2>1, <2>2, <3>1, GoesOnKeeps
  <2>3. CASE act[a].next \in {"saved", "ran"}
    <3>1. act' = [act EXCEPT ![a] = Idle]
      BY <2>1, <2>3 DEF GoOn, Onward
    <3>2. \A s \in Sessions : /\ saved'[s] \in Left => box'[s] = "dead"
                              /\ Idle.snap[s] \in Left => box'[s] = "dead"
      BY <1>3, <2>1, IdleIsAct DEF NoRows, Left
    <3> QED
      BY <1>3, <2>1, <3>1, <3>2, IdleIsAct, StepKeeps
  <2> QED
    BY <1>1, <2>2, <2>3 DEF Act
<1> QED
  BY <1>4, <1>5, <1>6, <1>7, <1>8, <1>9 DEF AnyStep

LEMMA PassKeeps ==
  ASSUME Reliable, OrphanInv, Typed', NEW p \in Passes, PassStep(p)
  PROVE  OrphanInv' /\ NoNewOrphan
<1>1. p \in Actors /\ act \in [Actors -> Act] /\ act[p] \in Act
  BY DEF Actors, OrphanInv, Typed, TypeOK
<1>2. CASE PassStart(p)
  <2> DEFINE r == [Idle EXCEPT !.at = "each", !.todo = ActiveRows,
                              !.late = ActiveRows \cap overdue]
  <2>1. r.at = "each" /\ r.snap = NoRows
    BY DEF Idle
  <2>2. act' = [act EXCEPT ![p] = r] /\ row' = row /\ saved' = saved /\ box' = box
        /\ act[p].at = "idle"
    BY <1>2 DEF PassStart, At, file
  <2> HIDE DEF r
  <2> QED
    BY <1>1, <2>1, <2>2, QuietKeeps
<1>3. CASE Expire(p) \/ MarkGone(p)
  <2>1. /\ act[p].at \in {"expire", "gone"}
        /\ Update(p, "expired", "each") \/ Update(p, "destroyed", "each")
    BY <1>3 DEF Expire, MarkGone, At
  <2>2. box[act[p].session] = "dead" /\ act[p].session \in Sessions
    BY <1>1, <2>1 DEF OrphanInv, DeadMarks, Dooming, Typed, Placed, About
  <2> QED
    BY <1>1, <2>1, <2>2, UpdateKeeps DEF Left, Nexts
<1>4. ASSUME NEW s \in Sessions, PassLate(p, s) PROVE OrphanInv' /\ NoNewOrphan
  <2> DEFINE r == [act[p] EXCEPT !.at = "destroy", !.session = s,
                                !.todo = @ \ {s}, !.late = @ \ {s}]
  <2>1. r.at = "destroy" /\ r.snap = act[p].snap
    BY <1>1 DEF Act
  <2>2. act' = [act EXCEPT ![p] = r] /\ row' = row /\ saved' = saved /\ box' = box
        /\ act[p].at = "each"
    BY <1>1, <1>4 DEF PassLate, At, file
  <2> HIDE DEF r
  <2> QED
    BY <1>1, <2>1, <2>2, QuietKeeps
<1>5. ASSUME NEW s \in Sessions, PassProbe(p, s) PROVE OrphanInv' /\ NoNewOrphan
  <2>1. row' = row /\ saved' = saved /\ box' = box /\ act[p].at = "each"
        /\ s \in act[p].todo
    BY <1>5 DEF PassProbe, At, file
  <2>2. CASE act' = [act EXCEPT ![p].todo = @ \ {s}]
    <3> DEFINE r == [act[p] EXCEPT !.todo = @ \ {s}]
    <3>1. act' = [act EXCEPT ![p] = r]
      BY <2>2
    <3>2. r.at = "each" /\ r.snap = act[p].snap
      BY <1>1, <2>1 DEF Act
    <3> HIDE DEF r
    <3> QED
      BY <1>1, <2>1, <3>1, <3>2, QuietKeeps
  <2>3. CASE /\ Lost(s)
             /\ act' = [act EXCEPT ![p].at = "gone", ![p].session = s,
                                   ![p].todo = @ \ {s}]
    <3> DEFINE r == [act[p] EXCEPT !.at = "gone", !.session = s, !.todo = @ \ {s}]
    <3>1. r.at = "gone" /\ r.session = s /\ r.snap = act[p].snap
      BY <1>1 DEF Act
    <3>2. act' = [act EXCEPT ![p] = r]
      BY <2>3
    <3> HIDE DEF r
    <3>3. box'[s] = "dead"
      BY <2>1, <2>3 DEF Lost
    <3>4. \A t \in Sessions : /\ row'[t] \in Left => box'[t] = "dead"
                              /\ saved'[t] \in Left => box'[t] = "dead"
                              /\ r.snap[t] \in Left => box'[t] = "dead"
      BY <1>1, <2>1, <3>1 DEF OrphanInv, DeadRows
    <3> QED
      BY <1>1, <2>1, <3>1, <3>2, <3>3, <3>4, StepKeeps
  <2> QED
    BY <1>5, <2>2, <2>3 DEF PassProbe
<1> QED
  BY <1>2, <1>3, <1>4, <1>5 DEF PassStep

LEMMA OtherKeeps ==
  ASSUME OrphanInv, Typed',
         \/ UNCHANGED vars
         \/ Restart
         \/ \E s \in Sessions : Overdue(s) \/ Die(s)
  PROVE  OrphanInv' /\ (NoNewOrphan \/ Restart)
<1>1. CASE UNCHANGED vars \/ (\E s \in Sessions : Overdue(s))
  <2>1. row' = row /\ saved' = saved /\ box' = box /\ act' = act
    BY <1>1 DEF vars, file, Overdue
  <2> QED
    BY <2>1 DEF OrphanInv, DeadRows, DeadMarks, Dooming, Expiring, RunRows, Copies,
                NoNewOrphan, Orphan, At
<1>2. CASE Restart
  <2>1. /\ row' = row \/ row' = saved
        /\ saved' = saved /\ box' = box
        /\ \A a \in Actors : act'[a] = Idle
    BY <1>2 DEF Restart
  <2> QED
    BY <1>2, <2>1, IdleIsAct
       DEF OrphanInv, DeadRows, DeadMarks, Dooming, Expiring, RunRows, Copies,
           NoRows, Left
<1>3. ASSUME NEW s \in Sessions, Die(s) PROVE OrphanInv' /\ NoNewOrphan
  <2>1. row' = row /\ saved' = saved /\ act' = act /\ box' = [box EXCEPT ![s] = "dead"]
    BY <1>3 DEF Die, file
  <2>2. \A t \in Sessions : /\ box[t] = "dead" => box'[t] = "dead"
                           /\ box'[t] = "running" => box[t] = "running"
    BY <2>1 DEF OrphanInv, Typed, TypeOK
  <2>3. \A a \in Actors : act[a].at \in About \/ Expiring(a) => act[a].session \in Sessions
    BY DEF OrphanInv, Typed, Placed
  <2>4. NoNewOrphan
    BY <2>1, <2>2 DEF NoNewOrphan, Orphan, At
  <2> QED
    BY <2>1, <2>2, <2>3, <2>4
       DEF OrphanInv, DeadRows, DeadMarks, Dooming, Expiring, RunRows, Copies, About, Left
<1> QED
  BY <1>1, <1>2, <1>3

(* Where requests do not fail, every sandbox that runs is listed as active *)
(* or about to be, but for those that a restart has left behind, however   *)
(* many clients create, run and destroy, and however many passes overlap.  *)
THEOREM NothingForgotten == Reliable => (Spec => NoOrphan)
<1> SUFFICES ASSUME Reliable PROVE Spec => NoOrphan
  OBVIOUS
<1>1. Init /\ Typed => OrphanInv
  BY IdleIsAct
     DEF Init, OrphanInv, DeadRows, DeadMarks, Dooming, Expiring, RunRows, Copies,
         Left, NoRows
<1>2. OrphanInv /\ Typed' /\ [Next]_vars => OrphanInv' /\ (NoNewOrphan \/ Restart)
  <2> SUFFICES ASSUME Typed', OrphanInv, [Next]_vars
               PROVE  OrphanInv' /\ (NoNewOrphan \/ Restart)
    OBVIOUS
  <2>1. Calls \subseteq Actors /\ Passes \subseteq Actors
    BY DEF Actors
  <2> QED
    BY <2>1, CallKeeps, PassKeeps, AnyKeeps, OtherKeeps DEF Next
<1>3. OrphanInv /\ Typed' /\ [Next]_vars =>
        [\A s \in Sessions : ~Orphan(s) /\ Orphan(s)' => Restart]_vars
  BY <1>2 DEF NoNewOrphan
<1> QED
  BY <1>1, <1>2, <1>3, TypeCorrect, PTL DEF Spec, NoOrphan

-----------------------------------------------------------------------------
(* The bound on active sessions.  The invariant counts what may still      *)
(* become active: the sessions that are, or that runCommand may write back *)
(* as such, and the creates past the gate.                                 *)
Writers == {c \in Calls : act[c].at = "writing" /\ act[c].copy = "active"}
Potential == {s \in Sessions : \/ row[s] = "active"
                               \/ \E c \in Writers : act[c].session = s}
Pending == {c \in Calls : act[c].at \in {"spawn", "save"}}
BoundInv ==
  /\ IsFiniteSet(Potential)
  /\ Cardinality(Potential) + Cardinality(Pending) <= MaxActive - 1 + Cardinality(Calls)

LEMMA CallsFinite ==
  IsFiniteSet(Calls) /\ Cardinality(Calls) \in Nat /\ MaxActive \in Nat /\ MaxActive > 0
BY ActorsAssumption, MaxActiveAssumption, FS_CardinalityType

LEMMA CallSubset ==
  ASSUME NEW S \in SUBSET Calls
  PROVE  IsFiniteSet(S) /\ Cardinality(S) \in Nat /\ Cardinality(S) <= Cardinality(Calls)
BY CallsFinite, FS_Subset, FS_CardinalityType

(* A step after which no more can become active than before.               *)
LEMMA ShrinkKeeps ==
  ASSUME BoundInv, Potential' \subseteq Potential, Pending' \subseteq Pending
  PROVE  BoundInv'
<1> DEFINE P == Potential
           Q == Pending
           P1 == Potential'
           Q1 == Pending'
<1>1. /\ IsFiniteSet(P1) /\ Cardinality(P1) <= Cardinality(P)
      /\ Cardinality(P1) \in Nat /\ Cardinality(P) \in Nat
  BY FS_Subset, FS_CardinalityType DEF BoundInv
<1>2. Q \subseteq Calls /\ Q1 \subseteq Calls
  BY DEF Pending
<1>3. Cardinality(Q1) <= Cardinality(Q) /\ Cardinality(Q1) \in Nat /\ Cardinality(Q) \in Nat
  BY <1>2, CallSubset, FS_Subset
<1>4. Cardinality(P) + Cardinality(Q) <= MaxActive - 1 + Cardinality(Calls)
  BY DEF BoundInv
<1>5. Cardinality(P1) + Cardinality(Q1) <= MaxActive - 1 + Cardinality(Calls)
  <2> HIDE DEF P, P1, Q, Q1
  <2> QED
    BY <1>1, <1>3, <1>4, CallsFinite
<1> QED
  BY <1>1, <1>5 DEF BoundInv

(* A create past the gate becomes an active session.                       *)
LEMMA SavedKeeps ==
  ASSUME BoundInv, NEW c \in Pending, NEW s \in Sessions,
         Potential' \subseteq Potential \cup {s}, Pending' \subseteq Pending \ {c}
  PROVE  BoundInv'
<1> DEFINE P == Potential
           Q == Pending
           P1 == Potential'
           Q1 == Pending'
<1>1. /\ IsFiniteSet(P \cup {s}) /\ Cardinality(P \cup {s}) <= Cardinality(P) + 1
      /\ Cardinality(P \cup {s}) \in Nat /\ Cardinality(P) \in Nat
  <2>1. IsFiniteSet(P)
    BY DEF BoundInv
  <2> HIDE DEF P
  <2>2. /\ IsFiniteSet(P \cup {s})
        /\ Cardinality(P \cup {s}) = IF s \in P THEN Cardinality(P) ELSE Cardinality(P) + 1
    BY <2>1, FS_AddElement
  <2>3. Cardinality(P) \in Nat
    BY <2>1, FS_CardinalityType
  <2> QED
    BY <2>2, <2>3
<1>2. /\ IsFiniteSet(P1) /\ Cardinality(P1) <= Cardinality(P) + 1
      /\ Cardinality(P1) \in Nat
  BY <1>1, FS_Subset, FS_CardinalityType
<1>3. /\ IsFiniteSet(Q) /\ Cardinality(Q) \in Nat
      /\ Cardinality(Q \ {c}) = Cardinality(Q) - 1 /\ IsFiniteSet(Q \ {c})
  BY CallSubset, FS_RemoveElement DEF Pending
<1>4. Cardinality(Q1) <= Cardinality(Q) - 1 /\ Cardinality(Q1) \in Nat
  BY <1>3, FS_Subset, FS_CardinalityType
<1>5. Cardinality(P) + Cardinality(Q) <= MaxActive - 1 + Cardinality(Calls)
  BY DEF BoundInv
<1>6. Cardinality(P1) + Cardinality(Q1) <= MaxActive - 1 + Cardinality(Calls)
  <2> HIDE DEF P, P1, Q, Q1
  <2> QED
    BY <1>1, <1>2, <1>3, <1>4, <1>5, CallsFinite
<1> QED
  BY <1>2, <1>6 DEF BoundInv

(* A create passes the gate: few are active, and whatever else may become  *)
(* active is some other call's.                                            *)
LEMMA GateKeeps ==
  ASSUME Typed, BoundInv, NEW c \in Calls, act[c].at = "gateList", ~Full,
         Potential' = Potential, Pending' = Pending \cup {c}
  PROVE  BoundInv'
<1> DEFINE A == ActiveRows
           W == Writers
           T == {act[d].session : d \in W}
           f == [d \in W |-> act[d].session]
           P == Potential
           Q1 == Pending'
<1>1. W \subseteq Calls /\ Q1 \subseteq Calls /\ W \cap Q1 = {}
  BY DEF Writers, Pending
<1>2. /\ IsFiniteSet(W) /\ Cardinality(W) \in Nat
      /\ IsFiniteSet(Q1) /\ Cardinality(Q1) \in Nat
  <2> HIDE DEF W, Q1
  <2> QED
    BY <1>1, CallSubset
<1>3. IsFiniteSet(T) /\ Cardinality(T) \in Nat /\ Cardinality(T) <= Cardinality(W)
  <2>1. f \in Surjection(W, T)
    BY DEF Surjection
  <2> HIDE DEF f, W, T
  <2> QED
    BY <1>2, <2>1, FS_Surjection, FS_CardinalityType
<1>4. A \subseteq P /\ P \subseteq A \cup T
  BY DEF Potential, ActiveRows
<1>5. IsFiniteSet(P) /\ IsFiniteSet(A) /\ Cardinality(A) \in Nat
  BY <1>4, FS_Subset, FS_CardinalityType DEF BoundInv
<1>6. Cardinality(P) \in Nat /\ Cardinality(P) <= Cardinality(A) + Cardinality(T)
  <2> HIDE DEF A, P, T
  <2>1. /\ IsFiniteSet(A \cup T)
        /\ Cardinality(A \cup T)
             = Cardinality(A) + Cardinality(T) - Cardinality(A \cap T)
    BY <1>3, <1>5, FS_Union
  <2>2. Cardinality(A \cap T) \in Nat
    BY <1>5, FS_Intersection, FS_CardinalityType
  <2>3. Cardinality(P) <= Cardinality(A \cup T) /\ Cardinality(P) \in Nat
    BY <1>4, <1>5, <2>1, FS_Subset, FS_CardinalityType
  <2> QED
    BY <1>3, <1>5, <2>1, <2>2, <2>3
<1>7. Cardinality(W) + Cardinality(Q1) <= Cardinality(Calls)
  <2> HIDE DEF W, Q1
  <2>1. Cardinality(W \cup Q1) = Cardinality(W) + Cardinality(Q1) - Cardinality(W \cap Q1)
    BY <1>2, FS_Union
  <2>2. Cardinality(W \cap Q1) = 0
    BY <1>1, FS_EmptySet
  <2>3. Cardinality(W \cup Q1) <= Cardinality(Calls)
    BY <1>1, CallsFinite, FS_Subset
  <2> QED
    BY <1>2, <2>1, <2>2, <2>3
<1>8. Cardinality(A) <= MaxActive - 1
  BY <1>5, CallsFinite DEF Full
<1>9. Cardinality(P) + Cardinality(Q1) <= MaxActive - 1 + Cardinality(Calls)
  <2> HIDE DEF A, P, Q1, T, W
  <2> QED
    BY <1>2, <1>3, <1>5, <1>6, <1>7, <1>8, CallsFinite
<1> QED
  BY <1>5, <1>9 DEF BoundInv

(* An actor that begins no create and takes no copy, and makes no row      *)
(* active that was not.                                                    *)
LEMMA PlainKeeps ==
  ASSUME BoundInv, NEW a \in Actors,
         \A b \in Actors \ {a} : act'[b] = act[b],
         act'[a].at \notin {"writing", "spawn", "save"},
         \A s \in Sessions : row'[s] = "active" => row[s] = "active"
  PROVE  BoundInv'
<1>1. Potential' \subseteq Potential
  BY DEF Potential, Writers, Actors
<1>2. Pending' \subseteq Pending
  BY DEF Pending, Actors
<1> QED
  BY <1>1, <1>2, ShrinkKeeps

(* Where an update, a destroy or a pass moves on to.                       *)
LEMMA Elsewhere ==
  ASSUME Typed, NEW a \in Actors,
         \/ Goto(a, "mark")
         \/ \E next \in Nexts : GoOn(a, next)
         \/ \E state, next : next \in Nexts /\ Update(a, state, next)
  PROVE  /\ \A b \in Actors \ {a} : act'[b] = act[b]
         /\ act'[a].at \notin {"writing", "spawn", "save"}
<1>1. act \in [Actors -> Act]
  BY DEF Typed, TypeOK
<1>2. CASE Goto(a, "mark")
  BY <1>1, <1>2 DEF Goto, Act
<1>3. ASSUME NEW next \in Nexts, GoOn(a, next)
      PROVE  /\ \A b \in Actors \ {a} : act'[b] = act[b]
             /\ act'[a].at \notin {"writing", "spawn", "save"}
  BY <1>1, <1>3, OnwardIs DEF GoOn
<1>4. ASSUME NEW state, NEW next \in Nexts, Update(a, state, next)
      PROVE  /\ \A b \in Actors \ {a} : act'[b] = act[b]
             /\ act'[a].at \notin {"writing", "spawn", "save"}
  <2>1. PICK r \in Act :
          /\ act' = [act EXCEPT ![a] = r]
          /\ r.at \in IF UseDb THEN {"idle", "each", "expire"} ELSE {"persist"}
    BY <1>1, <1>4, UpdateIs
  <2> QED
    BY <1>1, <2>1
<1> QED
  BY <1>2, <1>3, <1>4

(* A write that fails ends the call or the pass.                           *)
LEMMA ReturnElsewhere ==
  ASSUME Typed, NEW a \in Actors, Return(a)
  PROVE  /\ \A b \in Actors \ {a} : act'[b] = act[b]
         /\ act'[a].at = "idle"
BY IdleIsAct DEF Typed, TypeOK, Return

LEMMA CallBound ==
  ASSUME Typed, BoundInv, NEW c \in Calls, CallStep(c) PROVE BoundInv'
<1>1. c \in Actors /\ act \in [Actors -> Act] /\ row \in Rows
      /\ Calls \subseteq Actors
  BY DEF Actors, Typed, TypeOK
<1>2. act[c].at \in About => act[c].session \in Sessions
  BY <1>1 DEF Typed, Placed
<1>3. CASE GateEnter(c) \/ GateWake(c) \/ GateFails(c) \/ (Full /\ GateList(c))
  BY <1>1, <1>3, IdleIsAct, PlainKeeps
     DEF GateEnter, GateWake, GateFails, GateList, Goto, Return, Act
<1>4. CASE ~Full /\ GateList(c)
  <2>1. act[c].at = "gateList" /\ row' = row /\ Goto(c, "spawn")
    BY <1>4 DEF GateList, At
  <2>2. /\ act'[c].at = "spawn"
        /\ \A b \in Actors \ {c} : act'[b] = act[b]
    BY <1>1, <2>1 DEF Goto, Act
  <2>3. Pending' = Pending \cup {c}
    BY <1>1, <2>2 DEF Pending
  <2>4. Writers' = Writers
    BY <1>1, <2>1, <2>2 DEF Writers
  <2>5. Potential' = Potential
    BY <1>1, <2>1, <2>2, <2>4 DEF Potential, Writers
  <2> QED
    BY <1>4, <2>1, <2>3, <2>5, GateKeeps
<1>5. CASE Save(c)
  <2> DEFINE s == act[c].session
  <2>1. act[c].at = "save" /\ s \in Sessions /\ Update(c, "active", "saved")
    BY <1>2, <1>5 DEF Save, At, About
  <2>2. /\ act'[c].at \notin {"writing", "spawn", "save"}
        /\ \A b \in Actors \ {c} : act'[b] = act[b]
    BY <1>1, <2>1, Elsewhere DEF Nexts
  <2>3. \A t \in Sessions \ {s} : row'[t] = row[t]
    BY <1>1, <2>1 DEF Update, Rows
  <2>4. c \in Pending /\ Pending' \subseteq Pending \ {c}
    BY <1>1, <2>1, <2>2 DEF Pending
  <2>5. Potential' \subseteq Potential \cup {s}
    BY <1>1, <2>2, <2>3 DEF Potential, Writers
  <2> HIDE DEF s
  <2> QED
    BY <2>1, <2>4, <2>5, SavedKeeps
<1>6. CASE SpawnFails(c) \/ PrepareFails(c) \/ RunFails(c)
  BY <1>1, <1>6, IdleIsAct, PlainKeeps DEF SpawnFails, PrepareFails, RunFails, Return
<1>7. CASE RunRead(c)
  <2>1. row' = row /\ act[c].at = "running" /\ act[c].session \in Sessions
    BY <1>2, <1>7 DEF RunRead, At, About
  <2>2. CASE UseDb
    <3>1. /\ act'[c].at = "writing" /\ act'[c].session = act[c].session
          /\ act'[c].copy = row[act[c].session]
          /\ \A b \in Actors \ {c} : act'[b] = act[b]
      BY <1>1, <1>7, <2>2 DEF RunRead, Act
    <3>2. Pending' \subseteq Pending
      BY <1>1, <3>1 DEF Pending
    <3>3. Potential' \subseteq Potential
      BY <1>1, <2>1, <3>1 DEF Potential, Writers
    <3> QED
      BY <3>2, <3>3, ShrinkKeeps
  <2>3. CASE ~UseDb
    BY <1>1, <1>7, <2>1, <2>3, IdleIsAct, PlainKeeps DEF RunRead, Act
  <2> QED
    BY <2>2, <2>3
<1>8. CASE RunWrite(c)
  <2>1. /\ act[c].at = "writing" /\ act[c].session \in Sessions
        /\ row' = [row EXCEPT ![act[c].session] = act[c].copy]
        /\ act'[c].at = "idle" /\ \A b \in Actors \ {c} : act'[b] = act[b]
    BY <1>1, <1>2, <1>8, IdleIsAct DEF RunWrite, At, About, Return
  <2>2. Pending' \subseteq Pending
    BY <1>1, <2>1 DEF Pending
  <2>3. Potential' \subseteq Potential
    BY <1>1, <2>1 DEF Potential, Writers
  <2> QED
    BY <2>2, <2>3, ShrinkKeeps
<1>9. CASE DestroyAll(c)
  BY <1>1, <1>9, PlainKeeps DEF DestroyAll, Idle
<1>10. ASSUME NEW s \in Sessions, Spawn(c, s) PROVE BoundInv'
  <2>1. /\ act[c].at = "spawn" /\ act'[c].at = "save" /\ row' = row
        /\ \A b \in Actors \ {c} : act'[b] = act[b]
    BY <1>1, <1>10 DEF Spawn, At, GotoWith, Act
  <2>2. Pending' \subseteq Pending
    BY <1>1, <2>1 DEF Pending
  <2>3. Potential' \subseteq Potential
    BY <1>1, <2>1 DEF Potential, Writers
  <2> QED
    BY <2>2, <2>3, ShrinkKeeps
<1>11. ASSUME NEW s \in Sessions, RunStart(c, s) \/ DestroyNext(c, s)
       PROVE  BoundInv'
  BY <1>1, <1>11, PlainKeeps DEF RunStart, DestroyNext, GotoWith, Act
<1>12. ASSUME NEW s \in Sessions, DestroyOne(c, s) PROVE BoundInv'
  BY <1>1, <1>12, PlainKeeps DEF DestroyOne, Idle
<1> QED
  BY <1>3, <1>4, <1>5, <1>6, <1>7, <1>8, <1>9, <1>10, <1>11, <1>12 DEF CallStep

LEMMA PassBound ==
  ASSUME Typed, BoundInv, NEW p \in Passes, PassStep(p) PROVE BoundInv'
<1>1. p \in Actors /\ act \in [Actors -> Act] /\ row \in Rows
  BY DEF Actors, Typed, TypeOK
<1>2. CASE PassStart(p)
  BY <1>1, <1>2, PlainKeeps DEF PassStart, Idle
<1>3. CASE Expire(p) \/ MarkGone(p)
  <2>1. \A s \in Sessions : row'[s] = "active" => row[s] = "active"
    BY <1>1, <1>3 DEF Expire, MarkGone, Update, Rows
  <2>2. Update(p, "expired", "each") \/ Update(p, "destroyed", "each")
    BY <1>3 DEF Expire, MarkGone
  <2> QED
    BY <1>1, <2>1, <2>2, Elsewhere, PlainKeeps DEF Nexts
<1>5. ASSUME NEW s \in Sessions, PassLate(p, s) \/ PassProbe(p, s)
      PROVE  BoundInv'
  BY <1>1, <1>5, PlainKeeps DEF PassLate, PassProbe, At, Act
<1> QED
  BY <1>2, <1>3, <1>5 DEF PassStep

LEMMA AnyBound ==
  ASSUME Typed, BoundInv, NEW a \in Actors, AnyStep(a) PROVE BoundInv'
<1>1. act \in [Actors -> Act] /\ row \in Rows /\ act[a] \in Act
  BY DEF Typed, TypeOK
<1>2. CASE Finish(a) \/ DestroyFails(a) \/ WriteFails(a)
  <2>1. Return(a) /\ row' = row
    BY <1>2 DEF Finish, DestroyFails, WriteFails
  <2> QED
    BY <2>1, ReturnElsewhere, PlainKeeps
<1>3. CASE Kill(a) \/ Spared(a) \/ Mark(a)
  <2>1. \A s \in Sessions : row'[s] = "active" => row[s] = "active"
    BY <1>1, <1>3 DEF Spared, Kill, Mark, Update, Rows
  <2>2. Destroyed(a) \in Nexts
    BY DEF Destroyed, Nexts
  <2>3. Goto(a, "mark") \/ GoOn(a, Destroyed(a)) \/ Update(a, "destroyed", Destroyed(a))
    BY <1>3 DEF Spared, Kill, Mark
  <2> QED
    BY <2>1, <2>2, <2>3, Elsewhere, PlainKeeps
<1>4. CASE Snapshot(a)
  <2>1. row' = row /\ act'[a].at = "rename" /\ \A b \in Actors \ {a} : act'[b] = act[b]
    BY <1>1, <1>4 DEF Snapshot, Act
  <2> QED
    BY <2>1, PlainKeeps
<1>5. CASE Rename(a)
  <2>1. row' = row /\ GoOn(a, act[a].next) /\ act[a].next \in Nexts
    BY <1>1, <1>5 DEF Rename, Act, Nexts
  <2> QED
    BY <2>1, Elsewhere, PlainKeeps
<1> QED
  BY <1>2, <1>3, <1>4, <1>5 DEF AnyStep

(* The rows of a file are rows that the registry had before.               *)
ActiveIn(rows) == {s \in Sessions : rows[s] = "active"}
Within(rows) ==
  /\ IsFiniteSet(ActiveIn(rows))
  /\ Cardinality(ActiveIn(rows)) <= MaxActive - 1 + Cardinality(Calls)
FileInv == Within(saved) /\ \A a \in Actors : Within(act[a].snap)

LEMMA WithinRow == BoundInv => Within(row) /\ Within(NoRows)
<1>1. Within(NoRows)
  <2>1. ActiveIn(NoRows) = {}
    BY DEF ActiveIn, NoRows
  <2> QED
    BY <2>1, FS_EmptySet, CallsFinite DEF Within
<1>2. ASSUME BoundInv PROVE Within(row)
  <2>1. ActiveIn(row) \subseteq Potential /\ Pending \subseteq Calls
    BY DEF ActiveIn, Potential, Pending
  <2>2. /\ IsFiniteSet(ActiveIn(row))
        /\ Cardinality(ActiveIn(row)) <= Cardinality(Potential)
        /\ Cardinality(ActiveIn(row)) \in Nat /\ Cardinality(Potential) \in Nat
    BY <1>2, <2>1, FS_Subset, FS_CardinalityType DEF BoundInv
  <2>3. Cardinality(Pending) \in Nat
    BY <2>1, CallSubset
  <2> QED
    BY <1>2, <2>2, <2>3, CallsFinite DEF BoundInv, Within
<1> QED
  BY <1>1, <1>2

(* Where snapshots come from, and the file.                                *)
LEMMA SnapSources ==
  ASSUME Typed, [Next]_vars, NEW a \in Actors
  PROVE  act'[a].snap \in {act[a].snap, NoRows, row}
<1> DEFINE Same(r, b) == r.snap \in {act[b].snap, NoRows, row}
<1>1. act \in [Actors -> Act] /\ Calls \subseteq Actors /\ Passes \subseteq Actors
  BY DEF Typed, TypeOK, Actors
<1>2. ASSUME NEW b \in Actors, NEW r, act' = [act EXCEPT ![b] = r], Same(r, b)
      PROVE  Same(act'[a], a)
  BY <1>1, <1>2
<1> HIDE DEF Same
<1>3. ASSUME NEW b \in Actors, Return(b) PROVE Same(act'[a], a)
  BY <1>2, <1>3, IdleIsAct DEF Return, Same
<1>4. ASSUME NEW b \in Actors, NEW next \in Nexts, GoOn(b, next) PROVE Same(act'[a], a)
  BY <1>1, <1>2, <1>4, OnwardIs DEF GoOn, Same
<1>5. ASSUME NEW b \in Actors, NEW state, NEW next \in Nexts, Update(b, state, next)
      PROVE  Same(act'[a], a)
  BY <1>1, <1>2, <1>5, UpdateIs DEF Same
<1>6. ASSUME NEW b \in Actors, act'[b].snap = act[b].snap \/ act'[b].snap = NoRows,
             \A d \in Actors \ {b} : act'[d] = act[d]
      PROVE  Same(act'[a], a)
  BY <1>6 DEF Same
<1>7. ASSUME NEW c \in Calls, CallStep(c) PROVE Same(act'[a], a)
  <2>1. CASE Return(c)
    BY <1>1, <1>3, <2>1
  <2>2. CASE Save(c)
    BY <1>1, <1>5, <2>2 DEF Save, Nexts
  <2>3. CASE GateEnter(c) \/ GateWake(c) \/ (GateList(c) /\ ~Return(c))
    BY <1>1, <1>6, <2>3 DEF GateEnter, GateWake, GateList, Goto, Act
  <2>4. CASE RunRead(c)
    BY <1>1, <1>6, <2>4, IdleIsAct DEF RunRead, Act
  <2>5. CASE DestroyAll(c)
    BY <1>1, <1>6, <2>5 DEF DestroyAll, Idle
  <2>6. ASSUME NEW s \in Sessions, Spawn(c, s) \/ RunStart(c, s) \/ DestroyNext(c, s)
        PROVE  Same(act'[a], a)
    BY <1>1, <1>6, <2>6 DEF Spawn, RunStart, DestroyNext, GotoWith, Act
  <2>7. ASSUME NEW s \in Sessions, DestroyOne(c, s) PROVE Same(act'[a], a)
    BY <1>1, <1>6, <2>7 DEF DestroyOne, Idle
  <2> QED
    BY <1>7, <2>1, <2>2, <2>3, <2>4, <2>5, <2>6, <2>7
       DEF CallStep, GateFails, SpawnFails, PrepareFails, RunWrite, RunFails
<1>8. ASSUME NEW p \in Passes, PassStep(p) PROVE Same(act'[a], a)
  <2>1. CASE PassStart(p)
    BY <1>1, <1>6, <2>1 DEF PassStart, Idle
  <2>2. CASE Expire(p) \/ MarkGone(p)
    BY <1>1, <1>5, <2>2 DEF Expire, MarkGone, Nexts
  <2>3. ASSUME NEW s \in Sessions, PassLate(p, s) \/ PassProbe(p, s)
        PROVE  Same(act'[a], a)
    BY <1>1, <1>6, <2>3 DEF PassLate, PassProbe, Act
  <2> QED
    BY <1>8, <2>1, <2>2, <2>3 DEF PassStep
<1>9. ASSUME NEW b \in Actors, AnyStep(b) PROVE Same(act'[a], a)
  <2>1. CASE Return(b)
    BY <1>3, <2>1
  <2>2. CASE Spared(b) \/ Rename(b)
    BY <1>1, <1>4, <2>2 DEF Spared, Rename, Destroyed, Nexts, Act
  <2>3. CASE Mark(b)
    BY <1>5, <2>3 DEF Mark, Destroyed, Nexts
  <2>4. CASE Kill(b)
    BY <1>1, <1>6, <2>4 DEF Kill, Goto, Act
  <2>5. CASE Snapshot(b)
    <3>1. /\ act'[b].snap = row
          /\ \A d \in Actors \ {b} : act'[d] = act[d]
      BY <1>1, <2>5 DEF Snapshot, Act
    <3> QED
      BY <3>1 DEF Same
  <2> QED
    BY <1>9, <2>1, <2>2, <2>3, <2>4, <2>5 DEF AnyStep, Finish, DestroyFails, WriteFails
<1>10. CASE Restart
  BY <1>10, IdleIsAct DEF Restart, Same
<1>11. CASE UNCHANGED vars \/ \E s \in Sessions : Overdue(s) \/ Die(s)
  BY <1>11 DEF vars, Overdue, Die, Same
<1> QED
  BY <1>1, <1>7, <1>8, <1>9, <1>10, <1>11 DEF Next, Same

LEMMA FileSources ==
  ASSUME [Next]_vars
  PROVE  \/ saved' \in {saved, NoRows}
         \/ \E a \in Actors : saved' = act[a].snap
<1>1. ASSUME NEW c \in Calls, CallStep(c) PROVE saved' = saved
  BY <1>1 DEF CallStep, GateEnter, GateWake, GateList, GateFails, SpawnFails, Save,
              Update, PrepareFails, RunRead, RunWrite, RunFails, DestroyAll, Spawn,
              RunStart, DestroyOne, DestroyNext, file
<1>2. ASSUME NEW p \in Passes, PassStep(p) PROVE saved' = saved
  BY <1>2 DEF PassStep, PassStart, Expire, MarkGone, Update, PassLate, PassProbe, file
<1>3. ASSUME NEW a \in Actors, AnyStep(a)
      PROVE  saved' \in {saved, NoRows, act[a].snap}
  BY <1>3 DEF AnyStep, Finish, Spared, DestroyFails, Kill, Mark, Update, Snapshot,
              Rename, WriteFails, file
<1>4. CASE UNCHANGED vars \/ Restart \/ \E s \in Sessions : Overdue(s) \/ Die(s)
  BY <1>4 DEF vars, file, Restart, Overdue, Die
<1> QED
  BY <1>1, <1>2, <1>3, <1>4 DEF Next, Actors

LEMMA FileKeeps ==
  ASSUME Typed, BoundInv, FileInv, [Next]_vars PROVE FileInv'
<1>1. Within(saved')
  BY FileSources, WithinRow DEF FileInv
<1>2. ASSUME NEW a \in Actors PROVE Within(act'[a].snap)
  BY SnapSources, WithinRow DEF FileInv
<1> QED
  BY <1>1, <1>2 DEF FileInv, Within, ActiveIn

LEMMA OtherBound ==
  ASSUME Typed, BoundInv, FileInv,
         \/ UNCHANGED vars
         \/ Restart
         \/ \E s \in Sessions : Overdue(s) \/ Die(s)
  PROVE  BoundInv'
<1>1. CASE Restart
  <2>1. \A c \in Calls : act'[c].at = "idle"
    BY <1>1, IdleIsAct DEF Restart, Actors
  <2>2. Potential' = ActiveIn(row') /\ Pending' = {}
    BY <2>1 DEF Potential, Writers, Pending, ActiveIn
  <2>3. Within(row')
    BY <1>1, WithinRow DEF Restart, FileInv
  <2>4. Cardinality({}) = 0
    BY FS_EmptySet
  <2>5. Cardinality(Potential') \in Nat
    BY <2>2, <2>3, FS_CardinalityType DEF Within
  <2>6. Cardinality(Potential') + Cardinality(Pending') <= MaxActive - 1 + Cardinality(Calls)
    BY <2>2, <2>3, <2>4, <2>5 DEF Within
  <2> QED
    BY <2>2, <2>3, <2>6 DEF BoundInv, Within
<1>2. CASE UNCHANGED vars \/ \E s \in Sessions : Overdue(s) \/ Die(s)
  <2>1. row' = row /\ act' = act
    BY <1>2 DEF vars, Overdue, Die
  <2>2. Potential' = Potential /\ Pending' = Pending
    BY <2>1 DEF Potential, Writers, Pending
  <2> QED
    BY <2>2, ShrinkKeeps
<1> QED
  BY <1>1, <1>2

(* However the creates, commands, destroys, passes, failures and restarts  *)
(* interleave, the active sessions exceed the configured maximum by less   *)
(* than the number of calls in flight.                                     *)
THEOREM OvershootBounded == Spec => []ActiveOvershoot
<1>1. Init => BoundInv /\ FileInv
  <2> SUFFICES ASSUME Init PROVE BoundInv /\ FileInv
    OBVIOUS
  <2>1. Potential = {} /\ Pending = {}
    BY IdleIsAct DEF Init, NoRows, Potential, Pending, Writers, Actors
  <2> QED
    <3>1. BoundInv
      BY <2>1, CallsFinite, FS_EmptySet DEF BoundInv
    <3>2. FileInv
      BY <3>1, WithinRow, IdleIsAct DEF Init, FileInv
    <3> QED
      BY <3>1, <3>2
<1>2. Typed /\ BoundInv /\ FileInv /\ [Next]_vars => BoundInv' /\ FileInv'
  <2> SUFFICES ASSUME Typed, BoundInv, FileInv, [Next]_vars PROVE BoundInv' /\ FileInv'
    OBVIOUS
  <2>1. Calls \subseteq Actors /\ Passes \subseteq Actors
    BY DEF Actors
  <2> QED
    BY <2>1, CallBound, PassBound, AnyBound, OtherBound, FileKeeps DEF Next
<1>3. BoundInv => ActiveOvershoot
  <2> SUFFICES ASSUME BoundInv PROVE ActiveOvershoot
    OBVIOUS
  <2>1. ActiveRows \subseteq Potential /\ Pending \subseteq Calls
    BY DEF ActiveRows, Potential, Pending
  <2>2. /\ Cardinality(ActiveRows) <= Cardinality(Potential)
        /\ Cardinality(ActiveRows) \in Nat /\ Cardinality(Potential) \in Nat
    BY <2>1, FS_Subset, FS_CardinalityType DEF BoundInv
  <2>3. Cardinality(Pending) \in Nat
    BY <2>1, CallSubset
  <2> QED
    BY <2>2, <2>3, CallsFinite DEF BoundInv, ActiveOvershoot
<1> QED
  BY <1>1, <1>2, <1>3, TypeCorrect, PTL DEF Spec

-----------------------------------------------------------------------------
(* With files a session comes back only by a restart on an older file.     *)
(* Else only createWorkerSession makes a row active there, and what it     *)
(* saves is new: its sandbox exists, its row does not, and no other call   *)
(* has it, because all the others got theirs from the rows.                *)
Known == {"running", "destroy", "mark", "expire", "gone"}
Unsaved == \A a \in Actors : act[a].at = "save" =>
  /\ row[act[a].session] = "none"
  /\ box[act[a].session] # "none"
OneCreate == \A a, b \in Actors :
  act[a].at = "save" /\ act[b].at = "save" /\ act[a].session = act[b].session => a = b
FromRows == \A a \in Actors :
  /\ act[a].at \in Known \/ Expiring(a) => row[act[a].session] # "none"
  /\ \A s \in act[a].todo : row[s] # "none"
Unspawned == \A s \in Sessions : box[s] = "none" =>
  /\ row[s] = "none" /\ saved[s] = "none"
  /\ \A a \in Actors : act[a].snap[s] = "none"
NoCopies == \A a \in Actors : act[a].at # "writing"
FreshInv == Typed /\ Unsaved /\ OneCreate /\ FromRows /\ Unspawned /\ NoCopies

(* What a step comes to: one record changes, no row and no sandbox is      *)
(* unmade, only the call that saves it makes a row, and the new record     *)
(* What a step of a to the record r does to the rows and the sandboxes.     *)
FreshStepOf(a, r) ==
  /\ \A s \in Sessions :
       /\ row[s] # "none" => row'[s] # "none"
       /\ box[s] # "none" => box'[s] # "none"
       /\ row[s] = "none" /\ row'[s] # "none" =>
            act[a].at = "save" /\ act[a].session = s
       /\ box[s] = "none" => saved'[s] = "none" /\ r.snap[s] = "none"
  /\ r.at # "writing"
  /\ r.at = "save" =>
       /\ row'[r.session] = "none" /\ box'[r.session] # "none"
       /\ \A b \in Actors : act[b].at = "save" => act[b].session # r.session
  /\ r.at \in Known \/ (r.at \in {"persist", "rename"} /\ r.next = "expire")
       => row'[r.session] # "none"
  /\ \A s \in r.todo : row'[s] # "none"

(* satisfies the invariant.                                                *)
LEMMA FreshStep ==
  ASSUME FreshInv, Typed', NEW a \in Actors, NEW r, act' = [act EXCEPT ![a] = r],
         FreshStepOf(a, r)
  PROVE  FreshInv'
<1> USE DEF FreshInv, FreshStepOf
<1>1. act'[a] = r /\ \A b \in Actors \ {a} : act'[b] = act[b]
  BY DEF Typed, TypeOK
<1>2. \A b \in Actors : act[b].at \in About \/ Expiring(b) => act[b].session \in Sessions
  BY DEF Typed, Placed
<1>3. \A b \in Actors : act[b].todo \subseteq Sessions
  BY DEF Typed, TypeOK, Act
<1>4. Unsaved'
  <2> SUFFICES ASSUME NEW b \in Actors, act'[b].at = "save"
               PROVE  row'[act'[b].session] = "none" /\ box'[act'[b].session] # "none"
    BY DEF Unsaved
  <2>1. CASE b = a
    BY <1>1, <2>1
  <2>2. CASE b # a
    <3>1. /\ act'[b] = act[b] /\ act[b].session \in Sessions
          /\ row[act[b].session] = "none" /\ box[act[b].session] # "none"
      BY <1>1, <1>2, <2>2 DEF Unsaved, About
    <3>2. ~(act[a].at = "save" /\ act[a].session = act[b].session)
      BY <2>2, <3>1 DEF OneCreate
    <3> QED
      BY <3>1, <3>2
  <2> QED
    BY <2>1, <2>2
<1>5. OneCreate'
  BY <1>1 DEF OneCreate
<1>6. FromRows'
  <2> SUFFICES ASSUME NEW b \in Actors
               PROVE  /\ act'[b].at \in Known \/ Expiring(b)' =>
                           row'[act'[b].session] # "none"
                      /\ \A s \in act'[b].todo : row'[s] # "none"
    BY DEF FromRows
  <2>1. CASE b = a
    BY <1>1, <2>1 DEF Expiring
  <2>2. CASE b # a
    BY <1>1, <1>2, <1>3, <2>2 DEF FromRows, Known, About, Expiring
  <2> QED
    BY <2>1, <2>2
<1>7. Unspawned'
  <2> SUFFICES ASSUME NEW s \in Sessions, box'[s] = "none"
               PROVE  /\ row'[s] = "none" /\ saved'[s] = "none"
                      /\ \A b \in Actors : act'[b].snap[s] = "none"
    BY DEF Unspawned
  <2>1. box[s] = "none" /\ row[s] = "none"
    BY DEF Unspawned
  <2>2. row'[s] = "none"
    BY <2>1 DEF Unsaved
  <2>3. \A b \in Actors : act'[b].snap[s] = "none"
    BY <1>1, <2>1 DEF Unspawned
  <2> QED
    BY <2>1, <2>2, <2>3
<1>8. NoCopies'
  BY <1>1 DEF NoCopies
<1> QED
  BY <1>4, <1>5, <1>6, <1>7, <1>8

(* A step that does not touch the rows and unmakes no sandbox.             *)
LEMMA FreshQuiet ==
  ASSUME FreshInv, Typed', NEW a \in Actors, NEW r, act' = [act EXCEPT ![a] = r],
         row' = row, saved' = saved \/ saved' = NoRows \/ saved' = act[a].snap,
         \A s \in Sessions : box[s] # "none" => box'[s] # "none",
         r.at \notin {"writing", "save"},
         r.snap \in {act[a].snap, NoRows, row},
         \/ r.at \in Known
         \/ r.at \in {"persist", "rename"} /\ r.next = "expire"
         => row[r.session] # "none",
         \A s \in r.todo : row[s] # "none"
  PROVE  FreshInv'
<1>1. \A s \in Sessions : box[s] = "none" => saved'[s] = "none" /\ r.snap[s] = "none"
  BY DEF FreshInv, Unspawned, NoRows
<1>2. FreshStepOf(a, r)
  BY <1>1 DEF FreshStepOf
<1> QED
  BY <1>2, FreshStep

(* Its record is replaced by the idle one: the call or the pass ends.      *)
LEMMA FreshReturn ==
  ASSUME FreshInv, Typed', NEW a \in Actors, Return(a), row' = row, saved' = saved,
         \A s \in Sessions : box[s] # "none" => box'[s] # "none"
  PROVE  FreshInv'
BY IdleIsAct, FreshQuiet DEF Return, Known

(* It moves on along its steps.                                            *)
LEMMA FreshMove ==
  ASSUME FreshInv, Typed', NEW a \in Actors, row' = row, saved' = saved,
         NEW step \in {"gateWait", "gateList", "spawn", "mark"}, Goto(a, step),
         step = "mark" => act[a].at \in Known,
         \A s \in Sessions : box[s] # "none" => box'[s] # "none"
  PROVE  FreshInv'
<1>1. act[a] \in Act /\ act[a].todo \subseteq Sessions
  BY DEF FreshInv, Typed, TypeOK, Act
<1> DEFINE r == [act[a] EXCEPT !.at = step]
<1>2. act' = [act EXCEPT ![a] = r]
  BY DEF Goto
<1>3. r.at = step /\ r.todo = act[a].todo /\ r.session = act[a].session
      /\ r.snap = act[a].snap
  BY <1>1 DEF Act
<1> HIDE DEF r
<1>4. r.at \in Known => row[r.session] # "none"
  BY <1>3 DEF Known, FreshInv, FromRows
<1>5. \A s \in r.todo : row[s] # "none"
  BY <1>3 DEF FreshInv, FromRows
<1> QED
  BY <1>2, <1>3, <1>4, <1>5, FreshQuiet

(* It goes on after an update, or a destroy with nothing to do.            *)
LEMMA FreshGoesOn ==
  ASSUME FreshInv, Typed', NEW a \in Actors, NEW next \in Nexts, GoOn(a, next),
         row' = row, saved' = saved \/ saved' = NoRows \/ saved' = act[a].snap,
         box' = box, next = "expire" => act[a].at \in Known \/ Expiring(a)
  PROVE  FreshInv'
<1> DEFINE r == Onward(a, next)
<1>1. /\ act' = [act EXCEPT ![a] = r] /\ r.snap = NoRows
      /\ r.at \in {"idle", "each", "expire"} /\ r.todo \in {act[a].todo, {}}
      /\ r.at = "expire" => next = "expire" /\ r.session = act[a].session
  BY OnwardIs DEF GoOn, FreshInv, Typed, TypeOK
<1> HIDE DEF r
<1>2. r.at \in Known => row[r.session] # "none"
  BY <1>1 DEF Known, FreshInv, FromRows
<1>3. \A s \in r.todo : row[s] # "none"
  BY <1>1 DEF FreshInv, FromRows
<1> QED
  BY <1>1, <1>2, <1>3, FreshQuiet

(* It updates a row, which only a save makes.                              *)
LEMMA FreshUpdate ==
  ASSUME FreshInv, Typed', NEW a \in Actors,
         NEW state \in {"active", "expired", "destroyed"}, NEW next \in Nexts,
         Update(a, state, next), act[a].at \in Known \cup {"save"},
         next = "expire" => act[a].at \in Known
  PROVE  FreshInv'
<1>1. PICK r \in Act :
        /\ act' = [act EXCEPT ![a] = r]
        /\ r.at \in IF UseDb THEN {"idle", "each", "expire"} ELSE {"persist"}
        /\ r.at = "expire" => next = "expire"
        /\ r.at = "persist" => r.next = next
        /\ next = "expire" => r.session = act[a].session
        /\ r.todo \in {act[a].todo, {}}
        /\ r.snap \in {act[a].snap, NoRows}
  BY UpdateIs DEF FreshInv, Typed, TypeOK
<1>2. act[a].session \in Sessions /\ row \in Rows /\ act[a].todo \subseteq Sessions
  BY DEF FreshInv, Typed, Placed, TypeOK, Known, About, Act
<1>3. row' = [row EXCEPT ![act[a].session] = state] /\ saved' = saved /\ box' = box
  BY DEF Update, file
<1>4. \A s \in Sessions : /\ row[s] # "none" => row'[s] # "none"
                          /\ row[s] = "none" /\ row'[s] # "none" =>
                               act[a].at = "save" /\ act[a].session = s
  BY <1>2, <1>3 DEF Rows, FreshInv, FromRows
<1>5. \A s \in Sessions : box[s] = "none" => saved'[s] = "none" /\ r.snap[s] = "none"
  BY <1>1, <1>3 DEF FreshInv, Unspawned, NoRows
<1>6. row'[act[a].session] # "none"
  BY <1>2, <1>3 DEF Rows
<1>7. r.at \in Known \/ (r.at \in {"persist", "rename"} /\ r.next = "expire")
        => row'[r.session] # "none"
  BY <1>1, <1>6 DEF Known
<1>8. \A s \in r.todo : row'[s] # "none"
  BY <1>1, <1>2, <1>4 DEF FreshInv, FromRows
<1>9. \A s \in Sessions : box[s] # "none" => box'[s] # "none"
  BY <1>3
<1>10. r.at \notin {"writing", "save"}
  BY <1>1
<1>11. \A s \in Sessions :
         /\ row[s] # "none" => row'[s] # "none"
         /\ box[s] # "none" => box'[s] # "none"
         /\ row[s] = "none" /\ row'[s] # "none" =>
              act[a].at = "save" /\ act[a].session = s
         /\ box[s] = "none" => saved'[s] = "none" /\ r.snap[s] = "none"
  BY <1>4, <1>5, <1>9
<1>12. /\ r.at # "writing"
       /\ r.at = "save" =>
            /\ row'[r.session] = "none" /\ box'[r.session] # "none"
            /\ \A b \in Actors : act[b].at = "save" => act[b].session # r.session
  BY <1>10
<1>13. act' = [act EXCEPT ![a] = r]
  BY <1>1
<1>14. FreshStepOf(a, r)
  BY <1>7, <1>8, <1>11, <1>12 DEF FreshStepOf
<1> QED
  BY <1>13, <1>14, FreshStep

LEMMA CallFresh ==
  ASSUME ~UseDb, FreshInv, Typed', NEW c \in Calls, CallStep(c)
  PROVE  FreshInv'
<1>1. c \in Actors /\ act \in [Actors -> Act] /\ row \in Rows
      /\ box \in [Sessions -> BoxStates]
  BY DEF Actors, FreshInv, Typed, TypeOK
<1>2. act[c].at \in About => act[c].session \in Sessions
  BY <1>1 DEF FreshInv, Typed, Placed
<1>3. act[c] \in Act /\ act[c].todo \subseteq Sessions
      /\ \A s \in act[c].todo : row[s] # "none"
  BY <1>1 DEF Act, FreshInv, FromRows
<1>4. CASE GateEnter(c) \/ GateWake(c) \/ GateList(c) \/ GateFails(c)
  <2>1. row' = row /\ saved' = saved /\ box' = box
    BY <1>4 DEF GateEnter, GateWake, GateList, GateFails, file
  <2>2. \/ Return(c)
        \/ \E step \in {"gateWait", "gateList", "spawn"} : Goto(c, step)
    BY <1>4 DEF GateEnter, GateWake, GateList, GateFails
  <2> QED
    BY <1>1, <2>1, <2>2, FreshMove, FreshReturn
<1>5. CASE SpawnFails(c) \/ RunFails(c) \/ PrepareFails(c)
  <2>1. Return(c) /\ row' = row /\ saved' = saved
    BY <1>5 DEF SpawnFails, RunFails, PrepareFails, file
  <2>2. \A s \in Sessions : box[s] # "none" => box'[s] # "none"
    BY <1>1, <1>5 DEF SpawnFails, RunFails, PrepareFails, Killed
  <2> QED
    BY <1>1, <2>1, <2>2, FreshReturn
<1>6. CASE Save(c)
  BY <1>1, <1>6, FreshUpdate DEF Save, At, Nexts
<1>7. CASE RunRead(c)
  <2> DEFINE r == [Idle EXCEPT !.at = "persist"]
  <2>1. act' = [act EXCEPT ![c] = r] /\ row' = row /\ saved' = saved /\ box' = box
    BY <1>7 DEF RunRead, file
  <2>2. r.at = "persist" /\ r.next = "ran" /\ r.todo = {} /\ r.snap = NoRows
    BY DEF Idle
  <2> HIDE DEF r
  <2> QED
    BY <1>1, <2>1, <2>2, FreshQuiet DEF Known
<1>8. ~RunWrite(c)
  BY <1>1 DEF FreshInv, NoCopies, RunWrite, At
<1>9. CASE DestroyAll(c)
  <2> DEFINE r == [Idle EXCEPT !.at = "each", !.todo = ActiveRows]
  <2>1. r.at = "each" /\ r.todo = ActiveRows /\ r.snap = NoRows
    BY DEF Idle
  <2>2. act' = [act EXCEPT ![c] = r] /\ row' = row /\ box' = box /\ saved' = saved
    BY <1>9 DEF DestroyAll, file
  <2>3. \A s \in ActiveRows : row[s] # "none"
    BY DEF ActiveRows
  <2> HIDE DEF r
  <2> QED
    BY <1>1, <2>1, <2>2, <2>3, FreshQuiet DEF Known
<1>10. ASSUME NEW s \in Sessions, Spawn(c, s) PROVE FreshInv'
  <2> DEFINE r == [act[c] EXCEPT !.at = "save", !.session = s]
  <2>1. act' = [act EXCEPT ![c] = r] /\ r.at = "save" /\ r.session = s
        /\ r.todo = act[c].todo /\ r.snap = act[c].snap
    BY <1>1, <1>3, <1>10 DEF Spawn, GotoWith, Act
  <2>2. row' = row /\ box' = [box EXCEPT ![s] = "running"] /\ box[s] = "none"
        /\ saved' = saved
    BY <1>10 DEF Spawn, file
  <2>3. row[s] = "none" /\ \A b \in Actors : act[b].at = "save" => act[b].session # s
    BY <2>2 DEF FreshInv, Unspawned, Unsaved
  <2>4. \A t \in Sessions : box[t] # "none" => box'[t] # "none"
    BY <1>1, <2>2
  <2>5. box'[s] # "none"
    BY <1>1, <2>2
  <2>6. \A t \in Sessions : box[t] = "none" => saved'[t] = "none" /\ r.snap[t] = "none"
    BY <1>1, <2>1, <2>2 DEF FreshInv, Unspawned
  <2> HIDE DEF r
  <2>7. \A t \in Sessions :
          /\ row[t] # "none" => row'[t] # "none"
          /\ box[t] # "none" => box'[t] # "none"
          /\ row[t] = "none" /\ row'[t] # "none" =>
               act[c].at = "save" /\ act[c].session = t
          /\ box[t] = "none" => saved'[t] = "none" /\ r.snap[t] = "none"
    BY <2>2, <2>4, <2>6
  <2>8. \A t \in r.todo : row'[t] # "none"
    BY <1>3, <2>1, <2>2
  <2>9. /\ r.at # "writing"
        /\ r.at = "save" =>
             /\ row'[r.session] = "none" /\ box'[r.session] # "none"
             /\ \A b \in Actors : act[b].at = "save" => act[b].session # r.session
        /\ r.at \in Known \/ (r.at \in {"persist", "rename"} /\ r.next = "expire")
             => row'[r.session] # "none"
    BY <2>1, <2>2, <2>3, <2>5 DEF Known
  <2>10. FreshStepOf(c, r)
    BY <2>7, <2>8, <2>9 DEF FreshStepOf
  <2> QED
    BY <1>1, <2>1, <2>10, FreshStep
<1>11. ASSUME NEW s \in Sessions, RunStart(c, s) PROVE FreshInv'
  <2> DEFINE r == [act[c] EXCEPT !.at = "running", !.session = s]
  <2>1. act' = [act EXCEPT ![c] = r] /\ r.at = "running" /\ r.session = s
        /\ r.todo = act[c].todo /\ r.snap = act[c].snap
    BY <1>1, <1>3, <1>11 DEF RunStart, GotoWith, Act
  <2>2. row' = row /\ box' = box /\ row[s] # "none" /\ saved' = saved
    BY <1>11 DEF RunStart, file
  <2> HIDE DEF r
  <2> QED
    BY <1>1, <1>3, <2>1, <2>2, FreshQuiet
<1>12. ASSUME NEW s \in Sessions, DestroyOne(c, s) PROVE FreshInv'
  <2> DEFINE r == [Idle EXCEPT !.at = "destroy", !.session = s]
  <2>1. r.at = "destroy" /\ r.session = s /\ r.todo = {} /\ r.snap = NoRows
    BY DEF Idle
  <2>2. act' = [act EXCEPT ![c] = r] /\ row' = row /\ box' = box /\ row[s] # "none"
        /\ saved' = saved
    BY <1>12 DEF DestroyOne, file
  <2> HIDE DEF r
  <2> QED
    BY <1>1, <2>1, <2>2, FreshQuiet
<1>13. ASSUME NEW s \in Sessions, DestroyNext(c, s) PROVE FreshInv'
  <2> DEFINE r == [act[c] EXCEPT !.at = "destroy", !.session = s, !.todo = @ \ {s}]
  <2>1. act' = [act EXCEPT ![c] = r] /\ r.at = "destroy" /\ r.session = s
        /\ r.todo = act[c].todo \ {s} /\ r.snap = act[c].snap
    BY <1>1, <1>3, <1>13 DEF DestroyNext, Act
  <2>2. row' = row /\ box' = box /\ row[s] # "none" /\ saved' = saved
    BY <1>3, <1>13 DEF DestroyNext, file
  <2> HIDE DEF r
  <2> QED
    BY <1>1, <1>3, <2>1, <2>2, FreshQuiet
<1> QED
  BY <1>4, <1>5, <1>6, <1>7, <1>8, <1>9, <1>10, <1>11, <1>12, <1>13 DEF CallStep

LEMMA AnyFresh ==
  ASSUME FreshInv, Typed', NEW a \in Actors, AnyStep(a)
  PROVE  FreshInv'
<1>1. /\ act \in [Actors -> Act] /\ row \in Rows /\ box \in [Sessions -> BoxStates]
      /\ act[a] \in Act
  BY DEF FreshInv, Typed, TypeOK
<1>2. CASE Finish(a) \/ DestroyFails(a) \/ WriteFails(a)
  <2>1. Return(a) /\ row' = row /\ saved' = saved
    BY <1>2 DEF Finish, DestroyFails, WriteFails, file
  <2>2. \A s \in Sessions : box[s] # "none" => box'[s] # "none"
    BY <1>1, <1>2 DEF Finish, DestroyFails, WriteFails, Killed
  <2> QED
    BY <2>1, <2>2, FreshReturn
<1>3. CASE Spared(a)
  BY <1>3, FreshGoesOn DEF Spared, Destroyed, At, Known, Nexts, file
<1>4. CASE Kill(a)
  <2>1. \A s \in Sessions : box[s] # "none" => box'[s] # "none"
    BY <1>1, <1>4 DEF Kill, Killed
  <2> QED
    BY <1>4, <2>1, FreshMove DEF Kill, At, Known, file
<1>5. CASE Mark(a)
  BY <1>5, FreshUpdate DEF Mark, Destroyed, At, Known, Nexts
<1>6. CASE Snapshot(a)
  <2> DEFINE r == [act[a] EXCEPT !.at = "rename", !.snap = row]
  <2>1. act' = [act EXCEPT ![a] = r] /\ row' = row /\ saved' = saved /\ box' = box
        /\ act[a].at = "persist"
    BY <1>6 DEF Snapshot, At
  <2>2. /\ r.at = "rename" /\ r.next = act[a].next /\ r.session = act[a].session
        /\ r.snap = row /\ r.todo = act[a].todo
    BY <1>1 DEF Act
  <2> HIDE DEF r
  <2>3. r.next = "expire" => row[r.session] # "none"
    BY <2>1, <2>2 DEF FreshInv, FromRows, Expiring
  <2>4. \A s \in r.todo : row[s] # "none"
    BY <2>2 DEF FreshInv, FromRows
  <2> QED
    BY <2>1, <2>2, <2>3, <2>4, FreshQuiet DEF Known
<1>7. CASE Rename(a)
  <2>1. /\ GoOn(a, act[a].next) /\ act[a].next \in Nexts
        /\ row' = row /\ box' = box /\ act[a].at = "rename"
        /\ saved' = NoRows \/ saved' = act[a].snap
    BY <1>1, <1>7 DEF Rename, At, Act, Nexts
  <2> QED
    BY <2>1, FreshGoesOn DEF Expiring
<1> QED
  BY <1>2, <1>3, <1>4, <1>5, <1>6, <1>7 DEF AnyStep

LEMMA PassFresh ==
  ASSUME FreshInv, Typed', NEW p \in Passes, PassStep(p)
  PROVE  FreshInv'
<1>1. p \in Actors /\ act \in [Actors -> Act] /\ row \in Rows
  BY DEF Actors, FreshInv, Typed, TypeOK
<1>3. act[p] \in Act /\ act[p].todo \subseteq Sessions
      /\ \A s \in act[p].todo : row[s] # "none"
  BY <1>1 DEF Act, FreshInv, FromRows
<1>4. CASE PassStart(p)
  <2> DEFINE r == [Idle EXCEPT !.at = "each", !.todo = ActiveRows,
                               !.late = ActiveRows \cap overdue]
  <2>1. r.at = "each" /\ r.todo = ActiveRows /\ r.snap = NoRows
    BY DEF Idle
  <2>2. act' = [act EXCEPT ![p] = r] /\ row' = row /\ box' = box /\ saved' = saved
    BY <1>4 DEF PassStart, file
  <2>3. \A s \in ActiveRows : row[s] # "none"
    BY DEF ActiveRows
  <2> HIDE DEF r
  <2> QED
    BY <1>1, <2>1, <2>2, <2>3, FreshQuiet DEF Known
<1>5. CASE Expire(p) \/ MarkGone(p)
  BY <1>1, <1>5, FreshUpdate DEF Expire, MarkGone, At, Known, Nexts
<1>7. ASSUME NEW s \in Sessions, PassLate(p, s) \/ PassProbe(p, s)
      PROVE  FreshInv'
  <2>1. row' = row /\ box' = box /\ s \in act[p].todo /\ At(p, "each") /\ saved' = saved
    BY <1>7 DEF PassLate, PassProbe, file
  <2>2. row[s] # "none"
    BY <1>3, <2>1
  <2>3. PICK r \in Act :
          /\ act' = [act EXCEPT ![p] = r]
          /\ r.todo = act[p].todo \ {s} /\ r.snap = act[p].snap
          /\ r.at = "each" \/ (r.at \in {"destroy", "gone"} /\ r.session = s)
    <3>1. act'[p] \in Act /\ act' = [act EXCEPT ![p] = act'[p]]
      BY <1>1, <1>7 DEF PassLate, PassProbe, FreshInv, Typed, TypeOK
    <3>2. /\ act'[p].todo = act[p].todo \ {s} /\ act'[p].snap = act[p].snap
          /\ \/ act'[p].at = "each"
             \/ act'[p].at \in {"destroy", "gone"} /\ act'[p].session = s
      BY <1>1, <1>3, <1>7, <2>1 DEF PassLate, PassProbe, Act, At
    <3> QED
      BY <3>1, <3>2
  <2> QED
    BY <1>1, <1>3, <2>1, <2>2, <2>3, FreshQuiet DEF Known
<1> QED
  BY <1>4, <1>5, <1>7 DEF PassStep

LEMMA OtherFresh ==
  ASSUME ~UseDb, FreshInv, Typed',
         \/ UNCHANGED vars
         \/ Restart
         \/ \E s \in Sessions : Overdue(s) \/ Die(s)
  PROVE  FreshInv'
<1>1. CASE Restart
  <2>1. \A a \in Actors : act'[a] = Idle
    BY <1>1 DEF Restart
  <2>2. row' = saved /\ saved' = saved /\ box' = box
    BY <1>1 DEF Restart
  <2> QED
    BY <2>1, <2>2, IdleIsAct
       DEF FreshInv, Unsaved, OneCreate, FromRows, Unspawned, NoCopies, Expiring,
           NoRows, Known
<1>2. CASE UNCHANGED vars \/ \E s \in Sessions : Overdue(s) \/ Die(s)
  <2>1. /\ row' = row /\ saved' = saved /\ act' = act
        /\ \A s \in Sessions : box'[s] = "none" <=> box[s] = "none"
    BY <1>2 DEF FreshInv, Typed, TypeOK, vars, file, Overdue, Die
  <2>2. \A a \in Actors : act[a].at \in About => act[a].session \in Sessions
    BY DEF FreshInv, Typed, Placed
  <2> QED
    BY <2>1, <2>2 DEF FreshInv, Unsaved, OneCreate, FromRows, Unspawned, NoCopies,
                      About, Expiring
<1> QED
  BY <1>1, <1>2

(* While writes of the file do not overlap, the registry and its file      *)
(* differ only while someone is saving: the one that is renaming has the   *)
(* rows as they are, or another is about to take a snapshot.               *)
Persisting == \E a \in Actors : At(a, "persist")
Settled ==
  /\ \A a, b \in Actors : At(a, "rename") /\ At(b, "rename") => a = b
  /\ \A a \in Actors : At(a, "rename") => act[a].snap = row \/ Persisting
  /\ saved = row \/ \E a \in Actors : Saving(a)
FilesInv == ~crossed => Settled

(* A step of an actor that is not saving, and does not begin to.           *)
Aside(a) ==
  /\ row' = row /\ saved' = saved /\ crossed' = crossed
  /\ ~Saving(a) /\ ~Saving(a)'
  /\ \A b \in Actors \ {a} : act'[b] = act[b]

(* Or it has updated a row, and begins to.                                 *)
Begins(a) ==
  /\ saved' = saved /\ crossed' = crossed
  /\ ~Saving(a) /\ At(a, "persist")'
  /\ \A b \in Actors \ {a} : act'[b] = act[b]

LEMMA AsideSettles ==
  ASSUME FilesInv, NEW a \in Actors, Aside(a) \/ Begins(a) PROVE FilesInv'
<1> SUFFICES ASSUME ~crossed' PROVE Settled'
  BY DEF FilesInv
<1>1. Settled
  BY DEF FilesInv, Aside, Begins
<1>2. \A b \in Actors \ {a} : act'[b] = act[b]
  BY DEF Aside, Begins
<1>3. ~At(a, "rename") /\ ~At(a, "rename")'
  BY DEF Aside, Begins, Saving, At
<1>4. \A b \in Actors : At(b, "rename")' => b # a /\ At(b, "rename") /\ act'[b] = act[b]
  BY <1>2, <1>3 DEF At
<1>5. CASE Begins(a)
  <2>1. Persisting' /\ \E b \in Actors : Saving(b)'
    BY <1>5 DEF Begins, Persisting, Saving, At
  <2> QED
    BY <1>1, <1>4, <2>1 DEF Settled
<1>6. CASE Aside(a)
  <2>1. Persisting => Persisting'
    BY <1>2, <1>6 DEF Aside, Persisting, Saving, At
  <2>2. (\E b \in Actors : Saving(b)) => \E b \in Actors : Saving(b)'
    BY <1>2, <1>6 DEF Aside, Saving
  <2> QED
    BY <1>1, <1>4, <1>6, <2>1, <2>2 DEF Settled, Aside
<1> QED
  BY <1>5, <1>6

LEMMA UpdateBegins ==
  ASSUME ~UseDb, Typed, NEW a \in Actors, NEW state, NEW next \in Nexts,
         Update(a, state, next), ~Saving(a)
  PROVE  Begins(a)
<1>1. PICK r \in Act : act' = [act EXCEPT ![a] = r] /\ r.at = "persist"
  BY UpdateIs DEF Typed, TypeOK
<1>2. act'[a].at = "persist" /\ \A b \in Actors \ {a} : act'[b] = act[b]
  BY <1>1 DEF Typed, TypeOK
<1> QED
  BY <1>2 DEF Update, Begins, At, file

LEMMA GoOnAside ==
  ASSUME Typed, NEW a \in Actors, NEW next \in Nexts, GoOn(a, next)
  PROVE  act'[a].at \in {"idle", "each", "expire"}
         /\ \A b \in Actors \ {a} : act'[b] = act[b]
BY OnwardIs DEF GoOn, Typed, TypeOK

LEMMA CallSettles ==
  ASSUME ~UseDb, Typed, FilesInv, NEW c \in Calls, CallStep(c), ~RunWrite(c)
  PROVE  FilesInv'
<1>1. c \in Actors /\ act \in [Actors -> Act]
  BY DEF Typed, TypeOK, Actors
<1>2. CASE Save(c)
  BY <1>1, <1>2, UpdateBegins, AsideSettles DEF Save, Saving, At, Nexts
<1>3. CASE RunRead(c)
  <2>1. act'[c].at = "persist" /\ \A b \in Actors \ {c} : act'[b] = act[b]
    BY <1>1, <1>3, IdleIsAct DEF RunRead, Act
  <2>2. Begins(c)
    BY <1>3, <2>1 DEF RunRead, Begins, Saving, At, file
  <2> QED
    BY <1>1, <2>2, AsideSettles
<1>4. CASE Return(c) /\ ~Saving(c) /\ row' = row /\ file' = file
  BY <1>1, <1>4, ReturnElsewhere, AsideSettles DEF Aside, Saving, file
<1>5. CASE GateEnter(c) \/ GateWake(c) \/ (GateList(c) /\ ~Return(c))
  <2>1. /\ act[c].at \in {"idle", "gateWait", "gateList"}
        /\ act'[c].at \in {"gateWait", "gateList", "spawn"}
        /\ \A b \in Actors \ {c} : act'[b] = act[b]
    BY <1>1, <1>5 DEF GateEnter, GateWake, GateList, Goto, At, Act
  <2> QED
    BY <1>1, <1>5, <2>1, AsideSettles
       DEF Aside, Saving, GateEnter, GateWake, GateList, file
<1>6. CASE DestroyAll(c)
  <2>1. act'[c].at = "each" /\ \A b \in Actors \ {c} : act'[b] = act[b]
    BY <1>1, <1>6 DEF DestroyAll, Idle
  <2> QED
    BY <1>1, <1>6, <2>1, AsideSettles DEF Aside, Saving, DestroyAll, At, file
<1>7. ASSUME NEW s \in Sessions,
             Spawn(c, s) \/ RunStart(c, s) \/ DestroyNext(c, s) \/ DestroyOne(c, s)
      PROVE  FilesInv'
  <2>1. /\ act'[c].at \in {"save", "running", "destroy"}
        /\ \A b \in Actors \ {c} : act'[b] = act[b]
    BY <1>1, <1>7 DEF Spawn, RunStart, DestroyNext, DestroyOne, GotoWith, Act, Idle
  <2>2. act[c].at \in {"spawn", "idle", "each"} /\ row' = row /\ file' = file
    BY <1>7 DEF Spawn, RunStart, DestroyNext, DestroyOne, At
  <2> QED
    BY <1>1, <2>1, <2>2, AsideSettles DEF Aside, Saving, file
<1> QED
  BY <1>2, <1>3, <1>4, <1>5, <1>6, <1>7
     DEF CallStep, GateList, GateFails, SpawnFails, PrepareFails, RunFails, At, Saving

LEMMA PassSettles ==
  ASSUME ~UseDb, Typed, FilesInv, NEW p \in Passes, PassStep(p) PROVE FilesInv'
<1>1. p \in Actors /\ act \in [Actors -> Act]
  BY DEF Typed, TypeOK, Actors
<1>2. CASE Expire(p) \/ MarkGone(p)
  BY <1>1, <1>2, UpdateBegins, AsideSettles DEF Expire, MarkGone, Saving, At, Nexts
<1>3. CASE PassStart(p)
  <2>1. act'[p].at = "each" /\ \A b \in Actors \ {p} : act'[b] = act[b]
    BY <1>1, <1>3 DEF PassStart, Idle
  <2> QED
    BY <1>1, <1>3, <2>1, AsideSettles DEF Aside, Saving, PassStart, At, file
<1>4. ASSUME NEW s \in Sessions, PassLate(p, s) \/ PassProbe(p, s) PROVE FilesInv'
  <2>1. act[p].at = "each" /\ row' = row /\ file' = file
    BY <1>4 DEF PassLate, PassProbe, At
  <2>2. /\ act'[p].at \in {"each", "destroy", "gone"}
        /\ \A b \in Actors \ {p} : act'[b] = act[b]
    BY <1>1, <1>4, <2>1 DEF PassLate, PassProbe, Act
  <2> QED
    BY <1>1, <2>1, <2>2, AsideSettles DEF Aside, Saving, file
<1> QED
  BY <1>2, <1>3, <1>4 DEF PassStep

LEMMA AnySettles ==
  ASSUME ~UseDb, Typed, FilesInv, NEW a \in Actors, AnyStep(a) PROVE FilesInv'
<1>1. act \in [Actors -> Act] /\ act[a] \in Act
  BY DEF Typed, TypeOK
<1>2. CASE Finish(a) \/ DestroyFails(a)
  <2>1. Return(a) /\ row' = row /\ file' = file /\ ~Saving(a)
    BY <1>2 DEF Finish, DestroyFails, At, Saving
  <2> QED
    BY <2>1, ReturnElsewhere, AsideSettles DEF Aside, Saving, file
<1>3. CASE WriteFails(a)
  BY <1>3 DEF WriteFails, FilesInv
<1>4. CASE Spared(a)
  <2>1. GoOn(a, Destroyed(a)) /\ row' = row /\ file' = file /\ ~Saving(a)
    BY <1>4 DEF Spared, At, Saving
  <2>2. Destroyed(a) \in Nexts
    BY DEF Destroyed, Nexts
  <2> QED
    BY <2>1, <2>2, GoOnAside, AsideSettles DEF Aside, Saving, file
<1>5. CASE Kill(a)
  <2>1. act'[a].at = "mark" /\ \A b \in Actors \ {a} : act'[b] = act[b]
    BY <1>1, <1>5 DEF Kill, Goto, Act
  <2> QED
    BY <1>5, <2>1, AsideSettles DEF Aside, Saving, Kill, At, file
<1>6. CASE Mark(a)
  BY <1>6, UpdateBegins, AsideSettles DEF Mark, Destroyed, Saving, At, Nexts
<1>7. CASE Snapshot(a)
  <2> SUFFICES ASSUME ~crossed' PROVE Settled'
    BY DEF FilesInv
  <2>1. \A b \in Actors \ {a} : ~At(b, "rename") /\ act'[b] = act[b]
    BY <1>7 DEF Snapshot, Overlaps, Typed, TypeOK
  <2>2. act'[a].at = "rename" /\ act'[a].snap = row /\ row' = row
    BY <1>1, <1>7 DEF Snapshot, Act
  <2> QED
    BY <2>1, <2>2 DEF Settled, At, Saving
<1>8. CASE Rename(a)
  <2> SUFFICES ASSUME ~crossed' PROVE Settled'
    BY DEF FilesInv
  <2>1. Settled /\ At(a, "rename") /\ row' = row
    BY <1>8 DEF FilesInv, Rename
  <2>2. act[a].next \in Nexts
    BY <1>1 DEF Act, Nexts
  <2>3. /\ act'[a].at \in {"idle", "each", "expire"}
        /\ \A b \in Actors \ {a} : act'[b] = act[b]
    BY <1>8, <2>2, GoOnAside DEF Rename
  <2>4. \A b \in Actors : ~At(b, "rename")'
    BY <2>1, <2>3 DEF Settled, At
  <2>5. saved' = act[a].snap
    BY <1>8, <2>1 DEF Rename, Overlaps, Settled
  <2>6. Persisting => \E b \in Actors : Saving(b)'
    BY <2>1, <2>3 DEF Persisting, Saving, At
  <2>7. saved' = row' \/ \E b \in Actors : Saving(b)'
    BY <2>1, <2>5, <2>6 DEF Settled
  <2> QED
    BY <2>4, <2>7 DEF Settled
<1> QED
  BY <1>2, <1>3, <1>4, <1>5, <1>6, <1>7, <1>8 DEF AnyStep

LEMMA OtherSettles ==
  ASSUME ~UseDb, FilesInv,
         \/ UNCHANGED vars
         \/ Restart
         \/ \E s \in Sessions : Overdue(s) \/ Die(s)
  PROVE  FilesInv'
<1>1. CASE Restart
  <2>1. row' = saved' /\ \A a \in Actors : ~At(a, "rename")'
    BY <1>1, IdleIsAct DEF Restart, At
  <2> QED
    BY <2>1 DEF FilesInv, Settled
<1>2. CASE UNCHANGED vars \/ \E s \in Sessions : Overdue(s) \/ Die(s)
  <2>1. row' = row /\ saved' = saved /\ crossed' = crossed /\ act' = act
    BY <1>2 DEF vars, file, Overdue, Die
  <2> QED
    BY <2>1 DEF FilesInv, Settled, Persisting, Saving, At
<1> QED
  BY <1>1, <1>2

(* What makes a row active is the save of a create, or such a restart.     *)
LEMMA OnlySaves ==
  ASSUME ~UseDb, FreshInv, FilesInv, [Next]_vars, NEW s \in Sessions,
         row[s] \in Left, row'[s] = "active"
  PROVE  Restart /\ (crossed \/ \E a \in Actors : Saving(a))
<1> USE DEF FreshInv, Left
<1>1. row \in Rows /\ Calls \subseteq Actors
  BY DEF Typed, TypeOK, Actors
<1>2. CASE UNCHANGED vars \/ \E t \in Sessions : Overdue(t) \/ Die(t)
  BY <1>2 DEF vars, Overdue, Die
<1>3. ASSUME NEW a \in Actors, NEW state \in {"destroyed", "expired"}, NEW next,
             Update(a, state, next)
      PROVE  FALSE
  BY <1>1, <1>3 DEF Update, Rows
<1>4. ASSUME NEW c \in Calls, CallStep(c)  PROVE FALSE
  <2>1. CASE Save(c)
    <3>1. act[c].at = "save" /\ row[act[c].session] = "none"
      BY <1>1, <2>1 DEF Save, At, Unsaved
    <3> QED
      BY <1>1, <2>1, <3>1 DEF Save, Update, Rows
  <2>2. ~RunWrite(c)
    BY <1>1 DEF RunWrite, At, NoCopies
  <2> QED
    BY <1>4, <2>1, <2>2
       DEF CallStep, GateEnter, GateWake, GateList, GateFails, SpawnFails,
           PrepareFails, RunRead, RunFails, DestroyAll, Spawn, RunStart,
           DestroyOne, DestroyNext
<1>5. ASSUME NEW p \in Passes, PassStep(p)  PROVE FALSE
  BY <1>3, <1>5 DEF PassStep, PassStart, Expire, MarkGone, PassLate, PassProbe, Actors
<1>6. ASSUME NEW a \in Actors, AnyStep(a)  PROVE FALSE
  BY <1>3, <1>6
     DEF AnyStep, Finish, Spared, DestroyFails, Kill, Mark, Snapshot, Rename, WriteFails
<1>7. CASE Restart
  <2>1. row' = saved
    BY <1>7 DEF Restart
  <2> QED
    BY <1>7, <2>1 DEF FilesInv, Settled
<1> QED
  BY <1>2, <1>4, <1>5, <1>6, <1>7 DEF Next, Actors

(* With files, whatever else fails, a session that was destroyed or has    *)
(* expired is never listed as active again, for any number of sessions,    *)
(* calls and passes, unless the controller restarts while a write is on    *)
(* its way, or after one has failed or two have overlapped.                *)
THEOREM NothingComesBack == ~UseDb => (Spec => LeftForGood)
<1> SUFFICES ASSUME ~UseDb  PROVE Spec => LeftForGood
  OBVIOUS
<1> DEFINE Inv == FreshInv /\ FilesInv
<1>1. Init /\ Typed => Inv
  BY IdleIsAct DEF Init, FreshInv, Unsaved, OneCreate, FromRows, Unspawned,
                   NoCopies, NoRows, Known, Expiring, FilesInv, Settled, At
<1>2. Inv /\ Typed' /\ [Next]_vars => Inv'
  <2> SUFFICES ASSUME FreshInv, FilesInv, Typed', [Next]_vars
               PROVE  FreshInv' /\ FilesInv'
    OBVIOUS
  <2>1. Calls \subseteq Actors /\ Passes \subseteq Actors
    BY DEF Actors
  <2>2. FreshInv'
    BY <2>1, CallFresh, PassFresh, AnyFresh, OtherFresh DEF Next
  <2>3. Typed /\ \A c \in Calls : ~RunWrite(c)
    BY <2>1 DEF FreshInv, NoCopies, RunWrite, At
  <2>4. FilesInv'
    BY <2>1, <2>3, CallSettles, PassSettles, AnySettles, OtherSettles DEF Next
  <2> QED
    BY <2>2, <2>4
<1>3. Inv /\ [Next]_vars =>
        [\A s \in Sessions :
           row[s] \in {"expired", "destroyed"} /\ row'[s] = "active" =>
             Restart /\ (crossed \/ \E a \in Actors : Saving(a))]_vars
  BY OnlySaves DEF Left
<1> QED
  BY <1>1, <1>2, <1>3, TypeCorrect, PTL DEF Spec, LeftForGood
=============================================================================
