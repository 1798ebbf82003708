--------------------------- MODULE WorkerSessions ---------------------------
(***************************************************************************)
(* Worker sessions of the controller: the registry                         *)
(* (src/src/runtime/session-registry.ts), the concurrency gate             *)
(* (concurrency-gate.ts), E2BWorkerManager's create, run and destroy       *)
(* (e2b-worker-manager.ts) and the reconciler (lifecycle-reconciler.ts).   *)
(*                                                                         *)
(* A session is a row of the registry and a sandbox in the cloud.  Tool    *)
(* calls and reconciler passes interleave at their awaits: every request   *)
(* to the cloud and every query is one.  With files the registry is a map  *)
(* in memory, which updateSession changes between two awaits; persist()    *)
(* then writes a snapshot of the map to a temporary file and renames it    *)
(* over the registry's, which a restart reads.  With Postgres updateSession *)
(* reads the whole row and writes the whole row back: an update that sets  *)
(* the state itself is one step, the one of runCommand carries the state   *)
(* it read.  Registries over the same file other than the server's are not *)
(* modelled.                                                               *)
(***************************************************************************)
EXTENDS Naturals, FiniteSets

CONSTANTS
  Sessions,    \* session ids: createWorkerSession draws a fresh one
  Calls,       \* tool calls of clients, each serving one after the other
  Passes,      \* reconciler passes: setInterval does not wait for the last
  NoSession,   \* no session
  MaxActive,   \* config.maxActiveWorkers
  UseDb,       \* a DATABASE_URL is configured
  Reliable,    \* cloud requests and writes of the registry do not fail
  Restarts     \* the controller may restart

ASSUME NoSessionAssumption == NoSession \notin Sessions
ASSUME ActorsAssumption == IsFiniteSet(Calls) /\ Calls \cap Passes = {}
ASSUME MaxActiveAssumption == MaxActive \in Nat \ {0}
ASSUME FlagsAssumption == {UseDb, Reliable, Restarts} \subseteq BOOLEAN

VARIABLES
  row,      \* the state of each session in the registry
  saved,    \* with files, the same in the file
  crossed,  \* ghost: writes of the file have overlapped, or one has failed
  box,      \* the sandbox of each session in the cloud
  overdue,  \* the sessions whose expiresAt has passed
  gate,     \* isAcquiring of the concurrency gate
  act       \* what each call and each pass is doing

file == <<saved, crossed>>
vars == <<row, file, box, overdue, gate, act>>

Actors == Calls \cup Passes
RowStates == {"none", "active", "expired", "destroyed"}
BoxStates == {"none", "running", "dead"}

(* session: the one it is about; copy: the state runCommand read; todo:    *)
(* the sessions still to be handled; late: those the pass found overdue;   *)
(* snap: what persist() writes; next: where it goes on when that is done.  *)
Rows == [Sessions -> RowStates]
NoRows == [s \in Sessions |-> "none"]
Act == [at : {"idle", "gateWait", "gateList", "spawn", "save", "running",
              "writing", "each", "destroy", "mark", "expire", "gone",
              "persist", "rename"},
        session : Sessions \cup {NoSession},
        copy : RowStates,
        todo : SUBSET Sessions,
        late : SUBSET Sessions,
        snap : Rows,
        next : {"saved", "ran", "each", "expire"}]
Idle == [at |-> "idle", session |-> NoSession, copy |-> "none",
         todo |-> {}, late |-> {}, snap |-> NoRows, next |-> "ran"]

Init ==
  /\ row = NoRows /\ saved = NoRows /\ crossed = FALSE
  /\ box = [s \in Sessions |-> "none"]
  /\ overdue = {}
  /\ gate = FALSE
  /\ act = [a \in Actors |-> Idle]

At(a, step) == act[a].at = step
Goto(a, step) == act' = [act EXCEPT ![a].at = step]
GotoWith(a, step, s) == act' = [act EXCEPT ![a].at = step, ![a].session = s]
Return(a) == act' = [act EXCEPT ![a] = Idle]

(* A query of the database throws; the map in memory is always there.      *)
QueryFails == UseDb /\ ~Reliable

ActiveRows == {s \in Sessions : row[s] = "active"}

(* A create and a command end with their write; destroyAllSessions and a   *)
(* pass go on with the next of their sessions, or mark this one expired.   *)
Onward(a, next) ==
  CASE next = "each" ->
         [act[a] EXCEPT !.at = "each", !.session = NoSession,
                        !.snap = NoRows, !.next = "ran"]
    [] next = "expire" ->
         [act[a] EXCEPT !.at = "expire", !.snap = NoRows, !.next = "ran"]
    [] OTHER -> Idle
GoOn(a, next) == act' = [act EXCEPT ![a] = Onward(a, next)]

(* The registry now has the state; with files persist() follows.           *)
Update(a, state, next) ==
  /\ row' = [row EXCEPT ![act[a].session] = state]
  /\ IF UseDb THEN GoOn(a, next)
     ELSE act' = [act EXCEPT ![a].at = "persist", ![a].next = next,
                             ![a].session = IF next = "each" THEN NoSession ELSE @]
  /\ UNCHANGED <<file, box, overdue, gate>>

-----------------------------------------------------------------------------
(* createWorkerSession: the gate, the sandbox, the row.                    *)
GateEnter(c) ==
  /\ At(c, "idle")
  /\ IF gate
     THEN Goto(c, "gateWait") /\ UNCHANGED gate
     ELSE Goto(c, "gateList") /\ gate' = TRUE
  /\ UNCHANGED <<row, file, box, overdue>>

(* After 50 ms the gate is entered, whether or not it is free.             *)
GateWake(c) ==
  /\ At(c, "gateWait")
  /\ Goto(c, "gateList")
  /\ gate' = TRUE
  /\ UNCHANGED <<row, file, box, overdue>>

(* Mutant: more than the maximum must be active before the gate refuses.   *)
FullBeyond == Cardinality(ActiveRows) > MaxActive
Full == Cardinality(ActiveRows) >= MaxActive

GateList(c) ==
  /\ At(c, "gateList")
  /\ gate' = FALSE
  /\ \/ Full /\ Return(c)
     \/ ~Full /\ Goto(c, "spawn")
  /\ UNCHANGED <<row, file, box, overdue>>

(* finally: the gate is free again when listing the sessions throws.       *)
GateFails(c) ==
  /\ At(c, "gateList")
  /\ QueryFails
  /\ gate' = FALSE
  /\ Return(c)
  /\ UNCHANGED <<row, file, box, overdue>>

Spawn(c, s) ==
  /\ At(c, "spawn")
  /\ box[s] = "none"
  /\ box' = [box EXCEPT ![s] = "running"]
  /\ GotoWith(c, "save", s)
  /\ UNCHANGED <<row, file, overdue, gate>>

SpawnFails(c) ==
  /\ At(c, "spawn")
  /\ ~Reliable
  /\ Return(c)
  /\ UNCHANGED <<row, file, box, overdue, gate>>

Save(c) == At(c, "save") /\ Update(c, "active", "saved")

(* sandbox.kill().catch(() => {}): the sandbox may survive the request.    *)
Killed(s) ==
  \/ box' = [box EXCEPT ![s] = "dead"]
  \/ ~Reliable /\ UNCHANGED box

(* Mutant: a sandbox whose preparation fails is left alone. *)
PrepareFailsOnly(c) ==
  /\ At(c, "save")
  /\ Return(c)
  /\ UNCHANGED <<row, file, box, overdue, gate>>

(* The command that prepares /workspace fails in the sandbox: it is killed *)
(* and the call fails.                                                     *)
PrepareFails(c) ==
  /\ At(c, "save")
  /\ Killed(act[c].session)
  /\ Return(c)
  /\ UNCHANGED <<row, file, overdue, gate>>

-----------------------------------------------------------------------------
(* runCommand: admitted by an active row; when the command has ended, its  *)
(* status is written with the row as it then is.                           *)
RunStart(c, s) ==
  /\ At(c, "idle")
  /\ row[s] = "active"
  /\ GotoWith(c, "running", s)
  /\ UNCHANGED <<row, file, box, overdue, gate>>

(* Mutant: with files too, the update waits between its read and write.    *)
RunReadCopied(c) ==
  /\ At(c, "running")
  /\ act' = [act EXCEPT ![c].at = "writing", ![c].copy = row[act[c].session]]
  /\ UNCHANGED <<row, file, box, overdue, gate>>

RunRead(c) ==
  /\ At(c, "running")
  /\ IF UseDb
     THEN act' = [act EXCEPT ![c].at = "writing",
                             ![c].copy = row[act[c].session]]
     ELSE act' = [act EXCEPT ![c] = [Idle EXCEPT !.at = "persist"]]
  /\ UNCHANGED <<row, file, box, overdue, gate>>

RunWrite(c) ==
  /\ At(c, "writing")
  /\ row' = [row EXCEPT ![act[c].session] = act[c].copy]
  /\ Return(c)
  /\ UNCHANGED <<file, box, overdue, gate>>

RunFails(c) ==
  /\ act[c].at \in {"running", "writing"}
  /\ ~Reliable
  /\ Return(c)
  /\ UNCHANGED <<row, file, box, overdue, gate>>

-----------------------------------------------------------------------------
(* runtime_destroy_session on any session id, and the sessions one by one  *)
(* of runtime_destroy_all_sessions.                                        *)
DestroyOne(c, s) ==
  /\ At(c, "idle")
  /\ row[s] # "none"
  /\ act' = [act EXCEPT ![c] = [Idle EXCEPT !.at = "destroy", !.session = s]]
  /\ UNCHANGED <<row, file, box, overdue, gate>>

DestroyAll(c) ==
  /\ At(c, "idle")
  /\ act' = [act EXCEPT ![c] = [Idle EXCEPT !.at = "each", !.todo = ActiveRows]]
  /\ UNCHANGED <<row, file, box, overdue, gate>>

DestroyNext(c, s) ==
  /\ c \in Calls
  /\ At(c, "each")
  /\ s \in act[c].todo
  /\ act' = [act EXCEPT ![c].at = "destroy", ![c].session = s,
                        ![c].todo = @ \ {s}]
  /\ UNCHANGED <<row, file, box, overdue, gate>>

(* All are handled: the call answers, the pass is over.                    *)
Finish(a) ==
  /\ At(a, "each")
  /\ act[a].todo = {}
  /\ Return(a)
  /\ UNCHANGED <<row, file, box, overdue, gate>>

(* What follows destroySession: the pass marks the session expired.        *)
Destroyed(a) == IF a \in Passes THEN "expire" ELSE "each"

(* destroySession: nothing to do for a destroyed session.                  *)
Spared(a) ==
  /\ At(a, "destroy")
  /\ row[act[a].session] = "destroyed"
  /\ GoOn(a, Destroyed(a))
  /\ UNCHANGED <<row, file, box, overdue, gate>>

DestroyFails(a) ==
  /\ At(a, "destroy")
  /\ QueryFails
  /\ Return(a)
  /\ UNCHANGED <<row, file, box, overdue, gate>>

Kill(a) ==
  /\ At(a, "destroy")
  /\ row[act[a].session] # "destroyed"
  /\ Killed(act[a].session)
  /\ Goto(a, "mark")
  /\ UNCHANGED <<row, file, overdue, gate>>

Mark(a) == At(a, "mark") /\ Update(a, "destroyed", Destroyed(a))

-----------------------------------------------------------------------------
(* reconcileNow: the active sessions and the clock are read once.          *)
PassStart(p) ==
  /\ At(p, "idle")
  /\ act' = [act EXCEPT ![p] = [Idle EXCEPT !.at = "each", !.todo = ActiveRows,
                                            !.late = ActiveRows \cap overdue]]
  /\ UNCHANGED <<row, file, box, overdue, gate>>

PassLate(p, s) ==
  /\ p \in Passes
  /\ At(p, "each")
  /\ s \in act[p].todo \cap act[p].late
  /\ act' = [act EXCEPT ![p].at = "destroy", ![p].session = s,
                        ![p].todo = @ \ {s}, ![p].late = @ \ {s}]
  /\ UNCHANGED <<row, file, box, overdue, gate>>

Expire(p) == At(p, "expire") /\ Update(p, "expired", "each")

(* Connecting fails, or isRunning answers no or fails.                     *)
Lost(s) == box[s] = "dead" \/ ~Reliable

(* Mutant: a probe that fails is passed over.                              *)
PassProbeBlind(p, s) ==
  /\ p \in Passes
  /\ At(p, "each")
  /\ s \in act[p].todo \ act[p].late
  /\ act' = [act EXCEPT ![p].todo = @ \ {s}]
  /\ UNCHANGED <<row, file, box, overdue, gate>>

PassProbe(p, s) ==
  /\ p \in Passes
  /\ At(p, "each")
  /\ s \in act[p].todo \ act[p].late
  /\ \/ /\ box[s] = "running"
        /\ act' = [act EXCEPT ![p].todo = @ \ {s}]
     \/ /\ Lost(s)
        /\ act' = [act EXCEPT ![p].at = "gone", ![p].session = s,
                              ![p].todo = @ \ {s}]
  /\ UNCHANGED <<row, file, box, overdue, gate>>

MarkGone(p) == At(p, "gone") /\ Update(p, "destroyed", "each")

-----------------------------------------------------------------------------
(* persist(): what the map holds when the directory is known to exist is   *)
(* written to a temporary file named by the millisecond and renamed over   *)
(* the file.  Writes that overlap are renamed in any order, and two of one *)
(* millisecond spoil each other's temporary file.                          *)
Overlaps(a) == \E b \in Actors \ {a} : At(b, "rename")

Snapshot(a) ==
  /\ At(a, "persist")
  /\ act' = [act EXCEPT ![a].at = "rename", ![a].snap = row]
  /\ crossed' = (crossed \/ Overlaps(a))
  /\ UNCHANGED <<row, saved, box, overdue, gate>>

Rename(a) ==
  /\ At(a, "rename")
  /\ saved' = act[a].snap \/ (Overlaps(a) /\ saved' = NoRows)
  /\ GoOn(a, act[a].next)
  /\ UNCHANGED <<row, crossed, box, overdue, gate>>

(* A write throws, in destroySession and in a probe the second one too:    *)
(* the call or the whole pass ends there.  The map in memory has changed   *)
(* all the same.  A create kills the sandbox it could not save.            *)
WriteFails(a) ==
  /\ ~Reliable
  /\ act[a].at \in IF UseDb THEN {"save", "mark", "expire", "gone"}
                   ELSE {"persist", "rename"}
  /\ IF At(a, "save") \/ act[a].next = "saved"
     THEN Killed(act[a].session) ELSE UNCHANGED box
  /\ crossed' = ~UseDb
  /\ Return(a)
  /\ UNCHANGED <<row, saved, overdue, gate>>

-----------------------------------------------------------------------------
(* The environment: time passes, a sandbox ends (its own timeout kills it, *)
(* or it fails), the controller restarts on the rows of the database or of *)
(* the file; a file that cannot be parsed is taken for an empty one.  The  *)
(* expiry is read of active sessions only, so it may pass while they are.  *)
Overdue(s) ==
  /\ row[s] = "active"
  /\ s \notin overdue
  /\ overdue' = overdue \cup {s}
  /\ UNCHANGED <<row, file, box, gate, act>>

Die(s) ==
  /\ box[s] = "running"
  /\ box' = [box EXCEPT ![s] = "dead"]
  /\ UNCHANGED <<row, file, overdue, gate, act>>

Restart ==
  /\ Restarts
  /\ row' = IF UseDb THEN row ELSE saved
  /\ crossed' = FALSE
  /\ gate' = FALSE
  /\ act' = [a \in Actors |-> Idle]
  /\ UNCHANGED <<saved, box, overdue>>

CallStep(c) ==
  \/ GateEnter(c) \/ GateWake(c) \/ GateList(c) \/ GateFails(c)
  \/ SpawnFails(c) \/ Save(c) \/ PrepareFails(c)
  \/ RunRead(c) \/ RunWrite(c) \/ RunFails(c) \/ DestroyAll(c)
  \/ \E s \in Sessions :
       Spawn(c, s) \/ RunStart(c, s) \/ DestroyOne(c, s) \/ DestroyNext(c, s)
PassStep(p) ==
  \/ PassStart(p) \/ Expire(p) \/ MarkGone(p)
  \/ \E s \in Sessions : PassLate(p, s) \/ PassProbe(p, s)
AnyStep(a) ==
  \/ Finish(a) \/ Spared(a) \/ DestroyFails(a) \/ Kill(a) \/ Mark(a)
  \/ Snapshot(a) \/ Rename(a) \/ WriteFails(a)

Next ==
  \/ \E c \in Calls : CallStep(c) \/ AnyStep(c)
  \/ \E p \in Passes : PassStep(p) \/ AnyStep(p)
  \/ \E s \in Sessions : Overdue(s) \/ Die(s)
  \/ Restart

Spec == Init /\ [][Next]_vars

(* Passes start with every period, and each of their requests and queries  *)
(* answers or times out.                                                   *)
FairSpec == Spec /\ \A p \in Passes : WF_vars(PassStep(p) \/ AnyStep(p))

-----------------------------------------------------------------------------
TypeOK ==
  /\ row \in Rows /\ saved \in Rows /\ crossed \in BOOLEAN
  /\ box \in [Sessions -> BoxStates]
  /\ overdue \subseteq Sessions
  /\ gate \in BOOLEAN
  /\ act \in [Actors -> Act]

(* What the gate does guarantee: every call may add one session on a count *)
(* of active sessions that others made stale, by a create that passed the  *)
(* gate or by writing back a row that was active when it was read.  So the *)
(* active sessions exceed the maximum by less than the calls in flight.    *)
ActiveOvershoot ==
  Cardinality(ActiveRows) <= MaxActive - 1 + Cardinality(Calls)

(* Where no request fails no sandbox is forgotten: one that runs is listed *)
(* as active, or the create that spawned it is about to save it.  Create,  *)
(* destroy and the reconciler change the sandbox and the row in separate   *)
(* steps; only a restart between them, or one that finds an older file,    *)
(* leaves a sandbox that no row names.                                     *)
Orphan(s) ==
  /\ box[s] = "running" /\ row[s] # "active"
  /\ \A c \in Calls : ~(At(c, "save") /\ act[c].session = s)
NoOrphan ==
  [][\A s \in Sessions : ~Orphan(s) /\ Orphan(s)' => Restart]_vars

(* With files a session that was destroyed or has expired is never active  *)
(* again, whatever commands were still running in it and however the       *)
(* writes of the file come between, unless a restart finds an older file:  *)
(* a write is not done, or two have overlapped or one has failed before.   *)
Saving(a) == act[a].at \in {"persist", "rename"}
LeftForGood ==
  [][\A s \in Sessions :
       row[s] \in {"expired", "destroyed"} /\ row'[s] = "active" =>
         Restart /\ (crossed \/ \E a \in Actors : Saving(a))]_vars

(* A session whose sandbox is gone does not stay active: a pass marks it,  *)
(* also after a restart has brought back a file in which it was active,    *)
(* provided that restarts come to an end.                                  *)
DeadIsNoticed ==
  <>[][~Restart]_vars =>
    \A s \in Sessions :
      row[s] = "active" /\ box[s] = "dead" ~> row[s] # "active"
=============================================================================
