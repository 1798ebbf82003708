------------------------- MODULE VerificationCycles --------------------------
(***************************************************************************)
(* The browser verification cycles of one task: VerificationCycleManager   *)
(* (src/src/browser/verification-cycle-manager.ts) under the tools         *)
(* browser_verification_cycle_start, _complete and _get                    *)
(* (src/src/mcp/tools/phase6-tools.ts).                                    *)
(*                                                                         *)
(* Every operation is one stretch.  Heads and numbers of failures are what *)
(* the client says: nothing compares them with the checkout or the lists   *)
(* of PageEvidence.  A cycle may be completed any number of times and in   *)
(* any order, also when a later one has been started.                      *)
(***************************************************************************)
EXTENDS Naturals, Sequences

CONSTANTS
  Heads,          \* commits a client may name
  NoHead,         \* currentHeadSha is not given
  MaxCycles,      \* bound of the instance: cycles of the task
  MaxCompletions  \* bound of the instance: completions of each

ASSUME HeadAssumption == NoHead \notin Heads
ASSUME CycleBoundAssumption == MaxCycles \in Nat /\ MaxCompletions \in Nat

VARIABLES
  cycles,   \* the task's records, in the order they were started
  reports   \* history: what the completions of each cycle said

cycleVars == <<cycles, reports>>

Statuses == {"in-progress", "passed", "failed", "incomplete"}

CyclesInit == cycles = <<>> /\ reports = <<>>

StartCycle(head) ==
  /\ Len(cycles) < MaxCycles
  /\ cycles' = Append(cycles, [head |-> head, status |-> "in-progress"])
  /\ reports' = Append(reports, <<>>)

(* Mutant: only a cycle that is in progress becomes incomplete. *)
VerdictKept(cycle, head, failures) ==
  IF cycle.head # head
  THEN IF cycle.status = "in-progress" THEN "incomplete" ELSE cycle.status
  ELSE IF failures THEN "failed" ELSE "passed"
Verdict(cycle, head, failures) ==
  IF cycle.head # head THEN "incomplete"
  ELSE IF failures THEN "failed" ELSE "passed"

CompleteCycle(i, head, failures) ==
  /\ i \in DOMAIN cycles /\ Len(reports[i]) < MaxCompletions
  /\ cycles' = [cycles EXCEPT ![i].status = Verdict(cycles[i], head, failures)]
  /\ reports' = [reports EXCEPT ![i] =
                   Append(@, [head |-> head, failures |-> failures])]

(* getTaskVerificationState: of the cycle started last, whatever was       *)
(* completed last.  To a client that names no head nothing is stale.       *)
Latest == cycles[Len(cycles)]
IsStale(head) == cycles = <<>> \/ head \notin {NoHead, Latest.head}
HasPassedCycle(head) == ~IsStale(head) /\ Latest.status = "passed"

CyclesNext ==
  \E head \in Heads :
    \/ StartCycle(head)
    \/ \E i \in 1..MaxCycles, failures \in BOOLEAN : CompleteCycle(i, head, failures)

CyclesSpec == CyclesInit /\ [][CyclesNext]_cycleVars

-----------------------------------------------------------------------------
CyclesTypeOK ==
  /\ cycles \in Seq([head : Heads, status : Statuses])
  /\ reports \in Seq(Seq([head : Heads, failures : BOOLEAN]))

(* A task is reported as verified, for a head or for none, only if the     *)
(* cycle started last began on that head and what was last said of that    *)
(* cycle is that it ended where it began with no failure: no earlier pass  *)
(* of it, and no pass of an earlier cycle, stands against that.            *)
VerifiedByLatest ==
  \A head \in Heads \cup {NoHead} : HasPassedCycle(head) =>
    LET said == reports[Len(reports)]
    IN  /\ said # <<>>
        /\ said[Len(said)] = [head |-> Latest.head, failures |-> FALSE]
        /\ head \in {NoHead, Latest.head}
=============================================================================
