----------------------------- MODULE CodingTask -----------------------------
(***************************************************************************)
(* One coding task of the workflow engine (src/src/workflow): its stored   *)
(* row, its evidence ledger, the Git checkout of its worker sandbox, and   *)
(* the MCP tool calls that work on it concurrently.                        *)
(*                                                                         *)
(* A tool call is an async function: it runs without interruption between  *)
(* two awaits, and any other call may run at an await.  Every action below *)
(* is one such stretch.  A call reads the task once, at its start, awaits  *)
(* Git queries in the sandbox and ledger queries, and writes the task at   *)
(* its end through TaskStore.updateTask, which is atomic under the task's  *)
(* lock.  What a call remembers across its awaits is its record in calls.  *)
(***************************************************************************)
EXTENDS Integers, Sequences, FiniteSets

CONSTANTS
  Calls,         \* slots for tool calls in flight at the same time
  Tools,         \* the tools the clients of this instance use
  UseDb,         \* TRUE: Postgres store; FALSE: JSON files and a cache
  RepairLimit,   \* repairCycleLimit of the task
  CommandLimit,  \* totalCommandLimit of the task
  Window,        \* the LIMIT of listEvidence (100 in the code)
  GitReliable,   \* FALSE: a sandbox command may fail and print nothing
  Background,    \* TRUE: the checkout may change while a call is in flight
  RealExecution, \* TRUE: callers of recordCommand pass the execution's result
  MaxHead, MaxEvidence, MaxAttempts    \* bounds of the instance

AllTools ==
  { "repository_intelligence_scan", "coding_plan_set", "coding_plan_update_step",
    "execution_record_command", "validation_cycle_start",
    "validation_cycle_complete", "repair_attempt_start",
    "repair_attempt_complete", "coding_task_resume", "coding_completion_gate",
    "coding_task_abandon" }

ASSUME CallsAssumption == IsFiniteSet(Calls) /\ Calls # {}
ASSUME ToolsAssumption == Tools \subseteq AllTools
ASSUME FlagsAssumption == /\ UseDb \in BOOLEAN /\ GitReliable \in BOOLEAN
                          /\ Background \in BOOLEAN /\ RealExecution \in BOOLEAN
\* createTask replaces a limit of 0 by its default, so limits are positive.
ASSUME LimitsAssumption == /\ RepairLimit \in Nat \ {0}
                           /\ CommandLimit \in Nat \ {0}
                           /\ Window \in Nat \ {0}
ASSUME BoundsAssumption == /\ MaxHead \in Nat /\ MaxEvidence \in Nat
                           /\ MaxAttempts \in Nat

VARIABLES
  task,      \* the row of the task in the store
  attempts,  \* repair attempt ids handed out so far: 1..attempts
  evidence,  \* the task's evidence, in the order of its timestamps
  tree,      \* the Git checkout in the worker sandbox
  calls      \* what each call in flight remembers

vars == <<task, attempts, evidence, tree, calls>>

-----------------------------------------------------------------------------
(* Commits of the checkout are numbered 0, 1, ...; NoSha is the empty SHA. *)
NoSha == -1
Heads == 0..MaxHead
Shas == Heads \cup {NoSha}

TaskStates == { "CREATED", "DISCOVERING", "PLANNING", "READY", "IMPLEMENTING",
                "VALIDATING", "REPAIRING", "REVIEWING", "BLOCKED",
                "READY_TO_PUBLISH", "ABANDONED" }

(* Of a plan, what the gate tells apart: no step yet, an unfinished step,  *)
(* every step completed or skipped.                                        *)
PlanStates == {"none", "open", "done"}

Task == [state : TaskStates, commands : Nat, repairs : Nat, attempt : Nat,
         cycle : BOOLEAN, head : Shas, base : Shas, plan : PlanStates]

Verdicts == {"passed", "failed"}
(* ran is how the execution really ended, status what the record says; a   *)
(* lost record is no longer in the ledger, the others keep its place.      *)
Evidence == [head : Shas, status : Verdicts, ran : Verdicts, stale : BOOLEAN,
             lost : BOOLEAN]

(* branch is the output of git branch --show-current, "" if HEAD is        *)
(* detached; main is the commit of the default branch.                     *)
Tree == [head : Heads, main : Heads, dirty : BOOLEAN,
         branch : {"main", "feature", ""}]

Phases == { "idle", "scanGit", "scanSave", "planSave", "stepSave",
            "refuseCommand", "recordGit", "recordInsert", "recordCount",
            "refuseRepair", "cycleOpen", "cycleGit", "cycleList", "cycleClose",
            "repairOpen", "repairGit", "repairStale", "repairClose",
            "resumeGit", "resumeStale", "resumeSave",
            "gateBranch", "gateStatus", "gateLog", "gateEvidence", "gateDiff",
            "gateReady" }

(* A call: where it stands; its arguments; its copy of the task's head,    *)
(* base and plan (live: the copy is the cached object itself); what Git    *)
(* answered (sha); the verdict of a validation cycle (ok).                 *)
Call == [at : Phases, id : Nat, ids : SUBSET Nat, changed : BOOLEAN,
         done : BOOLEAN, ack : BOOLEAN, ran : Verdicts, newPlan : PlanStates,
         cp : Shas, head : Shas, base : Shas, plan : PlanStates, live : BOOLEAN,
         sha : Shas, ok : BOOLEAN]

Idle == [at |-> "idle", id |-> 0, ids |-> {}, changed |-> FALSE,
         done |-> FALSE, ack |-> FALSE, ran |-> "passed", newPlan |-> "none",
         cp |-> NoSha,
         head |-> NoSha, base |-> NoSha, plan |-> "none", live |-> FALSE,
         sha |-> NoSha, ok |-> FALSE]

Init ==
  /\ task = [state |-> "CREATED", commands |-> 0, repairs |-> 0, attempt |-> 0,
             cycle |-> FALSE, head |-> NoSha, base |-> NoSha, plan |-> "none"]
  /\ attempts = 0
  /\ evidence = <<>>
  /\ tree = [head |-> 0, main |-> 0, dirty |-> FALSE, branch |-> "main"]
  /\ calls = [c \in Calls |-> Idle]

-----------------------------------------------------------------------------
(* The beginning of a call: it reads the task (getTask).                   *)
Begin(c, tool, call) ==
  /\ tool \in Tools
  /\ calls[c].at = "idle"
  /\ calls' = [calls EXCEPT ![c] =
                 [call EXCEPT !.head = task.head, !.base = task.base,
                              !.plan = task.plan, !.live = ~UseDb]]
  /\ UNCHANGED <<task, attempts, evidence, tree>>

At(c, phase) == calls[c].at = phase
Goto(c, call) == calls' = [calls EXCEPT ![c] = call]

(* The call returns or throws without writing anything (more).             *)
Return(c) == Goto(c, Idle)

(* updateTask, the last thing a call does.  The Postgres UPDATE has no     *)
(* base_sha column, so a new base is lost.  With files, getTask hands out  *)
(* the cached object, the updater changes it in place, and the cache then  *)
(* gets a copy: a call that still holds that object sees this one update   *)
(* and none after it.                                                      *)
Refreshed(call, new) ==
  IF call.live
  THEN [call EXCEPT !.head = new.head, !.base = new.base, !.plan = new.plan,
                    !.live = FALSE]
  ELSE call

Update(c, new) ==
  /\ task' = IF UseDb THEN [new EXCEPT !.base = task.base] ELSE new
  /\ calls' = [d \in Calls |-> IF d = c THEN Idle ELSE Refreshed(calls[d], new)]

(* A sandbox command answers, or it fails and execOneShot makes that an    *)
(* empty output with exit code 0.                                          *)
Answers(value, empty) == IF GitReliable THEN {value} ELSE {value, empty}
HeadAnswers == Answers(tree.head, NoSha)
OrElse(sha, default) == IF sha = NoSha THEN default ELSE sha

(* listEvidence returns the Window oldest records only.                    *)
Kept == {i \in DOMAIN evidence : ~evidence[i].lost}
Visible == {i \in Kept : Cardinality({j \in Kept : j <= i}) <= Window}
Fresh(i, status) == evidence[i].status = status /\ ~evidence[i].stale

(* With files, the ledger is rewritten from what listEvidence returned.    *)
Rewritten(i) ==
  [evidence[i] EXCEPT !.lost = evidence[i].lost \/ (~UseDb /\ i \notin Visible)]

-----------------------------------------------------------------------------
(* repository_intelligence_scan: discovery of the checkout.                *)
ScanStart(c) ==
  Begin(c, "repository_intelligence_scan", [Idle EXCEPT !.at = "scanGit"])

ScanGit(c) ==
  /\ At(c, "scanGit")
  /\ \E sha \in HeadAnswers :
       Goto(c, [calls[c] EXCEPT !.at = "scanSave", !.sha = sha])
  /\ UNCHANGED <<task, attempts, evidence, tree>>

ScanSave(c) ==
  /\ At(c, "scanSave")
  /\ Update(c, [task EXCEPT
       !.state = IF task.state = "CREATED" THEN "DISCOVERING" ELSE task.state,
       !.base = OrElse(task.base, calls[c].sha),
       !.head = calls[c].sha])
  /\ UNCHANGED <<attempts, evidence, tree>>

(* coding_plan_set: the client may send steps that are completed already.  *)
PlanStart(c) ==
  \E plan \in {"open", "done"} :
    Begin(c, "coding_plan_set",
          [Idle EXCEPT !.at = "planSave", !.newPlan = plan])

PlanSave(c) ==
  /\ At(c, "planSave")
  /\ Update(c, [task EXCEPT
       !.plan = calls[c].newPlan,
       !.state = IF task.state \in {"CREATED", "DISCOVERING", "PLANNING"}
                 THEN "READY" ELSE task.state])
  /\ UNCHANGED <<attempts, evidence, tree>>

(* coding_plan_update_step: writes back the whole plan it read, with one   *)
(* step changed; ack: the new status of the step is in-progress.           *)
StepStart(c) ==
  /\ task.plan # "none"
  /\ \E plan \in {"open", "done"}, starts \in BOOLEAN :
       /\ starts => plan = "open"
       /\ Begin(c, "coding_plan_update_step",
                [Idle EXCEPT !.at = "stepSave", !.newPlan = plan,
                             !.ack = starts])

StepSave(c) ==
  /\ At(c, "stepSave")
  /\ Update(c, [task EXCEPT
       !.plan = calls[c].newPlan,
       !.state = IF calls[c].ack /\ task.state \in {"READY", "PLANNING"}
                 THEN "IMPLEMENTING" ELSE task.state])
  /\ UNCHANGED <<attempts, evidence, tree>>

-----------------------------------------------------------------------------
(* The two budgets.  Mutants: the check is missing; it is off by one.      *)
CommandsNeverSpent == FALSE
CommandsSpentEarly == task.commands + 1 >= CommandLimit
CommandsSpent == task.commands >= CommandLimit

RepairsSpentLate == task.repairs > RepairLimit
RepairsSpentEarly == task.repairs + 1 >= RepairLimit
RepairsSpent == task.repairs >= RepairLimit

(* execution_record_command: the budget is checked on the task as read.    *)
RecordStart(c) ==
  \E ran \in Verdicts :
    Begin(c, "execution_record_command",
          [Idle EXCEPT !.at = IF CommandsSpent
                              THEN "refuseCommand" ELSE "recordGit",
                       !.ran = ran])

RefuseCommand(c) ==
  /\ At(c, "refuseCommand")
  /\ Update(c, [task EXCEPT !.state = "BLOCKED"])
  /\ UNCHANGED <<attempts, evidence, tree>>

(* Mutant: the command is counted, but its evidence never inserted.        *)
RecordGitUnrecorded(c) ==
  /\ At(c, "recordGit")
  /\ Goto(c, [calls[c] EXCEPT !.at = "recordCount"])
  /\ UNCHANGED <<task, attempts, evidence, tree>>

RecordGit(c) ==
  /\ At(c, "recordGit")
  /\ \E sha \in HeadAnswers :
       Goto(c, [calls[c] EXCEPT !.at = "recordInsert",
                                !.sha = OrElse(sha, calls[c].head)])
  /\ UNCHANGED <<task, attempts, evidence, tree>>

(* Without the result of the execution, exitCode defaults to 0.            *)
RecordedStatus(ran) == IF RealExecution THEN ran ELSE "passed"

RecordInsert(c) ==
  /\ At(c, "recordInsert")
  /\ Len(evidence) < MaxEvidence
  /\ evidence' = Append([i \in DOMAIN evidence |-> Rewritten(i)],
       [head |-> calls[c].sha, status |-> RecordedStatus(calls[c].ran),
        ran |-> calls[c].ran, stale |-> FALSE, lost |-> FALSE])
  /\ Goto(c, [calls[c] EXCEPT !.at = "recordCount"])
  /\ UNCHANGED <<task, attempts, tree>>

RecordCount(c) ==
  /\ At(c, "recordCount")
  /\ Update(c, [task EXCEPT !.commands = task.commands + 1,
                            !.head = calls[c].sha])
  /\ UNCHANGED <<attempts, evidence, tree>>

-----------------------------------------------------------------------------
(* validation_cycle_start: the budget counts only while REPAIRING.  The    *)
(* two Git queries between the check and the update change nothing stored. *)
CycleStart(c) ==
  Begin(c, "validation_cycle_start",
        [Idle EXCEPT !.at = IF RepairsSpent /\ task.state = "REPAIRING"
                            THEN "refuseRepair" ELSE "cycleOpen"])

RefuseRepair(c) ==
  /\ At(c, "refuseRepair")
  /\ Update(c, [task EXCEPT !.state = "BLOCKED"])
  /\ UNCHANGED <<attempts, evidence, tree>>

CycleOpen(c) ==
  /\ At(c, "cycleOpen")
  /\ Update(c, [task EXCEPT
       !.state = IF task.state = "REPAIRING" THEN "REPAIRING" ELSE "VALIDATING",
       !.cycle = TRUE])
  /\ UNCHANGED <<attempts, evidence, tree>>

(* validation_cycle_complete: the cycle id is never compared with the      *)
(* active one, and staleness of the evidence is not looked at.             *)
CycleCompleteStart(c) ==
  \E ids \in SUBSET DOMAIN evidence :
    Begin(c, "validation_cycle_complete",
          [Idle EXCEPT !.at = "cycleGit", !.ids = ids])

CycleGit(c) ==
  /\ At(c, "cycleGit")
  /\ \E sha \in HeadAnswers :
       Goto(c, [calls[c] EXCEPT !.at = "cycleList",
                                !.sha = OrElse(sha, calls[c].head)])
  /\ UNCHANGED <<task, attempts, evidence, tree>>

CycleList(c) ==
  /\ At(c, "cycleList")
  /\ IF calls[c].ids \subseteq Visible
     THEN Goto(c, [calls[c] EXCEPT !.at = "cycleClose",
            !.ok = \A i \in calls[c].ids : evidence[i].status = "passed"])
     ELSE Return(c)
  /\ UNCHANGED <<task, attempts, evidence, tree>>

CycleClose(c) ==
  /\ At(c, "cycleClose")
  /\ Update(c, [task EXCEPT
       !.cycle = FALSE, !.head = calls[c].sha,
       !.state = IF calls[c].ok THEN "REVIEWING" ELSE "REPAIRING"])
  /\ UNCHANGED <<attempts, evidence, tree>>

-----------------------------------------------------------------------------
(* repair_attempt_start: both guards look at the task as read.             *)
RepairStart(c) ==
  /\ task.attempt = 0
  /\ Begin(c, "repair_attempt_start",
           [Idle EXCEPT !.at = IF RepairsSpent
                               THEN "refuseRepair" ELSE "repairOpen"])

RepairOpen(c) ==
  /\ At(c, "repairOpen")
  /\ attempts < MaxAttempts
  /\ attempts' = attempts + 1
  /\ Update(c, [task EXCEPT !.state = "REPAIRING", !.attempt = attempts + 1])
  /\ UNCHANGED <<evidence, tree>>

(* repair_attempt_complete: changed tells whether changedPaths is not      *)
(* empty, done whether the result is 'changed'.                            *)
RepairCompleteStart(c) ==
  /\ task.attempt # 0
  /\ \E changed \in BOOLEAN, done \in BOOLEAN :
       Begin(c, "repair_attempt_complete",
             [Idle EXCEPT !.at = "repairGit", !.id = task.attempt,
                          !.changed = changed, !.done = done])

RepairGit(c) ==
  /\ At(c, "repairGit")
  /\ \E answer \in HeadAnswers :
       Goto(c, [calls[c] EXCEPT !.at = "repairStale",
                                !.sha = OrElse(answer, calls[c].head)])
  /\ UNCHANGED <<task, attempts, evidence, tree>>

(* markStaleEvidence: every record with Postgres, with files those listed, *)
(* and the file is only written when one of them was fresh.                *)
MarkStale ==
  LET listed == IF UseDb THEN DOMAIN evidence ELSE Visible IN
  evidence' = IF \A i \in listed : evidence[i].stale
              THEN evidence
              ELSE [i \in DOMAIN evidence |->
                      [Rewritten(i) EXCEPT !.stale = evidence[i].stale
                                                       \/ i \in listed]]

(* Mutant: uncommitted changes do not count. *)
HeadMoved(c) == calls[c].sha # calls[c].head
CodeChanged(c) == calls[c].changed \/ calls[c].sha # calls[c].head

RepairStale(c) ==
  /\ At(c, "repairStale")
  /\ IF CodeChanged(c)
     THEN MarkStale ELSE UNCHANGED evidence
  /\ Goto(c, [calls[c] EXCEPT !.at = "repairClose"])
  /\ UNCHANGED <<task, attempts, tree>>

Charged == task.repairs + 1

(* Mutant: the attempt stays open. *)
RepairCloseKept(c) ==
  /\ At(c, "repairClose")
  /\ Update(c, [task EXCEPT !.repairs = Charged, !.head = calls[c].sha])
  /\ UNCHANGED <<attempts, evidence, tree>>

RepairClose(c) ==
  /\ At(c, "repairClose")
  /\ Update(c, [task EXCEPT
       !.attempt = 0, !.repairs = Charged, !.head = calls[c].sha,
       !.state = IF Charged >= RepairLimit /\ ~calls[c].done
                 THEN "BLOCKED" ELSE task.state])
  /\ UNCHANGED <<attempts, evidence, tree>>

-----------------------------------------------------------------------------
(* coding_task_resume from a checkpoint taken at commit cp: evidence goes  *)
(* stale when the head has moved since; the head is stored as answered.    *)
Checkpoints == (0..tree.head) \cup (IF GitReliable THEN {} ELSE {NoSha})

ResumeStart(c) ==
  \E cp \in Checkpoints :
    Begin(c, "coding_task_resume", [Idle EXCEPT !.at = "resumeGit", !.cp = cp])

ResumeGit(c) ==
  /\ At(c, "resumeGit")
  /\ \E sha \in HeadAnswers :
       Goto(c, [calls[c] EXCEPT !.at = "resumeStale", !.sha = sha])
  /\ UNCHANGED <<task, attempts, evidence, tree>>

ResumeStale(c) ==
  /\ At(c, "resumeStale")
  /\ IF calls[c].sha # calls[c].cp THEN MarkStale ELSE UNCHANGED evidence
  /\ Goto(c, [calls[c] EXCEPT !.at = "resumeSave"])
  /\ UNCHANGED <<task, attempts, tree>>

ResumeSave(c) ==
  /\ At(c, "resumeSave")
  /\ Update(c, [task EXCEPT !.head = calls[c].sha])
  /\ UNCHANGED <<attempts, evidence, tree>>

-----------------------------------------------------------------------------
(* coding_completion_gate: six checks, each at its own await.  A failed    *)
(* one only makes the verdict negative, so the call is over for the store. *)
Gate(c, phase, passed, next) ==
  /\ At(c, phase)
  /\ IF passed THEN Goto(c, [calls[c] EXCEPT !.at = next]) ELSE Return(c)
  /\ UNCHANGED <<task, attempts, evidence, tree>>

GateStart(c) ==
  \E ack \in BOOLEAN :
    Begin(c, "coding_completion_gate",
          [Idle EXCEPT !.at = "gateBranch", !.ack = ack])

GateBranch(c) ==
  \E branch \in Answers(tree.branch, "") :
    Gate(c, "gateBranch", branch # "main", "gateStatus")

(* Mutant: the worktree is not looked at. *)
GateStatusSkipped(c) == Gate(c, "gateStatus", TRUE, "gateLog")
GateStatus(c) ==
  \E dirty \in Answers(tree.dirty, FALSE) :
    Gate(c, "gateStatus", ~dirty, "gateLog")

(* git log base..HEAD, with the branch main when the task has no base.     *)
CommitsBeyond(base) == tree.head > OrElse(base, tree.main)

GateLog(c) ==
  \E commits \in Answers(CommitsBeyond(calls[c].base), FALSE) :
    Gate(c, "gateLog", commits /\ calls[c].plan # "open", "gateEvidence")

GateEvidence(c) ==
  Gate(c, "gateEvidence",
       /\ \A i \in Visible : ~Fresh(i, "failed")
       /\ calls[c].ack \/ \E i \in Visible : Fresh(i, "passed"),
       "gateDiff")

GateDiff(c) ==
  \E noSecret \in BOOLEAN : Gate(c, "gateDiff", noSecret, "gateReady")

GateReady(c) ==
  /\ At(c, "gateReady")
  /\ Update(c, [task EXCEPT !.state = "READY_TO_PUBLISH"])
  /\ UNCHANGED <<attempts, evidence, tree>>

(* coding_task_abandon is one update with no earlier read.                 *)
Abandon(c) ==
  /\ "coding_task_abandon" \in Tools
  /\ At(c, "idle")
  /\ Update(c, [task EXCEPT !.state = "ABANDONED"])
  /\ UNCHANGED <<attempts, evidence, tree>>

(* A call in flight fails for good: a query throws, or the process dies.   *)
Abort(c) ==
  /\ ~At(c, "idle")
  /\ Return(c)
  /\ UNCHANGED <<task, attempts, evidence, tree>>

-----------------------------------------------------------------------------
(* The agent works in the checkout through its terminals.                  *)
Work ==
  /\ Background \/ \A c \in Calls : At(c, "idle")
  /\ UNCHANGED <<task, attempts, evidence, calls>>

Edit == Work /\ ~tree.dirty /\ tree' = [tree EXCEPT !.dirty = TRUE]

Commit ==
  /\ Work
  /\ tree.dirty
  /\ tree.head < MaxHead
  /\ tree' = [tree EXCEPT !.dirty = FALSE, !.head = tree.head + 1,
                          !.main = IF tree.branch = "main"
                                   THEN tree.head + 1 ELSE tree.main]

LeaveBranch ==
  /\ Work
  /\ \E branch \in {"feature", ""} \ {tree.branch} :
       tree' = [tree EXCEPT !.branch = branch]

-----------------------------------------------------------------------------
Plan(c) == PlanStart(c) \/ PlanSave(c) \/ StepStart(c) \/ StepSave(c)
Scan(c) == ScanStart(c) \/ ScanGit(c) \/ ScanSave(c)
Record(c) == \/ RecordStart(c) \/ RefuseCommand(c) \/ RecordGit(c)
             \/ RecordInsert(c) \/ RecordCount(c)
Validate(c) == \/ CycleStart(c) \/ RefuseRepair(c) \/ CycleOpen(c)
               \/ CycleCompleteStart(c) \/ CycleGit(c) \/ CycleList(c)
               \/ CycleClose(c)
Repair(c) == \/ RepairStart(c) \/ RepairOpen(c) \/ RepairCompleteStart(c)
             \/ RepairGit(c) \/ RepairStale(c) \/ RepairClose(c)
Resume(c) == ResumeStart(c) \/ ResumeGit(c) \/ ResumeStale(c) \/ ResumeSave(c)
Evaluate(c) == \/ GateStart(c) \/ GateBranch(c) \/ GateStatus(c) \/ GateLog(c)
               \/ GateEvidence(c) \/ GateDiff(c) \/ GateReady(c)

Next ==
  \/ \E c \in Calls : \/ Plan(c) \/ Scan(c) \/ Record(c) \/ Validate(c)
                      \/ Repair(c) \/ Resume(c) \/ Evaluate(c)
                      \/ Abandon(c) \/ Abort(c)
  \/ Edit \/ Commit \/ LeaveBranch

Spec == Init /\ [][Next]_vars

-----------------------------------------------------------------------------
(* Type invariant. *)
TypeOK ==
  /\ task \in Task
  /\ attempts \in Nat
  /\ evidence \in Seq(Evidence)
  /\ tree \in Tree
  /\ calls \in [Calls -> Call]

(* The clients call one tool at a time. *)
Serial == \A c, d \in Calls : c = d

(* A task is BLOCKED only when one of its two budgets is really spent:     *)
(* the checks of recordCommand, startValidationCycle, startRepairAttempt   *)
(* and completeRepairAttempt run on a copy of the task, other calls write  *)
(* before the state is set, and still no task with budget left is blocked. *)
BlockedHasReason ==
  task.state = "BLOCKED" =>
    task.commands >= CommandLimit \/ task.repairs >= RepairLimit

(* recordCommand checks the command limit long before it counts: each call *)
(* in flight can carry the count one past the limit, and no more.          *)
CommandOvershoot ==
  task.commands <= CommandLimit - 1 + Cardinality(Calls)

(* The same for repair attempts.  A delayed repair_attempt_start opens an  *)
(* attempt after the budget is spent and every free call can complete it,  *)
(* so the overshoot is triangular in the number of calls in flight; with   *)
(* one call at a time there is none.                                       *)
RepairOvershoot ==
  LET n == Cardinality(Calls) IN
  task.repairs <= RepairLimit - 1 + (n * (n + 1)) \div 2

(* Every counted command left an evidence record behind, whatever call was *)
(* aborted between the two writes of recordCommand.                        *)
CountedHasEvidence == task.commands <= Len(evidence)

(* One call at a time, the repair attempts implement the abstract budget.  *)
Budget == INSTANCE RepairBudget
            WITH Limit <- RepairLimit, spent <- task.repairs,
                 open <- task.attempt # 0
BudgetSpec == Budget!Spec

(* What the completion gate stands for: a branch of its own, nothing       *)
(* uncommitted, commits beyond the base, no open plan step, and in the     *)
(* ledger no failed check that is not stale, and a fresh passed one or an  *)
(* acknowledgement.                                                        *)
Publishable(ack) ==
  /\ tree.branch # "main"
  /\ ~tree.dirty
  /\ CommitsBeyond(task.base)
  /\ task.plan # "open"
  /\ \A i \in Kept : ~Fresh(i, "failed")
  /\ ack \/ \E i \in Kept : Fresh(i, "passed")

ListedWhole == Cardinality(Kept) <= Window

(* The gate decides on six answers it got at different times.  Where calls *)
(* do not overlap, Git answers, and the ledger fits in one listing, the    *)
(* task becomes READY_TO_PUBLISH only when all six hold at that moment.    *)
GateSound ==
  [][ Serial /\ GitReliable /\ ~Background /\ ListedWhole =>
        \A c \in Calls :
          At(c, "gateReady") /\ task'.state = "READY_TO_PUBLISH"
            => task' = task \/ Publishable(calls[c].ack) ]_vars

(* A completed repair attempt that changed files leaves no evidence from   *)
(* before it fresh, if calls do not overlap.  With files markStaleEvidence *)
(* reaches what one listing returns, so the ledger has to fit in one.      *)
ChangeClearsEvidence ==
  [][ Serial /\ (UseDb \/ ListedWhole) => \A c \in Calls :
        At(c, "repairClose") /\ calls[c].changed /\ task'.repairs > task.repairs
          => \A i \in Kept : evidence[i].stale ]_vars

=============================================================================
