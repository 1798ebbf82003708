-------------------------- MODULE CodingTaskProofs --------------------------
(***************************************************************************)
(* Proofs about CodingTask, for every number of calls in flight and every  *)
(* value of the limits: first the types, then the budgets, that is, what   *)
(* the counters can reach when tool calls overlap, and that a client       *)
(* calling one tool at a time sees the abstract budget of RepairBudget;    *)
(* last what the completion gate and a repair say of the evidence where    *)
(* calls do not overlap.                                                   *)
(***************************************************************************)
EXTENDS CodingTask, FiniteSetTheorems, SequenceTheorems, TLAPS

-----------------------------------------------------------------------------
(* Type correctness. *)

(* The blank record of an idle slot is a call. *)
LEMMA IdleIsCall == Idle \in Call
  BY DEF Idle, Call, Phases, PlanStates, Verdicts, Shas, NoSha

LEMMA BeginType ==
  ASSUME TypeOK, NEW c \in Calls, NEW tool, NEW call \in Call,
         Begin(c, tool, call)
  PROVE  TypeOK'
<1>1. [call EXCEPT !.head = task.head, !.base = task.base,
                   !.plan = task.plan, !.live = ~UseDb] \in Call
  BY DEF TypeOK, Task, Call
<1>. QED  BY <1>1 DEF Begin, TypeOK

(* A call that moves on, with an answer or a verdict, is still a call. *)
LEMMA MoveType ==
  ASSUME TypeOK, NEW c \in Calls, NEW phase \in Phases
  PROVE  /\ [calls[c] EXCEPT !.at = phase] \in Call
         /\ \A sha \in Shas : [calls[c] EXCEPT !.at = phase, !.sha = sha] \in Call
         /\ \A ok \in BOOLEAN : [calls[c] EXCEPT !.at = phase, !.ok = ok] \in Call
<1>1. calls[c] \in Call
  BY DEF TypeOK
<1>. QED  BY <1>1 DEF Call

LEMMA GotoType ==
  ASSUME TypeOK, NEW c \in Calls, NEW call \in Call, Goto(c, call)
  PROVE  calls' \in [Calls -> Call]
  BY DEF Goto, TypeOK

LEMMA RefreshedType ==
  ASSUME NEW call \in Call, NEW new \in Task
  PROVE  Refreshed(call, new) \in Call
  BY DEF Refreshed, Task, Call

LEMMA UpdateType ==
  ASSUME TypeOK, NEW c \in Calls, NEW new \in Task, Update(c, new)
  PROVE  /\ task' \in Task
         /\ calls' \in [Calls -> Call]
<1>1. task' \in Task
  BY DEF Update, TypeOK, Task
<1>2. ASSUME NEW d \in Calls  PROVE Refreshed(calls[d], new) \in Call
  BY RefreshedType DEF TypeOK
<1>. QED  BY <1>1, <1>2, IdleIsCall DEF Update

LEMMA HeadType ==
  ASSUME TypeOK
  PROVE  tree.head \in Heads /\ tree.main \in Heads
  BY DEF TypeOK, Tree

(* What a Git query may answer. *)
LEMMA AnswerType ==
  ASSUME TypeOK, NEW sha \in HeadAnswers, NEW default \in Shas
  PROVE  sha \in Shas /\ OrElse(sha, default) \in Shas
  BY DEF HeadAnswers, Answers, OrElse, TypeOK, Tree, Shas

(* Rewriting a sequence element by element gives a sequence as long. *)
LEMMA MapSeq ==
  ASSUME NEW S, NEW s \in Seq(S), NEW f,
         f = [i \in DOMAIN s |-> f[i]],
         \A i \in DOMAIN s : f[i] \in S
  PROVE  f \in Seq(S) /\ Len(f) = Len(s)
<1>1. DOMAIN s = 1..Len(s) /\ Len(s) \in Nat
  BY LenProperties
<1>2. f \in [1..Len(s) -> S]
  BY <1>1
<1>. QED  BY <1>1, <1>2, SeqDef, LenProperties

LEMMA RewrittenType ==
  ASSUME TypeOK, NEW i \in DOMAIN evidence
  PROVE  Rewritten(i) \in Evidence
<1>1. evidence[i] \in Evidence
  BY ElementOfSeq, LenProperties DEF TypeOK
<1>. QED  BY <1>1 DEF Rewritten, Evidence

LEMMA RewrittenSeq ==
  ASSUME TypeOK
  PROVE  /\ [i \in DOMAIN evidence |-> Rewritten(i)] \in Seq(Evidence)
         /\ Len([i \in DOMAIN evidence |-> Rewritten(i)]) = Len(evidence)
<1>. DEFINE f == [i \in DOMAIN evidence |-> Rewritten(i)]
<1>1. \A i \in DOMAIN evidence : f[i] \in Evidence
  BY RewrittenType
<1>2. evidence \in Seq(Evidence)
  BY DEF TypeOK
<1>3. f = [i \in DOMAIN evidence |-> f[i]]
  OBVIOUS
<1>. HIDE DEF f
<1>4. f \in Seq(Evidence) /\ Len(f) = Len(evidence)
  BY <1>1, <1>2, <1>3, MapSeq
<1>. QED  BY <1>4 DEF f

LEMMA MarkStaleType ==
  ASSUME TypeOK, MarkStale
  PROVE  evidence' \in Seq(Evidence) /\ Len(evidence') = Len(evidence)
<1>. DEFINE listed == IF UseDb THEN DOMAIN evidence ELSE Visible
            f == [i \in DOMAIN evidence |->
                    [Rewritten(i) EXCEPT !.stale = evidence[i].stale
                                                     \/ i \in listed]]
<1>1. evidence' = evidence \/ evidence' = f
  BY DEF MarkStale
<1>2. evidence \in Seq(Evidence)
  BY DEF TypeOK
<1>3. \A i \in DOMAIN evidence : f[i] \in Evidence
  <2>. SUFFICES ASSUME NEW i \in DOMAIN evidence PROVE f[i] \in Evidence
    OBVIOUS
  <2>1. Rewritten(i) \in Evidence /\ evidence[i] \in Evidence
    BY RewrittenType, ElementOfSeq, LenProperties, <1>2
  <2>2. (evidence[i].stale \/ i \in listed) \in BOOLEAN
    BY <2>1 DEF Evidence
  <2>. HIDE DEF listed
  <2>. QED  BY <2>1, <2>2 DEF Evidence
<1>4. f = [i \in DOMAIN evidence |-> f[i]]
  OBVIOUS
<1>. HIDE DEF f
<1>5. f \in Seq(Evidence) /\ Len(f) = Len(evidence)
  BY <1>2, <1>3, <1>4, MapSeq
<1>. QED  BY <1>1, <1>2, <1>5

-----------------------------------------------------------------------------
(* One lemma per tool: its steps keep the types.                           *)
LEMMA PlanAndScanType ==
  ASSUME TypeOK, NEW c \in Calls, Plan(c) \/ Scan(c)
  PROVE  TypeOK'
<1>. USE IdleIsCall
<1>1. CASE PlanStart(c)
  <2>. PICK plan \in {"open", "done"} :
         Begin(c, "coding_plan_set",
               [Idle EXCEPT !.at = "planSave", !.newPlan = plan])
    BY <1>1 DEF PlanStart
  <2>. [Idle EXCEPT !.at = "planSave", !.newPlan = plan] \in Call
    BY DEF Call, Phases, PlanStates
  <2>. QED  BY BeginType
<1>2. CASE StepStart(c)
  <2>. PICK plan \in {"open", "done"}, starts \in BOOLEAN :
         Begin(c, "coding_plan_update_step",
               [Idle EXCEPT !.at = "stepSave", !.newPlan = plan, !.ack = starts])
    BY <1>2 DEF StepStart
  <2>. [Idle EXCEPT !.at = "stepSave", !.newPlan = plan, !.ack = starts] \in Call
    BY DEF Call, Phases, PlanStates
  <2>. QED  BY BeginType
<1>3. CASE PlanSave(c)
  <2>. DEFINE new == [task EXCEPT
         !.plan = calls[c].newPlan,
         !.state = IF task.state \in {"CREATED", "DISCOVERING", "PLANNING"}
                   THEN "READY" ELSE task.state]
  <2>1. new \in Task
    BY DEF TypeOK, Task, Call, TaskStates
  <2>2. Update(c, new)
    BY <1>3 DEF PlanSave
  <2>. HIDE DEF new
  <2>. QED  BY <1>3, <2>1, <2>2, UpdateType DEF PlanSave, TypeOK
<1>4. CASE StepSave(c)
  <2>. DEFINE new == [task EXCEPT
         !.plan = calls[c].newPlan,
         !.state = IF calls[c].ack /\ task.state \in {"READY", "PLANNING"}
                   THEN "IMPLEMENTING" ELSE task.state]
  <2>1. new \in Task
    BY DEF TypeOK, Task, Call, TaskStates
  <2>2. Update(c, new)
    BY <1>4 DEF StepSave
  <2>. HIDE DEF new
  <2>. QED  BY <1>4, <2>1, <2>2, UpdateType DEF StepSave, TypeOK
<1>5. CASE ScanStart(c)
  <2>. [Idle EXCEPT !.at = "scanGit"] \in Call
    BY DEF Call, Phases
  <2>. QED  BY <1>5, BeginType DEF ScanStart
<1>6. CASE ScanGit(c)
  <2>. PICK sha \in HeadAnswers :
         Goto(c, [calls[c] EXCEPT !.at = "scanSave", !.sha = sha])
    BY <1>6 DEF ScanGit
  <2>. sha \in Shas
    BY AnswerType DEF Shas
  <2>. [calls[c] EXCEPT !.at = "scanSave", !.sha = sha] \in Call
    BY MoveType DEF Phases
  <2>. QED  BY <1>6, GotoType DEF ScanGit, TypeOK
<1>7. CASE ScanSave(c)
  <2>. DEFINE new == [task EXCEPT
         !.state = IF task.state = "CREATED" THEN "DISCOVERING" ELSE task.state,
         !.base = OrElse(task.base, calls[c].sha),
         !.head = calls[c].sha]
  <2>1. new \in Task
    BY DEF TypeOK, Task, Call, TaskStates, OrElse
  <2>2. Update(c, new)
    BY <1>7 DEF ScanSave
  <2>. HIDE DEF new
  <2>. QED  BY <1>7, <2>1, <2>2, UpdateType DEF ScanSave, TypeOK
<1>. QED  BY <1>1, <1>2, <1>3, <1>4, <1>5, <1>6, <1>7 DEF Plan, Scan

LEMMA RecordType ==
  ASSUME TypeOK, NEW c \in Calls, Record(c)
  PROVE  TypeOK'
<1>. USE IdleIsCall
<1>1. CASE RecordStart(c)
  <2>. DEFINE phase == IF CommandsSpent
                       THEN "refuseCommand" ELSE "recordGit"
  <2>. PICK ran \in Verdicts :
         Begin(c, "execution_record_command",
               [Idle EXCEPT !.at = phase, !.ran = ran])
    BY <1>1 DEF RecordStart, CommandsSpent
  <2>. [Idle EXCEPT !.at = phase, !.ran = ran] \in Call
    BY DEF Call, Phases
  <2>. QED  BY BeginType
<1>2. CASE RefuseCommand(c)
  <2>. [task EXCEPT !.state = "BLOCKED"] \in Task
    BY DEF TypeOK, Task, TaskStates
  <2>. QED  BY <1>2, UpdateType DEF RefuseCommand, TypeOK
<1>3. CASE RecordGit(c)
  <2>. PICK sha \in HeadAnswers :
         Goto(c, [calls[c] EXCEPT !.at = "recordInsert",
                                  !.sha = OrElse(sha, calls[c].head)])
    BY <1>3 DEF RecordGit
  <2>. calls[c].head \in Shas
    BY DEF TypeOK, Call
  <2>. OrElse(sha, calls[c].head) \in Shas
    BY AnswerType
  <2>. [calls[c] EXCEPT !.at = "recordInsert",
                        !.sha = OrElse(sha, calls[c].head)] \in Call
    BY MoveType DEF Phases
  <2>. QED  BY <1>3, GotoType DEF RecordGit, TypeOK
<1>4. CASE RecordInsert(c)
  <2>. DEFINE f == [i \in DOMAIN evidence |-> Rewritten(i)]
              e == [head |-> calls[c].sha,
                    status |-> RecordedStatus(calls[c].ran),
                    ran |-> calls[c].ran, stale |-> FALSE, lost |-> FALSE]
  <2>1. e \in Evidence
    BY DEF TypeOK, Call, Evidence, RecordedStatus, Verdicts
  <2>2. f \in Seq(Evidence)
    BY RewrittenSeq
  <2>3. evidence' = Append(f, e)
    BY <1>4 DEF RecordInsert
  <2>. HIDE DEF f, e
  <2>4. evidence' \in Seq(Evidence)
    BY <2>1, <2>2, <2>3
  <2>5. [calls[c] EXCEPT !.at = "recordCount"] \in Call
    BY MoveType DEF Phases
  <2>. QED  BY <1>4, <2>4, <2>5, GotoType DEF RecordInsert, TypeOK
<1>5. CASE RecordCount(c)
  <2>1. task.commands + 1 \in Nat /\ calls[c].sha \in Shas
    BY DEF TypeOK, Task, Call
  <2>2. [task EXCEPT !.commands = task.commands + 1,
                     !.head = calls[c].sha] \in Task
    BY <2>1 DEF TypeOK, Task
  <2>. QED  BY <1>5, <2>2, UpdateType DEF RecordCount, TypeOK
<1>. QED  BY <1>1, <1>2, <1>3, <1>4, <1>5 DEF Record

LEMMA ValidateType ==
  ASSUME TypeOK, NEW c \in Calls, Validate(c)
  PROVE  TypeOK'
<1>. USE IdleIsCall
<1>1. CASE CycleStart(c)
  <2>. DEFINE phase == IF RepairsSpent /\ task.state = "REPAIRING"
                       THEN "refuseRepair" ELSE "cycleOpen"
  <2>. [Idle EXCEPT !.at = phase] \in Call
    BY DEF Call, Phases
  <2>. QED  BY <1>1, BeginType DEF CycleStart, RepairsSpent
<1>2. CASE RefuseRepair(c)
  <2>. [task EXCEPT !.state = "BLOCKED"] \in Task
    BY DEF TypeOK, Task, TaskStates
  <2>. QED  BY <1>2, UpdateType DEF RefuseRepair, TypeOK
<1>3. CASE CycleOpen(c)
  <2>. DEFINE new == [task EXCEPT
         !.state = IF task.state = "REPAIRING" THEN "REPAIRING" ELSE "VALIDATING",
         !.cycle = TRUE]
  <2>1. new \in Task
    BY DEF TypeOK, Task, TaskStates
  <2>2. Update(c, new)
    BY <1>3 DEF CycleOpen
  <2>. HIDE DEF new
  <2>. QED  BY <1>3, <2>1, <2>2, UpdateType DEF CycleOpen, TypeOK
<1>4. CASE CycleCompleteStart(c)
  <2>1. PICK ids \in SUBSET DOMAIN evidence :
          Begin(c, "validation_cycle_complete",
                [Idle EXCEPT !.at = "cycleGit", !.ids = ids])
    BY <1>4 DEF CycleCompleteStart
  <2>2. ids \in SUBSET Nat
    BY <2>1, LenProperties DEF TypeOK
  <2>3. [Idle EXCEPT !.at = "cycleGit", !.ids = ids] \in Call
    BY <2>2 DEF Call, Phases
  <2>. QED  BY <2>1, <2>3, BeginType
<1>5. CASE CycleGit(c)
  <2>. PICK sha \in HeadAnswers :
         Goto(c, [calls[c] EXCEPT !.at = "cycleList",
                                  !.sha = OrElse(sha, calls[c].head)])
    BY <1>5 DEF CycleGit
  <2>. calls[c].head \in Shas
    BY DEF TypeOK, Call
  <2>. OrElse(sha, calls[c].head) \in Shas
    BY AnswerType
  <2>. [calls[c] EXCEPT !.at = "cycleList",
                        !.sha = OrElse(sha, calls[c].head)] \in Call
    BY MoveType DEF Phases
  <2>. QED  BY <1>5, GotoType DEF CycleGit, TypeOK
<1>6. CASE CycleList(c)
  <2>. DEFINE ok == \A i \in calls[c].ids : evidence[i].status = "passed"
  <2>1. ok \in BOOLEAN
    OBVIOUS
  <2>2. \/ Goto(c, [calls[c] EXCEPT !.at = "cycleClose", !.ok = ok])
        \/ Return(c)
    BY <1>6 DEF CycleList
  <2>. HIDE DEF ok
  <2>3. [calls[c] EXCEPT !.at = "cycleClose", !.ok = ok] \in Call
    BY <2>1, MoveType DEF Phases
  <2>. QED  BY <1>6, <2>2, <2>3, GotoType DEF CycleList, Return, TypeOK
<1>7. CASE CycleClose(c)
  <2>. DEFINE new == [task EXCEPT
         !.cycle = FALSE, !.head = calls[c].sha,
         !.state = IF calls[c].ok THEN "REVIEWING" ELSE "REPAIRING"]
  <2>1. new \in Task
    BY DEF TypeOK, Task, Call, TaskStates
  <2>2. Update(c, new)
    BY <1>7 DEF CycleClose
  <2>. HIDE DEF new
  <2>. QED  BY <1>7, <2>1, <2>2, UpdateType DEF CycleClose, TypeOK
<1>. QED  BY <1>1, <1>2, <1>3, <1>4, <1>5, <1>6, <1>7 DEF Validate

LEMMA RepairType ==
  ASSUME TypeOK, NEW c \in Calls, Repair(c)
  PROVE  TypeOK'
<1>. USE IdleIsCall
<1>1. CASE RepairStart(c)
  <2>. DEFINE phase == IF RepairsSpent
                       THEN "refuseRepair" ELSE "repairOpen"
  <2>. [Idle EXCEPT !.at = phase] \in Call
    BY DEF Call, Phases
  <2>. QED  BY <1>1, BeginType DEF RepairStart, RepairsSpent
<1>2. CASE RepairOpen(c)
  <2>1. attempts + 1 \in Nat
    BY DEF TypeOK
  <2>2. [task EXCEPT !.state = "REPAIRING", !.attempt = attempts + 1] \in Task
    BY <2>1 DEF TypeOK, Task, TaskStates
  <2>. QED  BY <1>2, <2>1, <2>2, UpdateType DEF RepairOpen, TypeOK
<1>3. CASE RepairCompleteStart(c)
  <2>1. PICK changed \in BOOLEAN, done \in BOOLEAN :
          Begin(c, "repair_attempt_complete",
                [Idle EXCEPT !.at = "repairGit", !.id = task.attempt,
                             !.changed = changed, !.done = done])
    BY <1>3 DEF RepairCompleteStart
  <2>2. [Idle EXCEPT !.at = "repairGit", !.id = task.attempt,
                     !.changed = changed, !.done = done] \in Call
    BY DEF TypeOK, Task, Call, Phases
  <2>. QED  BY <2>1, <2>2, BeginType
<1>4. CASE RepairGit(c)
  <2>. PICK answer \in HeadAnswers :
         Goto(c, [calls[c] EXCEPT !.at = "repairStale",
                                  !.sha = OrElse(answer, calls[c].head)])
    BY <1>4 DEF RepairGit
  <2>. calls[c].head \in Shas
    BY DEF TypeOK, Call
  <2>. OrElse(answer, calls[c].head) \in Shas
    BY AnswerType
  <2>. [calls[c] EXCEPT !.at = "repairStale",
                        !.sha = OrElse(answer, calls[c].head)] \in Call
    BY MoveType DEF Phases
  <2>. QED  BY <1>4, GotoType DEF RepairGit, TypeOK
<1>5. CASE RepairStale(c)
  <2>1. evidence' \in Seq(Evidence)
    BY <1>5, MarkStaleType DEF RepairStale, TypeOK
  <2>2. [calls[c] EXCEPT !.at = "repairClose"] \in Call
    BY MoveType DEF Phases
  <2>. QED  BY <1>5, <2>1, <2>2, GotoType DEF RepairStale, TypeOK
<1>6. CASE RepairClose(c)
  <2>. DEFINE state == IF task.repairs + 1 >= RepairLimit /\ ~calls[c].done
                       THEN "BLOCKED" ELSE task.state
              new == [task EXCEPT
                !.attempt = 0, !.repairs = task.repairs + 1,
                !.head = calls[c].sha, !.state = state]
  <2>1. /\ task.repairs + 1 \in Nat
        /\ calls[c].sha \in Shas
        /\ state \in TaskStates
    BY DEF TypeOK, Task, Call, TaskStates
  <2>2. Update(c, new)
    BY <1>6 DEF RepairClose, Charged
  <2>. HIDE DEF state
  <2>3. new \in Task
    BY <2>1 DEF TypeOK, Task
  <2>. HIDE DEF new
  <2>. QED  BY <1>6, <2>2, <2>3, UpdateType DEF RepairClose, TypeOK
<1>. QED  BY <1>1, <1>2, <1>3, <1>4, <1>5, <1>6 DEF Repair

LEMMA ResumeType ==
  ASSUME TypeOK, NEW c \in Calls, Resume(c)
  PROVE  TypeOK'
<1>. USE IdleIsCall
<1>1. CASE ResumeStart(c)
  <2>1. PICK cp \in Checkpoints :
          Begin(c, "coding_task_resume",
                [Idle EXCEPT !.at = "resumeGit", !.cp = cp])
    BY <1>1 DEF ResumeStart
  <2>2. cp \in Shas
    BY <2>1, HeadType, BoundsAssumption DEF Checkpoints, Heads, Shas
  <2>3. [Idle EXCEPT !.at = "resumeGit", !.cp = cp] \in Call
    BY <2>2 DEF Call, Phases
  <2>. QED  BY <2>1, <2>3, BeginType
<1>2. CASE ResumeGit(c)
  <2>. PICK sha \in HeadAnswers :
         Goto(c, [calls[c] EXCEPT !.at = "resumeStale", !.sha = sha])
    BY <1>2 DEF ResumeGit
  <2>. sha \in Shas
    BY AnswerType DEF Shas
  <2>. [calls[c] EXCEPT !.at = "resumeStale", !.sha = sha] \in Call
    BY MoveType DEF Phases
  <2>. QED  BY <1>2, GotoType DEF ResumeGit, TypeOK
<1>3. CASE ResumeStale(c)
  <2>1. evidence' \in Seq(Evidence)
    BY <1>3, MarkStaleType DEF ResumeStale, TypeOK
  <2>2. [calls[c] EXCEPT !.at = "resumeSave"] \in Call
    BY MoveType DEF Phases
  <2>. QED  BY <1>3, <2>1, <2>2, GotoType DEF ResumeStale, TypeOK
<1>4. CASE ResumeSave(c)
  <2>. [task EXCEPT !.head = calls[c].sha] \in Task
    BY DEF TypeOK, Task, Call
  <2>. QED  BY <1>4, UpdateType DEF ResumeSave, TypeOK
<1>. QED  BY <1>1, <1>2, <1>3, <1>4 DEF Resume

LEMMA EvaluateType ==
  ASSUME TypeOK, NEW c \in Calls, Evaluate(c)
  PROVE  TypeOK'
<1>. USE IdleIsCall
<1>1. CASE GateStart(c)
  <2>. PICK ack \in BOOLEAN :
         Begin(c, "coding_completion_gate",
               [Idle EXCEPT !.at = "gateBranch", !.ack = ack])
    BY <1>1 DEF GateStart
  <2>. [Idle EXCEPT !.at = "gateBranch", !.ack = ack] \in Call
    BY DEF Call, Phases
  <2>. QED  BY BeginType
<1>2. ASSUME NEW phase, NEW passed, NEW next \in Phases,
             Gate(c, phase, passed, next)
      PROVE  TypeOK'
  <2>. [calls[c] EXCEPT !.at = next] \in Call
    BY DEF TypeOK, Call
  <2>. QED  BY <1>2, GotoType DEF Gate, Return, TypeOK
<1>3. CASE GateBranch(c)
  BY <1>2, <1>3 DEF GateBranch, Phases
<1>4. CASE GateStatus(c)
  BY <1>2, <1>4 DEF GateStatus, Phases
<1>5. CASE GateLog(c)
  BY <1>2, <1>5 DEF GateLog, Phases
<1>6. CASE GateEvidence(c)
  BY <1>2, <1>6 DEF GateEvidence, Phases
<1>7. CASE GateDiff(c)
  BY <1>2, <1>7 DEF GateDiff, Phases
<1>8. CASE GateReady(c)
  <2>. [task EXCEPT !.state = "READY_TO_PUBLISH"] \in Task
    BY DEF TypeOK, Task, TaskStates
  <2>. QED  BY <1>8, UpdateType DEF GateReady, TypeOK
<1>. QED  BY <1>1, <1>3, <1>4, <1>5, <1>6, <1>7, <1>8 DEF Evaluate

LEMMA EnvironmentType ==
  ASSUME TypeOK, Edit \/ Commit \/ LeaveBranch
  PROVE  TypeOK'
<1>1. ASSUME tree' \in Tree  PROVE TypeOK'
  BY <1>1 DEF Edit, Commit, LeaveBranch, Work, TypeOK
<1>2. CASE Edit
  <2>. tree' \in Tree
    BY <1>2 DEF Edit, TypeOK, Tree
  <2>. QED  BY <1>1
<1>3. CASE Commit
  <2>1. tree.head + 1 \in Heads /\ tree.main \in Heads
    BY <1>3, HeadType, BoundsAssumption DEF Commit, Heads
  <2>2. tree' \in Tree
    BY <1>3, <2>1 DEF Commit, TypeOK, Tree
  <2>. QED  BY <1>1, <2>2
<1>4. CASE LeaveBranch
  <2>. PICK branch \in {"feature", ""} :
         tree' = [tree EXCEPT !.branch = branch]
    BY <1>4 DEF LeaveBranch
  <2>. tree' \in Tree
    BY DEF TypeOK, Tree
  <2>. QED  BY <1>1
<1>. QED  BY <1>2, <1>3, <1>4

LEMMA StepType ==
  ASSUME TypeOK, [Next]_vars
  PROVE  TypeOK'
<1>1. CASE UNCHANGED vars
  BY <1>1 DEF vars, TypeOK
<1>2. ASSUME NEW c \in Calls, Abandon(c) \/ Abort(c)
      PROVE  TypeOK'
  <2>1. [task EXCEPT !.state = "ABANDONED"] \in Task
    BY DEF TypeOK, Task, TaskStates
  <2>. QED  BY <1>2, <2>1, UpdateType, GotoType, IdleIsCall
            DEF Abandon, Abort, Return, TypeOK
<1>. QED  BY <1>1, <1>2, PlanAndScanType, RecordType, ValidateType, RepairType,
             ResumeType, EvaluateType, EnvironmentType DEF Next

(* Every reachable state is well typed: counters stay natural numbers, the *)
(* ledger stays a sequence of evidence records, every call in flight stays *)
(* at one of the awaits of its handler.                                    *)
THEOREM TypeCorrect == Spec => []TypeOK
<1>1. ASSUME Init  PROVE TypeOK
  <2>1. task \in Task /\ attempts \in Nat
    BY <1>1 DEF Init, Task, TaskStates, Shas, PlanStates
  <2>2. evidence \in Seq(Evidence)
    BY <1>1, EmptySeq DEF Init
  <2>3. 0 \in Heads
    BY BoundsAssumption DEF Heads
  <2>4. tree \in Tree
    BY <1>1, <2>3 DEF Init, Tree
  <2>5. calls \in [Calls -> Call]
    BY <1>1, IdleIsCall DEF Init
  <2>. QED  BY <2>1, <2>2, <2>4, <2>5 DEF TypeOK
<1>2. TypeOK /\ [Next]_vars => TypeOK'
  BY StepType
<1>. QED  BY <1>1, <1>2, PTL DEF Spec

-----------------------------------------------------------------------------
(* The budgets. *)

(* The phases of the calls that may still spend a budget or block the task *)
RecordPhases == {"recordGit", "recordInsert", "recordCount"}
RepairPhases == {"repairGit", "repairStale", "repairClose"}
RefusePhases == {"refuseCommand", "refuseRepair"}
BudgetPhases == RecordPhases \cup RepairPhases \cup RefusePhases
                \cup {"repairOpen"}

(* The other calls do not move in a step of call c. *)
Alone(c) == \A d \in Calls \ {c} : /\ calls'[d].at = calls[d].at
                                    /\ calls'[d].id = calls[d].id

(* A step of call c that touches no budget and leaves the task unblocked.  *)
Quiet(c) ==
  /\ Alone(c)
  /\ calls'[c].at \notin BudgetPhases
  /\ task'.commands = task.commands
  /\ task'.repairs = task.repairs
  /\ task'.attempt = task.attempt
  /\ task'.state = "BLOCKED" => task.state = "BLOCKED"
  /\ Len(evidence') = Len(evidence)

-----------------------------------------------------------------------------
LEMMA QuietBegin ==
  ASSUME TypeOK, NEW c \in Calls, NEW tool, NEW call \in Call,
         Begin(c, tool, call), call.at \notin BudgetPhases
  PROVE  Quiet(c)
  BY DEF Begin, Quiet, Alone, TypeOK, Call

LEMMA QuietGoto ==
  ASSUME TypeOK, NEW c \in Calls, NEW call, Goto(c, call),
         call.at \notin BudgetPhases, UNCHANGED <<task, evidence>>
  PROVE  Quiet(c)
  BY DEF Goto, Quiet, Alone, TypeOK

(* updateTask ends the call and gives the task the values it was passed.   *)
LEMMA UpdateEffect ==
  ASSUME TypeOK, NEW c \in Calls, NEW new \in Task, Update(c, new)
  PROVE  /\ calls'[c] = Idle /\ Alone(c)
         /\ task'.state = new.state /\ task'.commands = new.commands
         /\ task'.repairs = new.repairs /\ task'.attempt = new.attempt
<1>1. calls'[c] = Idle
  BY DEF Update
<1>2. Alone(c)
  BY DEF Alone, Update, Refreshed, TypeOK, Call
<1>3. /\ task'.state = new.state /\ task'.commands = new.commands
      /\ task'.repairs = new.repairs /\ task'.attempt = new.attempt
  BY DEF Update, Task
<1>. QED  BY <1>1, <1>2, <1>3

LEMMA QuietUpdate ==
  ASSUME TypeOK, NEW c \in Calls, NEW new \in Task, Update(c, new),
         UNCHANGED evidence,
         new.commands = task.commands, new.repairs = task.repairs,
         new.attempt = task.attempt,
         new.state = "BLOCKED" => task.state = "BLOCKED"
  PROVE  Quiet(c)
<1>1. Idle.at \notin BudgetPhases
  BY DEF Idle, BudgetPhases, RecordPhases, RepairPhases, RefusePhases
<1>. QED  BY <1>1, UpdateEffect DEF Quiet

(* The updates that count a command, open an attempt or refuse either.     *)
LEMMA RefusalEffect ==
  ASSUME TypeOK, NEW c \in Calls, RefuseCommand(c) \/ RefuseRepair(c)
  PROVE  /\ calls'[c] = Idle /\ Alone(c) /\ evidence' = evidence
         /\ task'.commands = task.commands /\ task'.repairs = task.repairs
         /\ task'.attempt = task.attempt
<1>. DEFINE new == [task EXCEPT !.state = "BLOCKED"]
<1>1. Update(c, new) /\ evidence' = evidence
  BY DEF RefuseCommand, RefuseRepair
<1>2. /\ new \in Task /\ new.commands = task.commands
      /\ new.repairs = task.repairs /\ new.attempt = task.attempt
  BY DEF TypeOK, Task, TaskStates
<1>. HIDE DEF new
<1>. QED  BY <1>1, <1>2, UpdateEffect

LEMMA RecordCountEffect ==
  ASSUME TypeOK, NEW c \in Calls, RecordCount(c)
  PROVE  /\ calls'[c] = Idle /\ Alone(c) /\ evidence' = evidence
         /\ task'.commands = task.commands + 1 /\ task'.repairs = task.repairs
         /\ task'.attempt = task.attempt /\ task'.state = task.state
<1>. DEFINE new == [task EXCEPT !.commands = task.commands + 1,
                                !.head = calls[c].sha]
<1>1. Update(c, new) /\ evidence' = evidence
  BY DEF RecordCount
<1>2. task.commands + 1 \in Nat /\ calls[c].sha \in Shas
  BY DEF TypeOK, Task, Call
<1>3. /\ new \in Task /\ new.commands = task.commands + 1
      /\ new.repairs = task.repairs /\ new.attempt = task.attempt
      /\ new.state = task.state
  BY <1>2 DEF TypeOK, Task
<1>. HIDE DEF new
<1>. QED  BY <1>1, <1>3, UpdateEffect

LEMMA RepairOpenEffect ==
  ASSUME TypeOK, NEW c \in Calls, RepairOpen(c)
  PROVE  /\ calls'[c] = Idle /\ Alone(c) /\ evidence' = evidence
         /\ task'.commands = task.commands /\ task'.repairs = task.repairs
         /\ task'.attempt = attempts + 1 /\ task'.state = "REPAIRING"
<1>. DEFINE new == [task EXCEPT !.state = "REPAIRING", !.attempt = attempts + 1]
<1>1. Update(c, new) /\ evidence' = evidence
  BY DEF RepairOpen
<1>2. attempts + 1 \in Nat /\ "REPAIRING" \in TaskStates
  BY DEF TypeOK, TaskStates
<1>3. /\ new \in Task /\ new.commands = task.commands
      /\ new.repairs = task.repairs /\ new.attempt = attempts + 1
      /\ new.state = "REPAIRING"
  BY <1>2 DEF TypeOK, Task
<1>. HIDE DEF new
<1>. QED  BY <1>1, <1>3, UpdateEffect

(* The only update of a repair counter. *)
LEMMA RepairCloseEffect ==
  ASSUME TypeOK, NEW c \in Calls, RepairClose(c)
  PROVE  /\ calls'[c] = Idle /\ Alone(c)
         /\ task'.repairs = task.repairs + 1
         /\ task'.attempt = 0
         /\ task'.commands = task.commands
         /\ task'.state = "BLOCKED"
              => task.state = "BLOCKED" \/ task.repairs + 1 >= RepairLimit
<1>. DEFINE state == IF task.repairs + 1 >= RepairLimit /\ ~calls[c].done
                     THEN "BLOCKED" ELSE task.state
            new == [task EXCEPT
              !.attempt = 0, !.repairs = task.repairs + 1,
              !.head = calls[c].sha, !.state = state]
<1>1. /\ task.repairs + 1 \in Nat
      /\ calls[c].sha \in Shas
      /\ state \in TaskStates
      /\ state = "BLOCKED"
           => task.state = "BLOCKED" \/ task.repairs + 1 >= RepairLimit
  BY DEF TypeOK, Task, Call, TaskStates
<1>2. Update(c, new)
  BY DEF RepairClose, Charged
<1>. HIDE DEF state
<1>3. /\ new \in Task
      /\ new.repairs = task.repairs + 1 /\ new.attempt = 0
      /\ new.commands = task.commands /\ new.state = state
  BY <1>1 DEF TypeOK, Task
<1>. HIDE DEF new
<1>. QED  BY <1>1, <1>2, <1>3, UpdateEffect

(* The tools that record no command and attempt no repair are quiet.       *)
LEMMA QuietTools ==
  ASSUME TypeOK, NEW c \in Calls,
         \/ Plan(c) \/ Scan(c) \/ Resume(c) \/ Abandon(c) \/ Abort(c)
         \/ CycleOpen(c) \/ CycleCompleteStart(c) \/ CycleGit(c)
         \/ CycleList(c) \/ CycleClose(c)
  PROVE  Quiet(c)
<1>. USE DEF Quiet, Alone, BudgetPhases, RecordPhases, RepairPhases,
             RefusePhases, Idle
<1>1. CASE PlanStart(c)
  BY <1>1 DEF PlanStart, Begin, TypeOK
<1>2. CASE PlanSave(c)
  <2>. DEFINE new == [task EXCEPT
         !.plan = calls[c].newPlan,
         !.state = IF task.state \in {"CREATED", "DISCOVERING", "PLANNING"}
                   THEN "READY" ELSE task.state]
  <2>1. Update(c, new) /\ evidence' = evidence
    BY <1>2 DEF PlanSave
  <2>2. /\ new \in Task /\ new.commands = task.commands
        /\ new.repairs = task.repairs /\ new.attempt = task.attempt
        /\ new.state = "BLOCKED" => task.state = "BLOCKED"
    BY DEF TypeOK, Task, Call, TaskStates
  <2>. HIDE DEF new
  <2>. QED  BY <2>1, <2>2, QuietUpdate
<1>3. CASE StepStart(c)
  BY <1>3 DEF StepStart, Begin, TypeOK
<1>4. CASE StepSave(c)
  <2>. DEFINE new == [task EXCEPT
         !.plan = calls[c].newPlan,
         !.state = IF calls[c].ack /\ task.state \in {"READY", "PLANNING"}
                   THEN "IMPLEMENTING" ELSE task.state]
  <2>1. Update(c, new) /\ evidence' = evidence
    BY <1>4 DEF StepSave
  <2>2. /\ new \in Task /\ new.commands = task.commands
        /\ new.repairs = task.repairs /\ new.attempt = task.attempt
        /\ new.state = "BLOCKED" => task.state = "BLOCKED"
    BY DEF TypeOK, Task, Call, TaskStates
  <2>. HIDE DEF new
  <2>. QED  BY <2>1, <2>2, QuietUpdate
<1>5. CASE ScanStart(c)
  BY <1>5 DEF ScanStart, Begin, TypeOK
<1>6. CASE ScanGit(c)
  BY <1>6 DEF ScanGit, Goto, TypeOK, Call
<1>7. CASE ScanSave(c)
  <2>. DEFINE new == [task EXCEPT
         !.state = IF task.state = "CREATED" THEN "DISCOVERING" ELSE task.state,
         !.base = OrElse(task.base, calls[c].sha), !.head = calls[c].sha]
  <2>1. Update(c, new) /\ evidence' = evidence
    BY <1>7 DEF ScanSave
  <2>2. /\ new \in Task /\ new.commands = task.commands
        /\ new.repairs = task.repairs /\ new.attempt = task.attempt
        /\ new.state = "BLOCKED" => task.state = "BLOCKED"
    BY DEF TypeOK, Task, Call, TaskStates, OrElse
  <2>. HIDE DEF new
  <2>. QED  BY <2>1, <2>2, QuietUpdate
<1>8. CASE ResumeStart(c)
  BY <1>8 DEF ResumeStart, Begin, TypeOK
<1>9. CASE ResumeGit(c)
  BY <1>9 DEF ResumeGit, Goto, TypeOK, Call
<1>10. CASE ResumeStale(c)
  BY <1>10, MarkStaleType DEF ResumeStale, Goto, TypeOK, Call
<1>11. CASE ResumeSave(c)
  <2>. DEFINE new == [task EXCEPT !.head = calls[c].sha]
  <2>1. Update(c, new) /\ evidence' = evidence
    BY <1>11 DEF ResumeSave
  <2>2. /\ new \in Task /\ new.commands = task.commands
        /\ new.repairs = task.repairs /\ new.attempt = task.attempt
        /\ new.state = "BLOCKED" => task.state = "BLOCKED"
    BY DEF TypeOK, Task, Call, TaskStates
  <2>. HIDE DEF new
  <2>. QED  BY <2>1, <2>2, QuietUpdate
<1>12. CASE Abandon(c)
  <2>. DEFINE new == [task EXCEPT !.state = "ABANDONED"]
  <2>1. Update(c, new) /\ evidence' = evidence
    BY <1>12 DEF Abandon
  <2>2. /\ new \in Task /\ new.commands = task.commands
        /\ new.repairs = task.repairs /\ new.attempt = task.attempt
        /\ new.state = "BLOCKED" => task.state = "BLOCKED"
    BY DEF TypeOK, Task, Call, TaskStates
  <2>. HIDE DEF new
  <2>. QED  BY <2>1, <2>2, QuietUpdate
<1>13. CASE Abort(c)
  BY <1>13 DEF Abort, Return, Goto, TypeOK, Call
<1>14. CASE CycleOpen(c)
  <2>. DEFINE new == [task EXCEPT
         !.state = IF task.state = "REPAIRING" THEN "REPAIRING" ELSE "VALIDATING",
         !.cycle = TRUE]
  <2>1. Update(c, new) /\ evidence' = evidence
    BY <1>14 DEF CycleOpen
  <2>2. /\ new \in Task /\ new.commands = task.commands
        /\ new.repairs = task.repairs /\ new.attempt = task.attempt
        /\ new.state = "BLOCKED" => task.state = "BLOCKED"
    BY DEF TypeOK, Task, Call, TaskStates
  <2>. HIDE DEF new
  <2>. QED  BY <2>1, <2>2, QuietUpdate
<1>15. CASE CycleCompleteStart(c)
  <2>1. PICK ids \in SUBSET DOMAIN evidence :
          Begin(c, "validation_cycle_complete",
                [Idle EXCEPT !.at = "cycleGit", !.ids = ids])
    BY <1>15 DEF CycleCompleteStart
  <2>2. ids \in SUBSET Nat
    BY <2>1, LenProperties DEF TypeOK
  <2>3. [Idle EXCEPT !.at = "cycleGit", !.ids = ids] \in Call
    BY <2>2, IdleIsCall DEF Call, Phases
  <2>4. [Idle EXCEPT !.at = "cycleGit", !.ids = ids].at \notin BudgetPhases
    OBVIOUS
  <2>. QED  BY <2>1, <2>3, <2>4, QuietBegin
<1>16. CASE CycleGit(c)
  <2>. PICK sha \in HeadAnswers :
         Goto(c, [calls[c] EXCEPT !.at = "cycleList",
                                  !.sha = OrElse(sha, calls[c].head)])
    BY <1>16 DEF CycleGit
  <2>1. [calls[c] EXCEPT !.at = "cycleList",
           !.sha = OrElse(sha, calls[c].head)].at \notin BudgetPhases
    BY DEF TypeOK, Call
  <2>. QED  BY <1>16, <2>1, QuietGoto DEF CycleGit
<1>17. CASE CycleList(c)
  <2>. DEFINE ok == \A i \in calls[c].ids : evidence[i].status = "passed"
  <2>1. \/ Goto(c, [calls[c] EXCEPT !.at = "cycleClose", !.ok = ok])
        \/ Goto(c, Idle)
    BY <1>17 DEF CycleList, Return
  <2>. HIDE DEF ok
  <2>2. /\ [calls[c] EXCEPT !.at = "cycleClose", !.ok = ok].at
              \notin BudgetPhases
        /\ Idle.at \notin BudgetPhases
    BY DEF TypeOK, Call
  <2>. QED  BY <1>17, <2>1, <2>2, QuietGoto DEF CycleList
<1>18. CASE CycleClose(c)
  <2>. DEFINE state == IF calls[c].ok THEN "REVIEWING" ELSE "REPAIRING"
              new == [task EXCEPT !.cycle = FALSE, !.head = calls[c].sha,
                                  !.state = state]
  <2>1. state \in TaskStates \ {"BLOCKED"} /\ calls[c].sha \in Shas
    BY DEF TypeOK, Call, TaskStates
  <2>2. Update(c, new)
    BY <1>18 DEF CycleClose
  <2>. HIDE DEF state
  <2>3. /\ new \in Task /\ new.state # "BLOCKED"
        /\ new.commands = task.commands /\ new.repairs = task.repairs
        /\ new.attempt = task.attempt
    BY <2>1 DEF TypeOK, Task
  <2>. HIDE DEF new
  <2>. QED  BY <1>18, <2>2, <2>3, QuietUpdate DEF CycleClose
<1>. QED  BY <1>1, <1>2, <1>3, <1>4, <1>5, <1>6, <1>7, <1>8, <1>9, <1>10,
             <1>11, <1>12, <1>13, <1>14, <1>15, <1>16, <1>17, <1>18
          DEF Plan, Scan, Resume

(* So is the completion gate. *)
LEMMA QuietGate ==
  ASSUME TypeOK, NEW c \in Calls, Evaluate(c)
  PROVE  Quiet(c)
<1>. USE DEF Quiet, Alone, BudgetPhases, RecordPhases, RepairPhases,
             RefusePhases, Idle
<1>1. ASSUME NEW phase, NEW passed, NEW next \in Phases \ BudgetPhases,
             Gate(c, phase, passed, next)
      PROVE  Quiet(c)
  BY <1>1 DEF Gate, Return, Goto, TypeOK, Call
<1>2. CASE GateStart(c)
  BY <1>2 DEF GateStart, Begin, TypeOK
<1>3. CASE GateBranch(c)
  BY <1>1, <1>3 DEF GateBranch, Phases
<1>4. CASE GateStatus(c)
  BY <1>1, <1>4 DEF GateStatus, Phases
<1>5. CASE GateLog(c)
  BY <1>1, <1>5 DEF GateLog, Phases
<1>6. CASE GateEvidence(c)
  BY <1>1, <1>6 DEF GateEvidence, Phases
<1>7. CASE GateDiff(c)
  BY <1>1, <1>7 DEF GateDiff, Phases
<1>8. CASE GateReady(c)
  <2>. DEFINE new == [task EXCEPT !.state = "READY_TO_PUBLISH"]
  <2>1. Update(c, new) /\ evidence' = evidence
    BY <1>8 DEF GateReady
  <2>2. /\ new \in Task /\ new.commands = task.commands
        /\ new.repairs = task.repairs /\ new.attempt = task.attempt
        /\ new.state = "BLOCKED" => task.state = "BLOCKED"
    BY DEF TypeOK, Task, Call, TaskStates
  <2>. HIDE DEF new
  <2>. QED  BY <2>1, <2>2, QuietUpdate
<1>. QED  BY <1>2, <1>3, <1>4, <1>5, <1>6, <1>7, <1>8 DEF Evaluate

CallStep(c) == \/ Plan(c) \/ Scan(c) \/ Record(c) \/ Validate(c) \/ Repair(c)
               \/ Resume(c) \/ Evaluate(c) \/ Abandon(c) \/ Abort(c)

(* A step of the environment disturbs no budget and no call. *)
LEMMA QuietStep ==
  ASSUME TypeOK, [Next]_vars
  PROVE  \/ UNCHANGED <<task, evidence, calls>>
         \/ \E c \in Calls :
              \/ Quiet(c) \/ Record(c) \/ Repair(c)
              \/ CycleStart(c) \/ RefuseRepair(c)
<1>1. CASE UNCHANGED vars \/ Edit \/ Commit \/ LeaveBranch
  BY <1>1 DEF vars, Edit, Commit, LeaveBranch, Work
<1>2. ASSUME NEW c \in Calls, CallStep(c)
      PROVE  \/ Quiet(c) \/ Record(c) \/ Repair(c)
             \/ CycleStart(c) \/ RefuseRepair(c)
  BY <1>2, QuietTools, QuietGate DEF CallStep, Validate
<1>. QED  BY <1>1, <1>2 DEF Next, CallStep

-----------------------------------------------------------------------------
(* The command budget.                                                     *)

(* The calls that have passed the budget check and have not counted yet,   *)
(* and among them those whose evidence is in the ledger already.           *)
Recording == {c \in Calls : calls[c].at \in RecordPhases}
Counting == {c \in Calls : calls[c].at = "recordCount"}

(* Every call that passed the check may still add one. *)
CommandBudget ==
  task.commands + Cardinality(Recording) <= CommandLimit - 1 + Cardinality(Calls)

EvidenceFirst == task.commands + Cardinality(Counting) <= Len(evidence)

(* What a step of a call that records nothing leaves as it is. *)
LEMMA NoRecord ==
  ASSUME TypeOK, NEW c \in Calls,
         Quiet(c) \/ Repair(c) \/ CycleStart(c) \/ RefuseRepair(c)
  PROVE  /\ Recording' \subseteq Recording
         /\ Counting' \subseteq Counting
         /\ task'.commands = task.commands
         /\ Len(evidence') = Len(evidence)
<1>1. ASSUME Alone(c), calls'[c].at \notin RecordPhases
      PROVE  Recording' \subseteq Recording /\ Counting' \subseteq Counting
  BY <1>1 DEF Alone, Recording, Counting, RecordPhases
<1>. DEFINE Good == /\ Alone(c) /\ calls'[c].at \notin RecordPhases
                    /\ task'.commands = task.commands
                    /\ Len(evidence') = Len(evidence)
<1>. SUFFICES Good
  BY <1>1
<1>2. CASE Quiet(c)
  BY <1>2 DEF Quiet, BudgetPhases
<1>3. CASE CycleStart(c)
  BY <1>3 DEF CycleStart, RepairsSpent, Begin, TypeOK, Alone, RecordPhases, Idle
<1>4. CASE RefuseRepair(c)
  BY <1>4, RefusalEffect DEF RecordPhases, Idle
<1>5. CASE RepairStart(c)
  BY <1>5 DEF RepairStart, RepairsSpent, Begin, TypeOK, Alone, RecordPhases, Idle
<1>6. CASE RepairOpen(c)
  BY <1>6, RepairOpenEffect DEF RecordPhases, Idle
<1>7. CASE RepairCompleteStart(c)
  BY <1>7 DEF RepairCompleteStart, Begin, TypeOK, Alone, RecordPhases, Idle
<1>8. CASE RepairGit(c)
  BY <1>8 DEF RepairGit, Goto, TypeOK, Call, Alone, RecordPhases
<1>9. CASE RepairStale(c)
  BY <1>9, MarkStaleType
     DEF RepairStale, Goto, TypeOK, Call, Alone, RecordPhases
<1>10. CASE RepairClose(c)
  <2>1. evidence' = evidence
    BY <1>10 DEF RepairClose, Charged
  <2>. QED  BY <1>10, <2>1, RepairCloseEffect DEF RecordPhases, Idle
<1>. QED  BY <1>2, <1>3, <1>4, <1>5, <1>6, <1>7, <1>8, <1>9, <1>10 DEF Repair

LEMMA RecordingFinite ==
  /\ IsFiniteSet(Recording) /\ IsFiniteSet(Counting) /\ IsFiniteSet(Calls)
  /\ Cardinality(Recording) \in Nat /\ Cardinality(Counting) \in Nat
  /\ Cardinality(Calls) \in Nat
<1>1. Recording \subseteq Calls /\ Counting \subseteq Calls
  BY DEF Recording, Counting
<1>. QED  BY <1>1, FS_Subset, FS_CardinalityType, CallsAssumption

LEMMA CommandBudgetStep ==
  ASSUME TypeOK, CommandBudget, [Next]_vars
  PROVE  CommandBudget'
<1>. USE DEF CommandBudget
<1>1. /\ task.commands \in Nat /\ CommandLimit \in Nat
      /\ Cardinality(Recording) \in Nat /\ IsFiniteSet(Recording)
      /\ Cardinality(Calls) \in Nat /\ IsFiniteSet(Calls)
  BY LimitsAssumption, RecordingFinite DEF TypeOK, Task
<1>2. ASSUME Recording' \subseteq Recording, task'.commands = task.commands
      PROVE  CommandBudget'
  <2>1. /\ Cardinality(Recording') \in Nat
        /\ Cardinality(Recording') <= Cardinality(Recording)
    BY <1>1, <1>2, FS_Subset, FS_CardinalityType
  <2>2. Cardinality(Recording)' = Cardinality(Recording')
    OBVIOUS
  <2>. QED  BY <1>1, <1>2, <2>1, <2>2
<1>3. CASE UNCHANGED <<task, evidence, calls>>
  BY <1>2, <1>3 DEF Recording
<1>. SUFFICES ASSUME NEW c \in Calls, Record(c)  PROVE CommandBudget'
  BY <1>2, <1>3, QuietStep, NoRecord
<1>4. CASE RecordStart(c)
  <2>1. CASE task.commands >= CommandLimit
    <3>1. Recording' \subseteq Recording /\ task' = task
      BY <1>4, <2>1 DEF RecordStart, CommandsSpent, Begin, Recording, RecordPhases, Idle, TypeOK
    <3>. QED  BY <1>2, <3>1
  <2>2. CASE ~(task.commands >= CommandLimit)
    <3>1. Recording' \subseteq Calls /\ task' = task
      BY <1>4 DEF RecordStart, CommandsSpent, Begin, Recording
    <3>2. /\ Cardinality(Recording') \in Nat
          /\ Cardinality(Recording') <= Cardinality(Calls)
      BY <1>1, <3>1, FS_Subset, FS_CardinalityType
    <3>3. task.commands <= CommandLimit - 1
      BY <1>1, <2>2
    <3>. QED  BY <1>1, <3>1, <3>2, <3>3
  <2>. QED  BY <2>1, <2>2
<1>5. CASE RefuseCommand(c)
  <2>1. Recording' \subseteq Recording /\ task'.commands = task.commands
    BY <1>5, RefusalEffect DEF Alone, Recording, RecordPhases, Idle
  <2>. QED  BY <1>2, <2>1
<1>6. CASE RecordGit(c) \/ RecordInsert(c)
  <2>1. Recording' \subseteq Recording /\ task' = task
    BY <1>6 DEF RecordGit, RecordInsert, Goto, At, Recording, RecordPhases,
                TypeOK
  <2>. QED  BY <1>2, <2>1
<1>7. CASE RecordCount(c)
  <2>1. c \in Recording
    BY <1>7 DEF RecordCount, At, Recording, RecordPhases
  <2>2. Recording' \subseteq Recording \ {c} /\ task'.commands = task.commands + 1
    BY <1>7, RecordCountEffect DEF Alone, Recording, RecordPhases, Idle
  <2>3. /\ IsFiniteSet(Recording \ {c})
        /\ Cardinality(Recording \ {c}) = Cardinality(Recording) - 1
    BY <1>1, <2>1, FS_RemoveElement
  <2>4. /\ Cardinality(Recording') \in Nat
        /\ Cardinality(Recording') <= Cardinality(Recording) - 1
    BY <2>2, <2>3, FS_Subset, FS_CardinalityType
  <2>. QED  BY <1>1, <2>2, <2>4
<1>. QED  BY <1>4, <1>5, <1>6, <1>7 DEF Record

(* However many calls record commands at once, each of them carries the    *)
(* count at most one past the limit.                                       *)
THEOREM CommandsBounded == Spec => []CommandOvershoot
<1>1. ASSUME Init  PROVE CommandBudget
  <2>1. Recording = {} /\ task.commands = 0
    BY <1>1 DEF Init, Recording, RecordPhases, Idle
  <2>. QED  BY <2>1, FS_EmptySet, RecordingFinite, LimitsAssumption
            DEF CommandBudget
<1>2. TypeOK /\ CommandBudget /\ [Next]_vars => CommandBudget'
  BY CommandBudgetStep
<1>3. TypeOK /\ CommandBudget => CommandOvershoot
  BY RecordingFinite, LimitsAssumption
     DEF CommandBudget, CommandOvershoot, TypeOK, Task
<1>. QED  BY <1>1, <1>2, <1>3, TypeCorrect, PTL DEF Spec

LEMMA EvidenceFirstStep ==
  ASSUME TypeOK, EvidenceFirst, [Next]_vars
  PROVE  EvidenceFirst'
<1>. USE DEF EvidenceFirst
<1>1. /\ task.commands \in Nat /\ Len(evidence) \in Nat
      /\ Cardinality(Counting) \in Nat /\ IsFiniteSet(Counting)
  BY RecordingFinite, LenProperties DEF TypeOK, Task
<1>2. ASSUME Counting' \subseteq Counting, task'.commands = task.commands,
             Len(evidence') = Len(evidence)
      PROVE  EvidenceFirst'
  <2>1. /\ Cardinality(Counting') \in Nat
        /\ Cardinality(Counting') <= Cardinality(Counting)
    BY <1>1, <1>2, FS_Subset, FS_CardinalityType
  <2>. QED  BY <1>1, <1>2, <2>1
<1>3. CASE UNCHANGED <<task, evidence, calls>>
  BY <1>2, <1>3 DEF Counting
<1>. SUFFICES ASSUME NEW c \in Calls, Record(c)  PROVE EvidenceFirst'
  BY <1>2, <1>3, QuietStep, NoRecord
<1>4. CASE RecordStart(c)
  <2>1. Counting' \subseteq Counting /\ task' = task /\ evidence' = evidence
    BY <1>4 DEF RecordStart, CommandsSpent, Begin, Counting, Idle, TypeOK
  <2>. QED  BY <1>2, <2>1
<1>5. CASE RefuseCommand(c)
  <2>1. /\ Counting' \subseteq Counting
        /\ task'.commands = task.commands /\ evidence' = evidence
    BY <1>5, RefusalEffect DEF Alone, Counting, Idle
  <2>. QED  BY <1>2, <2>1
<1>6. CASE RecordGit(c)
  <2>1. Counting' \subseteq Counting /\ task' = task /\ evidence' = evidence
    BY <1>6 DEF RecordGit, Goto, At, Counting, TypeOK, Call
  <2>. QED  BY <1>2, <2>1
<1>7. CASE RecordInsert(c)
  <2>1. Counting' = Counting \cup {c} /\ c \notin Counting /\ task' = task
    BY <1>7 DEF RecordInsert, Goto, At, Counting, TypeOK, Call
  <2>2. Len(evidence') = Len(evidence) + 1
    <3>. DEFINE f == [i \in DOMAIN evidence |-> Rewritten(i)]
    <3>1. f \in Seq(Evidence) /\ Len(f) = Len(evidence)
      BY RewrittenSeq
    <3>2. \E e : evidence' = Append(f, e)
      BY <1>7 DEF RecordInsert
    <3>. HIDE DEF f
    <3>. QED  BY <3>1, <3>2, AppendProperties
  <2>3. Cardinality(Counting') = Cardinality(Counting) + 1
    BY <1>1, <2>1, FS_AddElement
  <2>. QED  BY <1>1, <2>1, <2>2, <2>3
<1>8. CASE RecordCount(c)
  <2>1. c \in Counting /\ evidence' = evidence
    BY <1>8 DEF RecordCount, At, Counting
  <2>2. Counting' \subseteq Counting \ {c} /\ task'.commands = task.commands + 1
    BY <1>8, RecordCountEffect DEF Alone, Counting, Idle
  <2>3. /\ IsFiniteSet(Counting \ {c})
        /\ Cardinality(Counting \ {c}) = Cardinality(Counting) - 1
    BY <1>1, <2>1, FS_RemoveElement
  <2>4. /\ Cardinality(Counting') \in Nat
        /\ Cardinality(Counting') <= Cardinality(Counting) - 1
    BY <2>2, <2>3, FS_Subset, FS_CardinalityType
  <2>. QED  BY <1>1, <2>1, <2>2, <2>4
<1>. QED  BY <1>4, <1>5, <1>6, <1>7, <1>8 DEF Record

(* No command is counted without its evidence, even when a call fails      *)
(* between the insertion of the evidence and the count.                    *)
THEOREM CountedIsRecorded == Spec => []CountedHasEvidence
<1>1. ASSUME Init  PROVE EvidenceFirst
  <2>1. Counting = {} /\ task.commands = 0 /\ Len(evidence) = 0
    BY <1>1 DEF Init, Counting, Idle
  <2>. QED  BY <2>1, FS_EmptySet DEF EvidenceFirst
<1>2. TypeOK /\ EvidenceFirst /\ [Next]_vars => EvidenceFirst'
  BY EvidenceFirstStep
<1>3. TypeOK /\ EvidenceFirst => CountedHasEvidence
  BY RecordingFinite, LenProperties
     DEF EvidenceFirst, CountedHasEvidence, TypeOK, Task
<1>. QED  BY <1>1, <1>2, <1>3, TypeCorrect, PTL DEF Spec

-----------------------------------------------------------------------------
(* The state BLOCKED.                                                      *)

(* A refused call has read a spent budget, and budgets are never refilled. *)
BlockedInv ==
  /\ BlockedHasReason
  /\ \A c \in Calls :
       /\ At(c, "refuseCommand") => task.commands >= CommandLimit
       /\ At(c, "refuseRepair") => task.repairs >= RepairLimit

LEMMA BlockedStep ==
  ASSUME TypeOK, BlockedInv, [Next]_vars
  PROVE  BlockedInv'
<1>. USE LimitsAssumption
<1>1. /\ task.commands \in Nat /\ task.repairs \in Nat
      /\ CommandLimit \in Nat /\ RepairLimit \in Nat
  BY LimitsAssumption DEF TypeOK, Task
(* What is left to show of a step in which the other calls stay put. *)
<1>2. ASSUME NEW c \in Calls, Alone(c),
             task'.commands \in Nat, task'.repairs \in Nat,
             task'.commands >= task.commands, task'.repairs >= task.repairs,
             task'.state = "BLOCKED" =>
               \/ task.state = "BLOCKED"
               \/ task'.commands >= CommandLimit
               \/ task'.repairs >= RepairLimit,
             calls'[c].at = "refuseCommand" => task.commands >= CommandLimit,
             calls'[c].at = "refuseRepair" => task.repairs >= RepairLimit
      PROVE  BlockedInv'
  <2>1. BlockedHasReason'
    BY <1>1, <1>2 DEF BlockedInv, BlockedHasReason
  <2>2. ASSUME NEW d \in Calls
        PROVE  /\ At(d, "refuseCommand")' => task'.commands >= CommandLimit
               /\ At(d, "refuseRepair")' => task'.repairs >= RepairLimit
    BY <1>1, <1>2 DEF BlockedInv, At, Alone
  <2>. QED  BY <2>1, <2>2 DEF BlockedInv
<1>3. CASE UNCHANGED <<task, evidence, calls>>
  BY <1>3 DEF BlockedInv, BlockedHasReason, At
<1>4. ASSUME NEW c \in Calls, Quiet(c)  PROVE BlockedInv'
  BY <1>1, <1>2, <1>4 DEF Quiet, BudgetPhases, RefusePhases
<1>. SUFFICES ASSUME NEW c \in Calls,
                     \/ Record(c) \/ Repair(c)
                     \/ CycleStart(c) \/ RefuseRepair(c)
              PROVE  BlockedInv'
  BY <1>3, <1>4, QuietStep
<1>5. CASE \/ RecordStart(c) \/ CycleStart(c)
           \/ RepairStart(c) \/ RepairCompleteStart(c)
  <2>1. /\ Alone(c) /\ task' = task
        /\ calls'[c].at = "refuseCommand" => task.commands >= CommandLimit
        /\ calls'[c].at = "refuseRepair" => task.repairs >= RepairLimit
    <3>. USE DEF Begin, Alone, Idle, TypeOK
    <3>1. CASE RecordStart(c)
      BY <3>1 DEF RecordStart, CommandsSpent
    <3>2. CASE CycleStart(c)
      BY <3>2 DEF CycleStart, RepairsSpent
    <3>3. CASE RepairStart(c)
      BY <3>3 DEF RepairStart, RepairsSpent
    <3>4. CASE RepairCompleteStart(c)
      BY <3>4 DEF RepairCompleteStart
    <3>. QED  BY <1>5, <3>1, <3>2, <3>3, <3>4
  <2>. QED  BY <1>1, <1>2, <2>1
<1>6. CASE RecordGit(c) \/ RecordInsert(c) \/ RepairGit(c) \/ RepairStale(c)
  <2>1. Alone(c) /\ task' = task /\ calls'[c].at \notin RefusePhases
    <3>. USE DEF Goto, Alone, RefusePhases, TypeOK, Call
    <3>1. CASE RecordGit(c)
      BY <3>1 DEF RecordGit
    <3>2. CASE RecordInsert(c)
      BY <3>2 DEF RecordInsert
    <3>3. CASE RepairGit(c)
      BY <3>3 DEF RepairGit
    <3>4. CASE RepairStale(c)
      BY <3>4 DEF RepairStale
    <3>. QED  BY <1>6, <3>1, <3>2, <3>3, <3>4
  <2>. QED  BY <1>1, <1>2, <2>1 DEF RefusePhases
<1>7. CASE RefuseCommand(c)
  <2>1. task.commands >= CommandLimit
    BY <1>7 DEF RefuseCommand, BlockedInv
  <2>2. /\ Alone(c) /\ calls'[c] = Idle
        /\ task'.commands = task.commands /\ task'.repairs = task.repairs
    BY <1>7, RefusalEffect
  <2>. QED  BY <1>1, <1>2, <2>1, <2>2 DEF Idle
<1>8. CASE RefuseRepair(c)
  <2>1. task.repairs >= RepairLimit
    BY <1>8 DEF RefuseRepair, BlockedInv
  <2>2. /\ Alone(c) /\ calls'[c] = Idle
        /\ task'.commands = task.commands /\ task'.repairs = task.repairs
    BY <1>8, RefusalEffect
  <2>. QED  BY <1>1, <1>2, <2>1, <2>2 DEF Idle
<1>9. CASE RecordCount(c)
  <2>1. /\ Alone(c) /\ calls'[c] = Idle /\ task'.state = task.state
        /\ task'.commands = task.commands + 1 /\ task'.repairs = task.repairs
    BY <1>9, RecordCountEffect
  <2>. QED  BY <1>1, <1>2, <2>1 DEF Idle
<1>10. CASE RepairOpen(c)
  <2>1. /\ Alone(c) /\ calls'[c] = Idle /\ task'.state = "REPAIRING"
        /\ task'.commands = task.commands /\ task'.repairs = task.repairs
    BY <1>10, RepairOpenEffect
  <2>. QED  BY <1>1, <1>2, <2>1 DEF Idle
<1>11. CASE RepairClose(c)
  BY <1>1, <1>2, <1>11, RepairCloseEffect DEF Idle
<1>. QED  BY <1>5, <1>6, <1>7, <1>8, <1>9, <1>10, <1>11 DEF Record, Repair

(* No task with budget left is ever blocked, however stale the copies of   *)
(* the task on which the calls decide.                                     *)
THEOREM BlockedOnlyWhenSpent == Spec => []BlockedHasReason
<1>1. Init => BlockedInv
  BY DEF Init, BlockedInv, BlockedHasReason, At, Idle
<1>2. TypeOK /\ BlockedInv /\ [Next]_vars => BlockedInv'
  BY BlockedStep
<1>3. BlockedInv => BlockedHasReason
  BY DEF BlockedInv
<1>. QED  BY <1>1, <1>2, <1>3, TypeCorrect, PTL DEF Spec

-----------------------------------------------------------------------------
(* The repair budget, whatever calls are in flight.                        *)

(* The calls about to open an attempt, and those about to complete one.    *)
Opening == {c \in Calls : calls[c].at = "repairOpen"}
Completing == {c \in Calls : calls[c].at \in RepairPhases}

(* Twice what n calls in flight may still add to the count once the budget *)
(* is spent.  Each of the p that are about to open an attempt opens it to  *)
(* the calls that will not open one any more; while an attempt is open    *)
(* (id), all of those may complete it, otherwise only the q that do now.   *)
Load(n, p, q, id) ==
  p * (2 * n - p + 1) + 2 * (IF id # 0 THEN n - p ELSE q)

LEMMA Product ==
  ASSUME NEW x \in Nat, NEW y \in Nat  PROVE x * y >= 0
  BY SMT

LEMMA LoadType ==
  ASSUME NEW n \in Nat, NEW p \in Nat, NEW q \in Nat, NEW id \in Nat
  PROVE  Load(n, p, q, id) \in Int
  BY SMT DEF Load

LEMMA LoadFull ==
  ASSUME NEW n \in Nat, NEW p \in Nat, NEW q \in Nat, NEW id \in Nat,
         p + q <= n
  PROVE  Load(n, p, q, id) <= n * (n + 1)
<1>1. PICK k \in Nat : n = p + k
  <2>1. n - p \in Nat /\ n = p + (n - p)
    BY SMT
  <2>. QED  BY <2>1
<1>2. k * k >= k
  <2>1. CASE k = 0
    BY <2>1, SMT
  <2>2. CASE k # 0
    <3>1. k - 1 \in Nat
      BY <2>2, SMT
    <3>2. k * (k - 1) >= 0
      BY <3>1, Product
    <3>3. k * (k - 1) = k * k - k
      BY SMT
    <3>. QED  BY <3>2, <3>3, SMT
  <2>. QED  BY <2>1, <2>2
<1>3. /\ p * (2 * n - p + 1) = p * p + 2 * (p * k) + p
      /\ n * (n + 1) = p * p + 2 * (p * k) + k * k + p + k
  BY <1>1, SMT
<1>4. q <= k /\ n - p = k
  BY <1>1, SMT
<1>5. Load(n, p, q, id) <= p * p + 2 * (p * k) + p + 2 * k
  BY <1>3, <1>4, SMT DEF Load
<1>6. n * (n + 1) >= p * p + 2 * (p * k) + p + 2 * k
  BY <1>2, <1>3, SMT
<1>7. n * (n + 1) \in Int /\ p * p + 2 * (p * k) + p + 2 * k \in Int
  BY SMT
<1>. QED  BY <1>5, <1>6, <1>7, LoadType, SMT

LEMMA LoadShrinks ==
  ASSUME NEW n \in Nat, NEW p \in Nat, NEW q \in Nat, NEW id \in Nat,
         NEW p1 \in Nat, NEW q1 \in Nat, p <= n, p1 <= p, id # 0 \/ q1 <= q
  PROVE  Load(n, p1, q1, id) <= Load(n, p, q, id)
<1>1. PICK d \in Nat : p = p1 + d
  <2>1. p - p1 \in Nat /\ p = p1 + (p - p1)
    BY SMT
  <2>. QED  BY <2>1
<1>2. PICK k \in Nat : n = p1 + d + k
  <2>1. n - p \in Nat /\ n = p + (n - p)
    BY SMT
  <2>. QED  BY <1>1, <2>1, SMT
<1>3. p1 * (2 * n - p1 + 1) = p1 * p1 + 2 * (p1 * d) + 2 * (p1 * k) + p1
  BY <1>2, SMT
<1>4. p * (2 * n - p + 1)
        = p1 * p1 + 2 * (p1 * d) + 2 * (p1 * k) + p1 + d * d + 2 * (d * k) + d
  BY <1>1, <1>2, SMT
<1>5. d * d >= d /\ d * k >= 0
  <2>1. d * k >= 0
    BY Product
  <2>2. CASE d = 0
    BY <2>1, <2>2, SMT
  <2>3. CASE d # 0
    <3>1. d - 1 \in Nat
      BY <2>3, SMT
    <3>2. d * (d - 1) >= 0
      BY <3>1, Product
    <3>3. d * (d - 1) = d * d - d
      BY SMT
    <3>. QED  BY <2>1, <3>2, <3>3, SMT
  <2>. QED  BY <2>2, <2>3
<1>6. n - p1 = (n - p) + d
  BY <1>1, SMT
<1>. QED  BY <1>3, <1>4, <1>5, <1>6, SMT DEF Load

LEMMA LoadOpened ==
  ASSUME NEW n \in Nat, NEW p \in Nat, NEW q \in Nat, NEW id \in Nat,
         NEW id1 \in Nat \ {0}, p >= 1, p <= n
  PROVE  Load(n, p - 1, q, id1) <= Load(n, p, q, id)
<1>1. (p - 1) * (2 * n - (p - 1) + 1) + 2 * (n - (p - 1)) = p * (2 * n - p + 1)
  BY SMT
<1>. QED  BY <1>1, SMT DEF Load

LEMMA LoadClosed ==
  ASSUME NEW n \in Nat, NEW p \in Nat, NEW q \in Nat, NEW id \in Nat,
         q >= 1, p + q <= n
  PROVE  Load(n, p, q - 1, 0) + 2 <= Load(n, p, q, id)
<1>1. p * (2 * n - p + 1) \in Int
  BY SMT
<1>. QED  BY <1>1, SMT DEF Load
RepairRoom ==
  LET n == Cardinality(Calls)
      load == Load(n, Cardinality(Opening), Cardinality(Completing),
                   task.attempt)
  IN  \/ task.repairs < RepairLimit
      \/ 2 * (task.repairs - RepairLimit + 1) + load <= n * (n + 1)

LEMMA RepairCalls ==
  /\ Cardinality(Calls) \in Nat
  /\ IsFiniteSet(Opening) /\ Cardinality(Opening) \in Nat
  /\ IsFiniteSet(Completing) /\ Cardinality(Completing) \in Nat
  /\ Cardinality(Opening) + Cardinality(Completing) <= Cardinality(Calls)
<1>1. /\ Opening \subseteq Calls /\ Completing \subseteq Calls
      /\ Opening \cap Completing = {}
  BY DEF Opening, Completing, RepairPhases
<1>2. IsFiniteSet(Calls) /\ IsFiniteSet(Opening) /\ IsFiniteSet(Completing)
  BY <1>1, FS_Subset, CallsAssumption
<1>3. Cardinality(Opening \cup Completing)
        = Cardinality(Opening) + Cardinality(Completing)
  <2>1. Cardinality(Opening \cup Completing) = Cardinality(Opening)
          + Cardinality(Completing) - Cardinality(Opening \cap Completing)
    BY <1>2, FS_Union
  <2>2. Cardinality(Opening \cap Completing) = 0
    BY <1>1, FS_EmptySet
  <2>3. Cardinality(Opening) \in Nat /\ Cardinality(Completing) \in Nat
    BY <1>2, FS_CardinalityType
  <2>. QED  BY <2>1, <2>2, <2>3
<1>4. Cardinality(Opening \cup Completing) <= Cardinality(Calls)
  BY <1>1, <1>2, FS_Subset
<1>. QED  BY <1>2, <1>3, <1>4, FS_CardinalityType

LEMMA CountTypes ==
  ASSUME TypeOK
  PROVE  /\ task.repairs \in Nat /\ RepairLimit \in Nat /\ task.attempt \in Nat
         /\ attempts \in Nat
  BY LimitsAssumption DEF TypeOK, Task

(* The three ways in which a step may change what is left. *)
LEMMA RoomKept ==
  ASSUME TypeOK, RepairRoom, task'.repairs = task.repairs,
         \/ task.repairs < RepairLimit
         \/ /\ task'.attempt = task.attempt
            /\ Opening' \subseteq Opening
            /\ Completing' \subseteq Completing \/ task.attempt # 0
  PROVE  RepairRoom'
<1>. DEFINE n == Cardinality(Calls)
            p == Cardinality(Opening)  p1 == Cardinality(Opening')
            q == Cardinality(Completing)  q1 == Cardinality(Completing')
<1>1. CASE task.repairs < RepairLimit
  BY <1>1 DEF RepairRoom
<1>2. CASE /\ task'.attempt = task.attempt
           /\ Opening' \subseteq Opening
           /\ Completing' \subseteq Completing \/ task.attempt # 0
           /\ ~(task.repairs < RepairLimit)
  <2>1. /\ n \in Nat /\ p \in Nat /\ q \in Nat /\ p + q <= n
        /\ IsFiniteSet(Opening) /\ IsFiniteSet(Completing)
    BY RepairCalls
  <2>2. p1 \in Nat /\ p1 <= p
    BY <1>2, <2>1, FS_Subset, FS_CardinalityType
  <2>3. IsFiniteSet(Completing')
    <3>1. Completing' \subseteq Calls
      BY DEF Completing
    <3>. QED  BY <3>1, FS_Subset, CallsAssumption
  <2>4. q1 \in Nat /\ (q1 <= q \/ task.attempt # 0)
    BY <1>2, <2>1, <2>3, FS_Subset, FS_CardinalityType
  <2>. DEFINE id == task.attempt  total == n * (n + 1)
  <2>5. id \in Nat /\ p <= n /\ (id # 0 \/ q1 <= q)
    BY <2>1, <2>4, CountTypes
  <2>. HIDE DEF n, p, p1, q, q1, id
  <2>6. Load(n, p1, q1, id) <= Load(n, p, q, id)
    BY <2>1, <2>2, <2>4, <2>5, LoadShrinks
  <2>7. Load(n, p1, q1, id) \in Int /\ Load(n, p, q, id) \in Int
    BY <2>1, <2>2, <2>4, <2>5, LoadType
  <2>8. total \in Int
    BY <2>1
  <2>. HIDE DEF total
  <2>9. 2 * (task.repairs - RepairLimit + 1) + Load(n, p, q, id) <= total
    BY <1>2 DEF RepairRoom, n, p, q, id, total
  <2>10. 2 * (task.repairs - RepairLimit + 1) + Load(n, p1, q1, id) <= total
    BY <2>6, <2>7, <2>8, <2>9, CountTypes
  <2>. QED  BY <1>2, <2>10 DEF RepairRoom, n, p1, q1, id, total
<1>. QED  BY <1>1, <1>2

LEMMA RoomOpened ==
  ASSUME TypeOK, RepairRoom, NEW c \in Opening, Opening' \subseteq Opening \ {c},
         Completing' \subseteq Completing,
         task'.repairs = task.repairs, task'.attempt \in Nat \ {0}
  PROVE  RepairRoom'
<1>. DEFINE n == Cardinality(Calls)
            p == Cardinality(Opening)  p1 == Cardinality(Opening')
            q == Cardinality(Completing)  q1 == Cardinality(Completing')
            id == task.attempt  id1 == task'.attempt  total == n * (n + 1)
<1>1. /\ n \in Nat /\ p \in Nat /\ q \in Nat /\ p + q <= n
      /\ IsFiniteSet(Opening) /\ IsFiniteSet(Completing)
  BY RepairCalls
<1>2. p >= 1 /\ p1 \in Nat /\ p1 <= p - 1
  <2>1. IsFiniteSet(Opening \ {c}) /\ Cardinality(Opening \ {c}) = p - 1
    BY <1>1, FS_RemoveElement
  <2>2. Cardinality(Opening \ {c}) \in Nat
    BY <2>1, FS_CardinalityType
  <2>3. p1 \in Nat /\ p1 <= Cardinality(Opening \ {c})
    BY <2>1, FS_Subset, FS_CardinalityType
  <2>. QED  BY <1>1, <2>1, <2>2, <2>3
<1>3. q1 \in Nat
  BY <1>1, FS_Subset, FS_CardinalityType
<1>. HIDE DEF n, p, p1, q, q1, id, id1
<1>4. CASE task.repairs < RepairLimit
  BY <1>4 DEF RepairRoom
<1>5. CASE ~(task.repairs < RepairLimit)
  <2>1. /\ id \in Nat /\ id1 \in Nat \ {0} /\ id1 \in Nat /\ id1 # 0
        /\ p - 1 \in Nat /\ p - 1 <= n /\ p <= n
    BY <1>1, <1>2, CountTypes DEF id, id1
  <2>2. Load(n, p - 1, q, id1) <= Load(n, p, q, id)
    BY <1>1, <1>2, <2>1, LoadOpened
  <2>3. Load(n, p1, q1, id1) <= Load(n, p - 1, q, id1)
    BY <1>1, <1>2, <1>3, <2>1, LoadShrinks
  <2>4. /\ Load(n, p1, q1, id1) \in Int /\ Load(n, p, q, id) \in Int
        /\ Load(n, p - 1, q, id1) \in Int
    BY <1>1, <1>2, <1>3, <2>1, LoadType
  <2>5. total \in Int
    BY <1>1
  <2>. HIDE DEF total
  <2>6. 2 * (task.repairs - RepairLimit + 1) + Load(n, p, q, id) <= total
    BY <1>5 DEF RepairRoom, n, p, q, id, total
  <2>7. 2 * (task.repairs - RepairLimit + 1) + Load(n, p1, q1, id1) <= total
    BY <2>2, <2>3, <2>4, <2>5, <2>6, CountTypes
  <2>. QED  BY <2>7 DEF RepairRoom, n, p1, q1, id1, total
<1>. QED  BY <1>4, <1>5

LEMMA RoomClosed ==
  ASSUME TypeOK, RepairRoom, NEW c \in Completing,
         Completing' \subseteq Completing \ {c}, Opening' \subseteq Opening,
         task'.repairs = task.repairs + 1, task'.attempt = 0
  PROVE  RepairRoom'
<1>. DEFINE n == Cardinality(Calls)
            p == Cardinality(Opening)  p1 == Cardinality(Opening')
            q == Cardinality(Completing)  q1 == Cardinality(Completing')
            id == task.attempt  total == n * (n + 1)
<1>1. /\ n \in Nat /\ p \in Nat /\ q \in Nat /\ p + q <= n
      /\ IsFiniteSet(Opening) /\ IsFiniteSet(Completing)
  BY RepairCalls
<1>2. q >= 1 /\ q1 \in Nat /\ q1 <= q - 1
  <2>1. IsFiniteSet(Completing \ {c}) /\ Cardinality(Completing \ {c}) = q - 1
    BY <1>1, FS_RemoveElement
  <2>2. Cardinality(Completing \ {c}) \in Nat
    BY <2>1, FS_CardinalityType
  <2>3. q1 \in Nat /\ q1 <= Cardinality(Completing \ {c})
    BY <2>1, FS_Subset, FS_CardinalityType
  <2>. QED  BY <1>1, <2>1, <2>2, <2>3
<1>3. p1 \in Nat /\ p1 <= p
  BY <1>1, FS_Subset, FS_CardinalityType
<1>. HIDE DEF n, p, p1, q, q1, id
<1>4. id \in Nat /\ 0 \in Nat /\ q - 1 \in Nat /\ p <= n /\ total \in Int
  BY <1>1, <1>2, CountTypes DEF id
<1>5. Load(n, p, q - 1, 0) + 2 <= Load(n, p, q, id)
  BY <1>1, <1>2, <1>4, LoadClosed
<1>6. Load(n, p1, q1, 0) <= Load(n, p, q - 1, 0)
  BY <1>1, <1>2, <1>3, <1>4, LoadShrinks
<1>7. Load(n, p, q, id) <= total
  BY <1>1, <1>4, LoadFull
<1>8. /\ Load(n, p1, q1, 0) \in Int /\ Load(n, p, q, id) \in Int
      /\ Load(n, p, q - 1, 0) \in Int
  BY <1>1, <1>2, <1>3, <1>4, LoadType
<1>. HIDE DEF total
<1>9. \/ task.repairs < RepairLimit
      \/ 2 * (task.repairs - RepairLimit + 1) + Load(n, p, q, id) <= total
  BY DEF RepairRoom, n, p, q, id, total
<1>10. \/ task.repairs + 1 < RepairLimit
       \/ 2 * (task.repairs + 1 - RepairLimit + 1) + Load(n, p1, q1, 0) <= total
  BY <1>4, <1>5, <1>6, <1>7, <1>8, <1>9, CountTypes
<1>11. \/ task'.repairs < RepairLimit
       \/ 2 * (task'.repairs - RepairLimit + 1) + Load(n, p1, q1, task'.attempt)
            <= total
  <2>1. task'.repairs = task.repairs + 1 /\ task'.attempt = 0
    OBVIOUS
  <2>. DEFINE r1 == task'.repairs  id1 == task'.attempt
  <2>2. r1 = task.repairs + 1 /\ id1 = 0
    BY <2>1
  <2>. HIDE DEF r1, id1
  <2>3. \/ r1 < RepairLimit
        \/ 2 * (r1 - RepairLimit + 1) + Load(n, p1, q1, id1) <= total
    BY <1>10, <2>2, CountTypes
  <2>. QED  BY <2>3 DEF r1, id1
<1>. QED  BY <1>11 DEF RepairRoom, n, p1, q1, total

LEMMA RepairRoomStep ==
  ASSUME TypeOK, RepairRoom, [Next]_vars
  PROVE  RepairRoom'
<1>1. CASE UNCHANGED <<task, evidence, calls>>
  BY <1>1, RoomKept DEF Opening, Completing
(* A step of a call that is then neither to open nor to complete anything. *)
<1>2. ASSUME NEW c \in Calls, Alone(c), task'.repairs = task.repairs,
             task'.attempt = task.attempt,
             calls'[c].at \notin RepairPhases \cup {"repairOpen"}
      PROVE  RepairRoom'
  <2>1. Opening' \subseteq Opening /\ Completing' \subseteq Completing
    BY <1>2 DEF Alone, Opening, Completing
  <2>. QED  BY <1>2, <2>1, RoomKept
<1>. SUFFICES ASSUME NEW c \in Calls,
                     \/ Quiet(c) \/ Record(c) \/ Repair(c)
                     \/ CycleStart(c) \/ RefuseRepair(c)
              PROVE  RepairRoom'
  BY <1>1, QuietStep
<1>3. CASE Quiet(c)
  BY <1>2, <1>3 DEF Quiet, BudgetPhases
<1>4. CASE Record(c)
  <2>. USE DEF Idle, RepairPhases, TypeOK, Call, Alone
  <2>. SUFFICES /\ Alone(c)
                /\ task'.repairs = task.repairs /\ task'.attempt = task.attempt
                /\ calls'[c].at \notin RepairPhases \cup {"repairOpen"}
    BY <1>2
  <2>1. CASE RecordStart(c)
    BY <2>1 DEF RecordStart, CommandsSpent, Begin
  <2>2. CASE RefuseCommand(c)
    BY <2>2, RefusalEffect
  <2>3. CASE RecordGit(c)
    BY <2>3 DEF RecordGit, Goto
  <2>4. CASE RecordInsert(c)
    BY <2>4 DEF RecordInsert, Goto
  <2>5. CASE RecordCount(c)
    BY <2>5, RecordCountEffect
  <2>. QED  BY <1>4, <2>1, <2>2, <2>3, <2>4, <2>5 DEF Record
<1>5. CASE CycleStart(c)
  BY <1>2, <1>5
     DEF CycleStart, RepairsSpent, Begin, Idle, RepairPhases, TypeOK, Alone
<1>6. CASE RefuseRepair(c)
  BY <1>2, <1>6, RefusalEffect DEF Idle, RepairPhases
<1>7. CASE RepairStart(c)
  <2>1. Alone(c) /\ task' = task /\ calls'[c].at \notin RepairPhases
        /\ (calls'[c].at = "repairOpen" => ~(task.repairs >= RepairLimit))
    BY <1>7 DEF RepairStart, RepairsSpent, Begin, Idle, RepairPhases, TypeOK,
                Alone
  <2>2. CASE calls'[c].at = "repairOpen"
    <3>1. task.repairs < RepairLimit
      BY <2>1, <2>2, LimitsAssumption DEF TypeOK, Task
    <3>. QED  BY <2>1, <3>1, RoomKept
  <2>3. CASE calls'[c].at # "repairOpen"
    BY <1>2, <2>1, <2>3
  <2>. QED  BY <2>2, <2>3
<1>8. CASE RepairOpen(c)
  <2>1. /\ Alone(c) /\ calls'[c] = Idle /\ task'.repairs = task.repairs
        /\ task'.attempt = attempts + 1
    BY <1>8, RepairOpenEffect
  <2>2. /\ c \in Opening /\ Opening' \subseteq Opening \ {c}
        /\ Completing' \subseteq Completing
    BY <1>8, <2>1
       DEF RepairOpen, At, Opening, Completing, RepairPhases, Alone, Idle
  <2>3. task'.attempt \in Nat \ {0}
    BY <2>1, CountTypes
  <2>. QED  BY <2>1, <2>2, <2>3, RoomOpened
<1>9. CASE RepairCompleteStart(c)
  <2>1. /\ Alone(c) /\ task' = task /\ task.attempt # 0
        /\ calls'[c].at = "repairGit"
    BY <1>9 DEF RepairCompleteStart, Begin, Idle, TypeOK, Alone
  <2>2. Opening' \subseteq Opening
    BY <2>1 DEF Alone, Opening
  <2>. QED  BY <2>1, <2>2, RoomKept
<1>10. CASE RepairGit(c) \/ RepairStale(c)
  <2>1. /\ Alone(c) /\ task' = task /\ calls[c].at \in RepairPhases
        /\ calls'[c].at # "repairOpen"
    <3>. USE DEF At, Goto, RepairPhases, TypeOK, Call, Alone
    <3>1. CASE RepairGit(c)
      BY <3>1 DEF RepairGit
    <3>2. CASE RepairStale(c)
      BY <3>2 DEF RepairStale
    <3>. QED  BY <1>10, <3>1, <3>2
  <2>2. Opening' \subseteq Opening /\ Completing' \subseteq Completing
    BY <2>1 DEF Alone, Opening, Completing
  <2>. QED  BY <2>1, <2>2, RoomKept
<1>11. CASE RepairClose(c)
  <2>1. /\ Alone(c) /\ calls'[c] = Idle /\ task'.repairs = task.repairs + 1
        /\ task'.attempt = 0
    BY <1>11, RepairCloseEffect
  <2>2. /\ c \in Completing /\ Completing' \subseteq Completing \ {c}
        /\ Opening' \subseteq Opening
    BY <1>11, <2>1
       DEF RepairClose, At, Opening, Completing, RepairPhases, Alone, Idle
  <2>. QED  BY <2>1, <2>2, RoomClosed
<1>. QED  BY <1>3, <1>4, <1>5, <1>6, <1>7, <1>8, <1>9, <1>10, <1>11 DEF Repair

(* However many calls open and complete attempts at once, the count passes *)
(* the limit by less than the triangular number of the calls; with one     *)
(* call at a time it never passes it.                                      *)
THEOREM RepairsBounded == Spec => []RepairOvershoot
<1>1. Init => RepairRoom
  BY LimitsAssumption DEF Init, RepairRoom
<1>2. TypeOK /\ RepairRoom /\ [Next]_vars => RepairRoom'
  BY RepairRoomStep
<1>3. ASSUME TypeOK, RepairRoom  PROVE RepairOvershoot
  <2>. DEFINE n == Cardinality(Calls)  p == Cardinality(Opening)
              q == Cardinality(Completing)  id == task.attempt
  <2>1. /\ n \in Nat /\ p \in Nat /\ q \in Nat /\ p + q <= n
        /\ task.repairs \in Nat /\ RepairLimit \in Nat /\ id \in Nat
    BY <1>3, RepairCalls, CountTypes
  <2>2. \/ task.repairs < RepairLimit
        \/ 2 * (task.repairs - RepairLimit + 1) + Load(n, p, q, id)
             <= n * (n + 1)
    BY <1>3 DEF RepairRoom
  <2>. HIDE DEF n, p, q, id
  <2>3. Load(n, p, q, id) \in Int /\ Load(n, p, q, id) >= 0
    <3>1. p * (2 * n - p + 1) >= 0
      <4>1. 2 * n - p + 1 \in Nat
        BY <2>1
      <4>. QED  BY <2>1, <4>1, Product
    <3>2. p * (2 * n - p + 1) \in Int /\ n - p >= 0
      BY <2>1
    <3>. QED  BY <2>1, <3>1, <3>2, LoadType, SMT DEF Load
  <2>4. n * (n + 1) \in Nat
    BY <2>1
  <2>5. task.repairs <= RepairLimit - 1 + (n * (n + 1)) \div 2
    BY <2>1, <2>2, <2>3, <2>4, SMT
  <2>. QED  BY <2>5 DEF RepairOvershoot, n
<1>. QED  BY <1>1, <1>2, <1>3, TypeCorrect, PTL DEF Spec

-----------------------------------------------------------------------------
(* The repair budget of a client that calls one tool at a time.            *)

(* An attempt is only open, or about to be opened, with budget left, and a *)
(* call that completes an attempt completes the open one.                  *)
RepairBudgetInv ==
  /\ task.repairs <= RepairLimit
  /\ task.attempt # 0 => task.repairs < RepairLimit
  /\ \A c \in Calls :
       /\ At(c, "repairOpen") => task.attempt = 0 /\ task.repairs < RepairLimit
       /\ calls[c].at \in RepairPhases => task.attempt # 0

(* With one call at a time, the step of that call decides everything. *)
LEMMA RepairBudgetStep ==
  ASSUME Serial, TypeOK, RepairBudgetInv, [Next]_vars
  PROVE  /\ RepairBudgetInv'
         /\ \/ task'.repairs = task.repairs /\ (task'.attempt # 0) = (task.attempt # 0)
            \/ /\ task.attempt = 0 /\ task.repairs < RepairLimit
               /\ task'.attempt # 0 /\ task'.repairs = task.repairs
            \/ /\ task.attempt # 0 /\ task'.attempt = 0
               /\ task'.repairs = task.repairs + 1
<1>1. task.repairs \in Nat /\ RepairLimit \in Nat /\ attempts \in Nat
  BY LimitsAssumption DEF TypeOK, Task
<1>2. ASSUME NEW c \in Calls
      PROVE  RepairBudgetInv' <=>
               /\ task'.repairs <= RepairLimit
               /\ task'.attempt # 0 => task'.repairs < RepairLimit
               /\ calls'[c].at = "repairOpen"
                    => task'.attempt = 0 /\ task'.repairs < RepairLimit
               /\ calls'[c].at \in RepairPhases => task'.attempt # 0
  BY DEF RepairBudgetInv, Serial, At
<1>3. CASE UNCHANGED <<task, evidence, calls>>
  BY <1>3 DEF RepairBudgetInv, At
<1>. SUFFICES ASSUME NEW c \in Calls,
                     \/ Quiet(c) \/ Record(c) \/ Repair(c)
                     \/ CycleStart(c) \/ RefuseRepair(c)
              PROVE  /\ RepairBudgetInv'
                     /\ \/ /\ task'.repairs = task.repairs
                           /\ (task'.attempt # 0) = (task.attempt # 0)
                        \/ /\ task.attempt = 0 /\ task.repairs < RepairLimit
                           /\ task'.attempt # 0 /\ task'.repairs = task.repairs
                        \/ /\ task.attempt # 0 /\ task'.attempt = 0
                           /\ task'.repairs = task.repairs + 1
  BY <1>3, QuietStep
<1>4. ASSUME task'.repairs = task.repairs, task'.attempt = task.attempt,
             calls'[c].at \notin RepairPhases \cup {"repairOpen"}
      PROVE  RepairBudgetInv'
  BY <1>1, <1>2, <1>4 DEF RepairBudgetInv
<1>5. CASE Quiet(c)
  BY <1>4, <1>5 DEF Quiet, BudgetPhases
<1>6. CASE Record(c)
  <2>. USE DEF Idle, RepairPhases, TypeOK, Call
  <2>. SUFFICES /\ task'.repairs = task.repairs /\ task'.attempt = task.attempt
                /\ calls'[c].at \notin RepairPhases \cup {"repairOpen"}
    BY <1>4
  <2>1. CASE RecordStart(c)
    BY <2>1 DEF RecordStart, CommandsSpent, Begin
  <2>2. CASE RefuseCommand(c)
    BY <2>2, RefusalEffect
  <2>3. CASE RecordGit(c)
    BY <2>3 DEF RecordGit, Goto
  <2>4. CASE RecordInsert(c)
    BY <2>4 DEF RecordInsert, Goto
  <2>5. CASE RecordCount(c)
    BY <2>5, RecordCountEffect
  <2>. QED  BY <1>6, <2>1, <2>2, <2>3, <2>4, <2>5 DEF Record
<1>7. CASE CycleStart(c)
  BY <1>4, <1>7 DEF CycleStart, RepairsSpent, Begin, Idle, RepairPhases, TypeOK
<1>8. CASE RefuseRepair(c)
  BY <1>4, <1>8, RefusalEffect DEF Idle, RepairPhases
<1>9. CASE RepairStart(c)
  <2>1. /\ task' = task /\ task.attempt = 0
        /\ calls'[c].at \notin RepairPhases
        /\ calls'[c].at = "repairOpen" => ~(task.repairs >= RepairLimit)
    BY <1>9 DEF RepairStart, RepairsSpent, Begin, Idle, RepairPhases, TypeOK
  <2>. QED  BY <1>1, <1>2, <2>1 DEF RepairBudgetInv
<1>10. CASE RepairOpen(c)
  <2>1. task.attempt = 0 /\ task.repairs < RepairLimit
    BY <1>10 DEF RepairOpen, RepairBudgetInv
  <2>2. /\ task'.repairs = task.repairs /\ task'.attempt = attempts + 1
        /\ calls'[c].at \notin RepairPhases \cup {"repairOpen"}
    BY <1>10, RepairOpenEffect DEF Idle, RepairPhases
  <2>3. attempts + 1 # 0
    BY <1>1
  <2>. QED  BY <1>1, <1>2, <2>1, <2>2, <2>3
<1>11. CASE RepairCompleteStart(c)
  <2>1. task' = task /\ task.attempt # 0 /\ calls'[c].at = "repairGit"
    BY <1>11 DEF RepairCompleteStart, Begin, Idle, TypeOK
  <2>. QED  BY <1>1, <1>2, <2>1 DEF RepairBudgetInv
<1>12. CASE RepairGit(c) \/ RepairStale(c)
  <2>1. /\ task' = task /\ calls[c].at \in RepairPhases
        /\ calls'[c].at # "repairOpen"
    <3>1. CASE RepairGit(c)
      BY <3>1 DEF RepairGit, At, Goto, RepairPhases, TypeOK, Call
    <3>2. CASE RepairStale(c)
      BY <3>2 DEF RepairStale, At, Goto, RepairPhases, TypeOK, Call
    <3>. QED  BY <1>12, <3>1, <3>2
  <2>2. task.attempt # 0
    BY <2>1 DEF RepairBudgetInv
  <2>. QED  BY <1>1, <1>2, <2>1, <2>2 DEF RepairBudgetInv
<1>13. CASE RepairClose(c)
  <2>1. task.attempt # 0
    BY <1>13 DEF RepairClose, At, RepairPhases, RepairBudgetInv
  <2>2. task.repairs < RepairLimit
    BY <2>1 DEF RepairBudgetInv
  <2>3. /\ task'.repairs = task.repairs + 1 /\ task'.attempt = 0
        /\ calls'[c].at \notin RepairPhases \cup {"repairOpen"}
    BY <1>13, RepairCloseEffect DEF Idle, RepairPhases
  <2>. QED  BY <1>1, <1>2, <2>1, <2>2, <2>3
<1>. QED  BY <1>5, <1>6, <1>7, <1>8, <1>9, <1>10, <1>11, <1>12, <1>13 DEF Repair

(* What such a client sees of its attempts is the abstract budget: one     *)
(* attempt at a time, each charged once, none beyond the limit.            *)
THEOREM BudgetImplemented == Serial => (Spec => BudgetSpec)
<1>. SUFFICES ASSUME Serial  PROVE Spec => BudgetSpec
  OBVIOUS
<1>1. Init => RepairBudgetInv
  BY LimitsAssumption DEF Init, RepairBudgetInv, At, Idle, RepairPhases
<1>2. Init => Budget!Init
  BY DEF Init, Budget!Init
<1>3. TypeOK /\ RepairBudgetInv /\ [Next]_vars
        => RepairBudgetInv' /\ [Budget!Next]_(Budget!budget)
  BY RepairBudgetStep
     DEF Budget!Next, Budget!Open, Budget!Charge, Budget!budget
<1>. QED  BY <1>1, <1>2, <1>3, TypeCorrect, PTL DEF Spec, BudgetSpec, Budget!Spec

-----------------------------------------------------------------------------
(* The completion gate and the clearing of evidence, one call at a time.   *)

(* How a step leaves the call that takes it. *)
LEMMA Gone ==
  ASSUME TypeOK, NEW c \in Calls, NEW call, Goto(c, call)
  PROVE  calls'[c] = call
  BY DEF Goto, TypeOK

LEMMA Updated ==
  ASSUME NEW c \in Calls, NEW new, Update(c, new)
  PROVE  calls'[c] = Idle
  BY DEF Update

(* Only a gate moves to the phases of the gate, and only RepairStale moves *)
(* to repairClose.                                                         *)
GatePhases == {"gateBranch", "gateStatus", "gateLog", "gateEvidence",
               "gateDiff", "gateReady"}
LatePhases == GatePhases \cup {"repairClose"}

LEMMA EarlyMoves ==
  ASSUME TypeOK, NEW c \in Calls,
         \/ Plan(c) \/ Scan(c) \/ Record(c) \/ Validate(c) \/ Resume(c)
         \/ Abandon(c) \/ Abort(c)
         \/ RepairStart(c) \/ RepairOpen(c) \/ RepairCompleteStart(c)
         \/ RepairGit(c) \/ RepairClose(c)
  PROVE  calls'[c].at \notin LatePhases
<1>. USE DEF GatePhases, LatePhases, Idle, TypeOK, Call
<1>1. CASE \/ PlanSave(c) \/ StepSave(c) \/ ScanSave(c) \/ RefuseCommand(c)
           \/ RecordCount(c) \/ RefuseRepair(c) \/ CycleOpen(c)
           \/ CycleClose(c) \/ ResumeSave(c) \/ Abandon(c) \/ RepairOpen(c)
           \/ RepairClose(c)
  <2>. SUFFICES calls'[c] = Idle
    OBVIOUS
  <2>. USE DEF Update
  <2>1. CASE PlanSave(c) \/ StepSave(c) \/ ScanSave(c)
    BY <2>1 DEF PlanSave, StepSave, ScanSave
  <2>2. CASE RefuseCommand(c) \/ RecordCount(c) \/ RefuseRepair(c)
    BY <2>2 DEF RefuseCommand, RecordCount, RefuseRepair
  <2>3. CASE CycleOpen(c) \/ CycleClose(c) \/ ResumeSave(c) \/ Abandon(c)
    BY <2>3 DEF CycleOpen, CycleClose, ResumeSave, Abandon
  <2>4. CASE RepairOpen(c) \/ RepairClose(c)
    BY <2>4 DEF RepairOpen, RepairClose
  <2>. QED  BY <1>1, <2>1, <2>2, <2>3, <2>4
<1>2. CASE \/ PlanStart(c) \/ StepStart(c) \/ ScanStart(c) \/ RecordStart(c)
           \/ CycleStart(c) \/ CycleCompleteStart(c) \/ ResumeStart(c)
           \/ RepairStart(c) \/ RepairCompleteStart(c)
  <2>. USE DEF Begin
  <2>1. CASE PlanStart(c)
    BY <2>1 DEF PlanStart
  <2>2. CASE StepStart(c)
    BY <2>2 DEF StepStart
  <2>3. CASE ScanStart(c)
    BY <2>3 DEF ScanStart
  <2>4. CASE ResumeStart(c)
    BY <2>4 DEF ResumeStart
  <2>5. CASE RepairCompleteStart(c)
    <3>. HIDE DEF Call, GatePhases, LatePhases
    <3>. PICK changed \in BOOLEAN, done \in BOOLEAN :
           Begin(c, "repair_attempt_complete",
                 [Idle EXCEPT !.at = "repairGit", !.id = task.attempt,
                              !.changed = changed, !.done = done])
      BY <2>5 DEF RepairCompleteStart
    <3>1. calls'[c].at = "repairGit"
      OBVIOUS
    <3>. QED  BY <3>1 DEF GatePhases, LatePhases
  <2>6. CASE RecordStart(c)
    BY <2>6 DEF RecordStart, CommandsSpent
  <2>7. CASE CycleStart(c)
    BY <2>7 DEF CycleStart, RepairsSpent
  <2>8. CASE RepairStart(c)
    BY <2>8 DEF RepairStart, RepairsSpent
  <2>9. CASE CycleCompleteStart(c)
    <3>. PICK ids \in SUBSET DOMAIN evidence :
           Begin(c, "validation_cycle_complete",
                 [Idle EXCEPT !.at = "cycleGit", !.ids = ids])
      BY <2>9 DEF CycleCompleteStart
    <3>. QED  OBVIOUS
  <2>. QED  BY <1>2, <2>1, <2>2, <2>3, <2>4, <2>5, <2>6, <2>7, <2>8, <2>9
<1>3. CASE \/ ScanGit(c) \/ RecordGit(c) \/ RecordInsert(c) \/ CycleGit(c)
           \/ CycleList(c) \/ ResumeGit(c) \/ ResumeStale(c) \/ RepairGit(c)
           \/ Abort(c)
  <2>. USE DEF Goto
  <2>1. CASE ScanGit(c)
    BY <2>1 DEF ScanGit
  <2>2. CASE RecordGit(c)
    BY <2>2 DEF RecordGit
  <2>3. CASE RecordInsert(c)
    BY <2>3 DEF RecordInsert
  <2>4. CASE CycleGit(c)
    BY <2>4 DEF CycleGit
  <2>5. CASE ResumeGit(c)
    BY <2>5 DEF ResumeGit
  <2>6. CASE ResumeStale(c)
    BY <2>6 DEF ResumeStale
  <2>7. CASE RepairGit(c)
    <3>. HIDE DEF GatePhases, LatePhases
    <3>1. calls'[c].at = "repairStale"
      BY <2>7 DEF RepairGit
    <3>. QED  BY <3>1 DEF GatePhases, LatePhases
  <2>8. CASE Abort(c)
    BY <2>8 DEF Abort, Return
  <2>9. CASE CycleList(c)
    <3>. DEFINE ok == \A i \in calls[c].ids : evidence[i].status = "passed"
    <3>1. \/ Goto(c, [calls[c] EXCEPT !.at = "cycleClose", !.ok = ok])
          \/ Goto(c, Idle)
      BY <2>9 DEF CycleList, Return
    <3>. HIDE DEF ok, GatePhases, LatePhases
    <3>2. [calls[c] EXCEPT !.at = "cycleClose", !.ok = ok].at = "cycleClose"
      OBVIOUS
    <3>. HIDE DEF Idle
    <3>3. \/ calls'[c] = [calls[c] EXCEPT !.at = "cycleClose", !.ok = ok]
          \/ calls'[c] = Idle
      BY <3>1, Gone
    <3>4. Idle.at = "idle"
      BY DEF Idle
    <3>. QED  BY <3>2, <3>3, <3>4 DEF GatePhases, LatePhases
  <2>. QED  BY <1>3, <2>1, <2>2, <2>3, <2>4, <2>5, <2>6, <2>7, <2>8, <2>9
<1>. QED  BY <1>1, <1>2, <1>3 DEF Plan, Scan, Record, Validate, Resume

(* A step is one of the environment, an early move, or one of those left.  *)
LEMMA SerialStep ==
  ASSUME TypeOK, [Next]_vars
  PROVE  \/ UNCHANGED <<task, evidence, calls, tree>>
         \/ Edit \/ Commit \/ LeaveBranch
         \/ \E c \in Calls : \/ calls'[c].at \notin LatePhases
                             \/ RepairStale(c) \/ Evaluate(c)
  BY EarlyMoves DEF Next, vars, Repair

-----------------------------------------------------------------------------
(* What a gate knows at each of its awaits, while nobody else works on the *)
(* task: the answers it got so far still hold.                             *)
AfterBranch == {"gateStatus", "gateLog", "gateEvidence", "gateDiff", "gateReady"}
AfterStatus == {"gateLog", "gateEvidence", "gateDiff", "gateReady"}
AfterLog == {"gateEvidence", "gateDiff", "gateReady"}
AfterEvidence == {"gateDiff", "gateReady"}

GateKnows ==
  \A c \in Calls :
    /\ calls[c].at \in GatePhases
         => calls[c].base = task.base /\ calls[c].plan = task.plan
    /\ calls[c].at \in AfterBranch => tree.branch # "main"
    /\ calls[c].at \in AfterStatus => ~tree.dirty
    /\ calls[c].at \in AfterLog
         => CommitsBeyond(task.base) /\ task.plan # "open"
    /\ calls[c].at \in AfterEvidence
         => /\ \A i \in Visible : ~Fresh(i, "failed")
            /\ calls[c].ack \/ \E i \in Visible : Fresh(i, "passed")

Undisturbed == Serial /\ GitReliable /\ ~Background

LEMMA GateKnowsStep ==
  ASSUME TypeOK, Undisturbed, GateKnows, [Next]_vars
  PROVE  GateKnows'
<1>. USE DEF GatePhases, AfterBranch, AfterStatus, AfterLog, AfterEvidence
<1>. DEFINE Whole(c) ==
       /\ \A i \in Visible : ~Fresh(i, "failed")
       /\ calls[c].ack \/ \E i \in Visible : Fresh(i, "passed")
     Knows(c) ==
       /\ calls[c].at \in GatePhases
            => calls[c].base = task.base /\ calls[c].plan = task.plan
       /\ calls[c].at \in AfterBranch => tree.branch # "main"
       /\ calls[c].at \in AfterStatus => ~tree.dirty
       /\ calls[c].at \in AfterLog
            => CommitsBeyond(task.base) /\ task.plan # "open"
       /\ calls[c].at \in AfterEvidence => Whole(c)
<1>1. ASSUME NEW c \in Calls  PROVE (GateKnows <=> Knows(c)) /\ (GateKnows' <=> Knows(c)')
  BY DEF Undisturbed, Serial, GateKnows
<1>2. CASE UNCHANGED <<task, evidence, calls, tree>>
  BY <1>2 DEF GateKnows, CommitsBeyond, Visible, Kept, Fresh
<1>3. CASE Edit \/ Commit \/ LeaveBranch
  <2>1. calls' = calls /\ \A c \in Calls : calls[c].at = "idle"
    BY <1>3 DEF Edit, Commit, LeaveBranch, Work, At, Undisturbed
  <2>. QED  BY <2>1 DEF GateKnows
<1>. SUFFICES ASSUME NEW c \in Calls,
                     \/ calls'[c].at \notin LatePhases
                     \/ RepairStale(c) \/ Evaluate(c)
              PROVE  Knows(c)'
  BY <1>1, <1>2, <1>3, SerialStep
<1>4. ASSUME calls'[c].at \notin GatePhases  PROVE Knows(c)'
  BY <1>4
<1>5. CASE calls'[c].at \notin LatePhases
  BY <1>4, <1>5 DEF LatePhases
<1>6. CASE RepairStale(c)
  BY <1>4, <1>6, Gone DEF RepairStale, TypeOK, Call
<1>7. CASE GateStart(c)
  BY <1>7 DEF GateStart, Begin, Idle, TypeOK
<1>8. CASE GateReady(c)
  <2>1. calls'[c] = Idle
    BY <1>8, Updated DEF GateReady
  <2>. QED  BY <1>4, <2>1 DEF Idle
(* The six checks: a step that fails one ends the call. *)
<1>9. ASSUME NEW phase \in GatePhases, NEW passed, NEW next \in GatePhases,
             Gate(c, phase, passed, next),
             passed /\ calls[c].at = phase /\ Knows(c)
               => /\ next \in AfterBranch => tree.branch # "main"
                  /\ next \in AfterStatus => ~tree.dirty
                  /\ next \in AfterLog
                       => CommitsBeyond(task.base) /\ task.plan # "open"
                  /\ next \in AfterEvidence => Whole(c)
      PROVE  Knows(c)'
  <2>1. CASE passed
    <3>1. calls'[c] = [calls[c] EXCEPT !.at = next]
      BY <1>9, <2>1, Gone DEF Gate
    <3>2. UNCHANGED <<task, evidence, tree>> /\ calls[c].at = phase
      BY <1>9 DEF Gate, At
    <3>3. Knows(c)
      BY <1>1
    <3>4. /\ calls[c].base = task.base /\ calls[c].plan = task.plan
          /\ calls'[c].at = next /\ calls'[c].ack = calls[c].ack
          /\ calls'[c].base = task.base /\ calls'[c].plan = task.plan
      BY <3>1, <3>2, <3>3 DEF TypeOK, Call
    <3>5. Visible' = Visible /\ \A i : Fresh(i, "failed")' = Fresh(i, "failed")
                             /\ Fresh(i, "passed")' = Fresh(i, "passed")
      BY <3>2 DEF Visible, Kept, Fresh
    <3>6. Whole(c)' <=> Whole(c)
      BY <3>4, <3>5
    <3>7. CommitsBeyond(task.base)' <=> CommitsBeyond(task.base)
      BY <3>2 DEF CommitsBeyond
    <3>. HIDE DEF Whole
    <3>. QED  BY <1>9, <2>1, <3>2, <3>3, <3>4, <3>6, <3>7
  <2>2. CASE ~passed
    <3>1. calls'[c] = Idle
      BY <1>9, <2>2, Gone DEF Gate, Return
    <3>. QED  BY <1>4, <3>1 DEF Idle
  <2>. QED  BY <2>1, <2>2
<1>. HIDE DEF Whole
<1>10. CASE GateBranch(c)
  <2>. Gate(c, "gateBranch", tree.branch # "main", "gateStatus")
    BY <1>10 DEF GateBranch, Answers, Undisturbed
  <2>. QED  BY <1>9
<1>11. CASE GateStatus(c)
  <2>. Gate(c, "gateStatus", ~tree.dirty, "gateLog")
    BY <1>11 DEF GateStatus, Answers, Undisturbed
  <2>. QED  BY <1>9
<1>12. CASE GateLog(c)
  <2>. Gate(c, "gateLog",
            CommitsBeyond(calls[c].base) /\ calls[c].plan # "open",
            "gateEvidence")
    BY <1>12 DEF GateLog, Answers, Undisturbed
  <2>. QED  BY <1>9
<1>13. CASE GateEvidence(c)
  <2>. Gate(c, "gateEvidence", Whole(c), "gateDiff")
    BY <1>13 DEF GateEvidence, Whole
  <2>. QED  BY <1>9
<1>14. CASE GateDiff(c)
  <2>. PICK noSecret \in BOOLEAN : Gate(c, "gateDiff", noSecret, "gateReady")
    BY <1>14 DEF GateDiff
  <2>. QED  BY <1>9
<1>. QED  BY <1>5, <1>6, <1>7, <1>8, <1>10, <1>11, <1>12, <1>13, <1>14
          DEF Evaluate

(* A ledger that fits in one listing is listed completely. *)
LEMMA WholeIsVisible ==
  ASSUME TypeOK, ListedWhole
  PROVE  Visible = Kept
<1>1. Len(evidence) \in Nat /\ DOMAIN evidence = 1..Len(evidence)
  BY LenProperties DEF TypeOK
<1>2. IsFiniteSet(Kept)
  <2>1. IsFiniteSet(1..Len(evidence))
    BY <1>1, FS_Interval
  <2>2. Kept \in SUBSET (1..Len(evidence))
    BY <1>1 DEF Kept
  <2>. QED  BY <2>1, <2>2, FS_Subset
<1>3. ASSUME NEW i \in Kept
      PROVE  Cardinality({j \in Kept : j <= i}) <= Window
  <2>1. {j \in Kept : j <= i} \in SUBSET Kept
    OBVIOUS
  <2>2. Cardinality({j \in Kept : j <= i}) <= Cardinality(Kept)
    BY <1>2, <2>1, FS_Subset
  <2>3. /\ Cardinality({j \in Kept : j <= i}) \in Nat
        /\ Cardinality(Kept) \in Nat
    BY <1>2, <2>1, FS_Subset, FS_CardinalityType
  <2>. QED  BY <2>2, <2>3, LimitsAssumption DEF ListedWhole
<1>. QED  BY <1>3 DEF Visible

(* When nobody else works on the task, Git answers and the gate saw the    *)
(* whole ledger, the task becomes READY_TO_PUBLISH only in a state in      *)
(* which all six answers of the gate hold together.                        *)
THEOREM GateIsSound == Spec => GateSound
<1>. DEFINE Known == Undisturbed => GateKnows
            Sound == [ Serial /\ GitReliable /\ ~Background /\ ListedWhole =>
                         \A c \in Calls :
                           At(c, "gateReady") /\ task'.state = "READY_TO_PUBLISH"
                             => task' = task \/ Publishable(calls[c].ack) ]_vars
<1>1. Init => Known
  BY DEF Init, Idle, GateKnows, GatePhases, AfterBranch, AfterStatus,
         AfterLog, AfterEvidence
<1>2. TypeOK /\ Known /\ [Next]_vars => Known'
  BY GateKnowsStep DEF Undisturbed, Serial
<1>3. TypeOK /\ Known => Sound
  <2>. SUFFICES ASSUME TypeOK, Undisturbed, GateKnows, ListedWhole,
                       NEW c \in Calls, At(c, "gateReady")
                PROVE  Publishable(calls[c].ack)
    BY DEF Undisturbed
  <2>1. Visible = Kept
    BY WholeIsVisible
  <2>. QED  BY <2>1 DEF At, GateKnows, GatePhases, AfterBranch, AfterStatus,
                        AfterLog, AfterEvidence, Publishable
<1>. HIDE DEF Known
<1>4. TypeOK /\ Known /\ [Next]_vars => Sound
  BY <1>3
<1>. QED  BY <1>1, <1>2, <1>4, TypeCorrect, PTL DEF Spec, GateSound

-----------------------------------------------------------------------------
(* A completion that changed files has left nothing fresh behind before it *)
(* charges the attempt.                                                    *)
RepairKnows ==
  \A c \in Calls :
    At(c, "repairClose") /\ calls[c].changed /\ (UseDb \/ ListedWhole)
      => \A i \in Kept : evidence[i].stale

(* What markStaleEvidence leaves: it misses a record only when the ledger  *)
(* does not fit in one listing and nothing in that listing is fresh.       *)
LEMMA MarkStaleEffect ==
  ASSUME TypeOK, MarkStale, UseDb \/ ListedWhole'
  PROVE  \A i \in Kept' : evidence'[i].stale
<1>. DEFINE listed == IF UseDb THEN DOMAIN evidence ELSE Visible
            f == [i \in DOMAIN evidence |->
                    [Rewritten(i) EXCEPT !.stale = evidence[i].stale
                                                     \/ i \in listed]]
<1>1. \/ evidence' = evidence /\ \A i \in listed : evidence[i].stale
      \/ evidence' = f
  BY DEF MarkStale
<1>2. CASE evidence' = evidence /\ \A i \in listed : evidence[i].stale
  <2>1. Kept' = Kept /\ (ListedWhole' <=> ListedWhole)
    BY <1>2 DEF Kept, ListedWhole
  <2>2. Kept \subseteq listed
    <3>1. CASE UseDb
      BY <3>1 DEF Kept
    <3>2. CASE ~UseDb
      BY <2>1, <3>2, WholeIsVisible
    <3>. QED  BY <3>1, <3>2
  <2>. QED  BY <1>2, <2>1, <2>2
<1>3. CASE evidence' = f
  <2>. SUFFICES ASSUME NEW i \in Kept'  PROVE evidence'[i].stale
    OBVIOUS
  <2>1. i \in DOMAIN evidence /\ evidence'[i] = f[i] /\ ~f[i].lost
    BY <1>3 DEF Kept
  <2>2. evidence[i] \in Evidence
    BY <2>1, ElementOfSeq, LenProperties DEF TypeOK
  <2>3. /\ f[i].stale = (evidence[i].stale \/ i \in listed)
        /\ f[i].lost = (evidence[i].lost \/ (~UseDb /\ i \notin Visible))
    BY <2>1, <2>2 DEF Evidence, Rewritten
  <2>4. i \in listed
    BY <2>1, <2>3
  <2>. QED  BY <2>1, <2>3, <2>4
<1>. QED  BY <1>1, <1>2, <1>3

LEMMA RepairKnowsStep ==
  ASSUME TypeOK, Serial, RepairKnows, [Next]_vars
  PROVE  RepairKnows'
<1>. DEFINE Cleared(c) ==
       calls[c].at = "repairClose" /\ calls[c].changed /\ (UseDb \/ ListedWhole)
         => \A i \in Kept : evidence[i].stale
<1>1. ASSUME NEW c \in Calls  PROVE RepairKnows' <=> Cleared(c)'
  BY DEF Serial, RepairKnows, At
<1>2. CASE evidence' = evidence /\ calls' = calls
  BY <1>2 DEF RepairKnows, At, ListedWhole, Kept
<1>. SUFFICES ASSUME NEW c \in Calls,
                     \/ calls'[c].at \notin LatePhases
                     \/ RepairStale(c) \/ Evaluate(c)
              PROVE  Cleared(c)'
  <2>1. CASE Edit \/ Commit \/ LeaveBranch
    BY <1>2, <2>1 DEF Edit, Commit, LeaveBranch, Work
  <2>. QED  BY <1>1, <1>2, <2>1, SerialStep
<1>3. ASSUME calls'[c].at # "repairClose"  PROVE Cleared(c)'
  BY <1>3
<1>4. CASE calls'[c].at \notin LatePhases
  BY <1>3, <1>4 DEF LatePhases
<1>5. CASE RepairStale(c)
  <2>1. calls'[c] = [calls[c] EXCEPT !.at = "repairClose"]
    BY <1>5, Gone DEF RepairStale
  <2>2. calls'[c].changed = calls[c].changed
    BY <2>1 DEF TypeOK, Call
  <2>3. calls[c].changed => MarkStale
    BY <1>5 DEF RepairStale, CodeChanged
  <2>. QED  BY <2>2, <2>3, MarkStaleEffect
<1>6. CASE Evaluate(c)
  <2>. SUFFICES calls'[c].at # "repairClose"
    BY <1>3
  <2>1. ASSUME NEW phase, NEW passed, NEW next, Gate(c, phase, passed, next),
               next # "repairClose"
        PROVE  calls'[c].at # "repairClose"
    BY <2>1 DEF Gate, Return, Goto, Idle, TypeOK, Call
  <2>2. CASE GateStart(c)
    BY <2>2 DEF GateStart, Begin, Idle, TypeOK
  <2>3. CASE GateBranch(c) \/ GateStatus(c) \/ GateLog(c)
    BY <2>1, <2>3 DEF GateBranch, GateStatus, GateLog
  <2>4. CASE GateEvidence(c)
    BY <2>1, <2>4 DEF GateEvidence
  <2>5. CASE GateDiff(c)
    BY <2>1, <2>5 DEF GateDiff
  <2>6. CASE GateReady(c)
    BY <2>6 DEF GateReady, Update, Idle
  <2>. QED  BY <1>6, <2>2, <2>3, <2>4, <2>5, <2>6 DEF Evaluate
<1>. QED  BY <1>4, <1>5, <1>6

(* A completed repair attempt that changed files leaves no evidence of the *)
(* time before it fresh, when calls do not overlap and one listing returns *)
(* the whole ledger: completeRepairAttempt marks the evidence first.       *)
THEOREM ChangesClear == Spec => ChangeClearsEvidence
<1>. DEFINE Known == Serial => RepairKnows
            Clears == [ Serial /\ (UseDb \/ ListedWhole) => \A c \in Calls :
                          At(c, "repairClose") /\ calls[c].changed
                            /\ task'.repairs > task.repairs
                            => \A i \in Kept : evidence[i].stale ]_vars
<1>1. Init => Known
  BY DEF Init, Idle, RepairKnows, At
<1>2. TypeOK /\ Known /\ [Next]_vars => Known'
  BY RepairKnowsStep DEF Serial
<1>3. Known => Clears
  BY DEF RepairKnows
<1>. HIDE DEF Known
<1>4. Known /\ [Next]_vars => Clears
  BY <1>3
<1>. QED  BY <1>1, <1>2, <1>4, TypeCorrect, PTL DEF Spec, ChangeClearsEvidence
=============================================================================
